SPECIFICATION FairSpec
CONSTANTS
  t1 = t1  t2 = t2  w1 = w1  w2 = w2
  None = None
  Taps = {t1, t2}
  Workers = {w1, w2}
  N = 2
  MaxAttempts = 2
  Limit <- TwoTaps
  MaxFaults = 2
INVARIANTS OneJobPerUnlock ArriveInOrder ResentOnlyAfterFault DeliveriesAccounted
PROPERTY EveryTapServed
\* Every job is over, no tap and no fault is left.
CHECK_DEADLOCK FALSE
