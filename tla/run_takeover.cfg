SPECIFICATION Spec
CONSTANTS
  w1 = w1  w2 = w2
  Workers = {w1, w2}
  N = 3
  PageSize = 1
  Limit <- Takeover
SYMMETRY AnyWorker
INVARIANTS TypeOK CursorCoversSteady ResentOnlyAfterFault
\* The broadcast is over, no worker is at work and no visitor is left.
CHECK_DEADLOCK FALSE
