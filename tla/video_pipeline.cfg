SPECIFICATION FairSpec
CONSTANTS
  p = p  l = l  w1 = w1  w2 = w2  c1 = c1
  None = None
  Videos = {p}
  Workers = {w1, w2}
  Cycles = {c1}
  KindOf <- Kind
  MaxAttempts = 2
  MaxJobs = 2
  Limit <- TwoCrashes
INVARIANT OneOfEach
PROPERTY EveryVideoSettles
CHECK_DEADLOCK FALSE
