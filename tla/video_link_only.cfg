SPECIFICATION Spec
CONSTANTS
  p = p  l = l  w1 = w1  w2 = w2  c1 = c1
  None = None
  Videos = {l}
  Workers = {w1}
  Cycles = {c1}
  KindOf <- Kind
  MaxAttempts = 2
  MaxJobs = 2
  Limit <- NoFault
INVARIANT LinkOnlyNotBroadcast
CHECK_DEADLOCK FALSE
