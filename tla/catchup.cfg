SPECIFICATION FairSpec
CONSTANTS
  None = None
  N = 3
  Old = {1, 3}
  BatchSize = 2
  MaxAttempts = 2
  MaxJobs = 4
  Limit <- Each
  MaxFaults = 1
CONSTRAINT StartOrRetry
INVARIANTS LiveHasPriority 
PROPERTIES EveryCatchupEnds NoVideoFallsBetween
\* No start, no fault is left, and every catch-up and broadcast is over.
CHECK_DEADLOCK FALSE
