SPECIFICATION FairSpec
CONSTANTS
  w1 = w1  w2 = w2
  Workers = {w1}
  N = 3
  PageSize = 2
  Limit <- CrashVisits
INVARIANTS CountsMatchRecords OverMeansReached
PROPERTY EveryTargetReached
\* The broadcast is over, no worker is at work and no visitor is left.
CHECK_DEADLOCK FALSE
