SPECIFICATION FairSpec
CONSTANTS
  c1 = c1  c2 = c2  w1 = w1  w2 = w2
  None = None
  Campaigns = {c1, c2}
  Workers = {w1, w2}
  N = 2
  PageSize = 1
  MaxAttempts = 4
  Limit <- Each
  MaxFaults = 2
CONSTRAINT TwoOfOne
INVARIANTS TypeOK ResentOnlyAfterFault
PROPERTIES KeepsPromise EveryCampaignEnds
\* Every campaign is over, no worker is at work and no fault is left.
CHECK_DEADLOCK FALSE
