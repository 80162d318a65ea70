SPECIFICATION FairSpec
CONSTANTS
  a = a  b1 = b1  b2 = b2  w1 = w1  w2 = w2
  None = None
  Bots = {a}
  Broadcasts = {b1, b2}
  BotOf <- OneBot
  Workers = {w1, w2}
  MaxAttempts = 2
  Limit <- AllFaults
INVARIANTS TypeOK NoUnexplainedDoubleRun OneLivePerBotUnlessHanded
PROPERTIES KeepsPromise EveryBroadcastSettles
CONSTRAINT ThreeFaults
