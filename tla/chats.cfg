SPECIFICATION ChatsSpec
CONSTANTS
  m1 = m1  m2 = m2  r1 = r1  r2 = r2
  start_message = start_message
  owner = owner  other = other  registered = registered
  None = None
  NoBot = NoBot
  Audiences = {"OWNERS", "ONE_BOT"}
  Columns = {start_message}
  Messages = {m1, m2}
  Requests = {r1, r2}
  MaxFaults = 1
  Owner = owner
  Users = {other, registered}
  PageSize = 2
  Clients0 <- OneClient
  Bots0 <- OneBot1
  Jobs0 <- FourJobs
  Broadcasts0 <- OneBroadcast
  MessageCampaigns = 1
  MaxBots = 2
  MaxChanges = 1
INVARIANTS ChatsTypeOK OncePerMessage EveryButtonAnswered OwnBotsOnly EveryRowListed
PROPERTIES SentAsComposed StoredOnlyIfAsked
SYMMETRY Alike
