SPECIFICATION FairSpec
CONSTANTS
  Tokens <- MCTokens
  PlainTokens <- MCPlainTokens
  TokenLength <- MCTokenLength
  Room = 40
  Second = 2
  MinHeartbeatInterval = 2
  MaxHeartbeatInterval = 2
  Sites = {"s1", "s2"}
  Gateways <- MCGateways
  Senders <- MCSenders
  APIKeys <- MCAPIKeys
  HeartbeatsEnabled = TRUE
  Batches <- MCBatches
  Incidents <- MCIncidents
  Intervals = {2}
  Skew <- MCSkew
  OfflineAfter = 1
  EventStaleAfter = 1
  Handlers = {1, 2}
  Epoch = 4
  MaxClock = 6
  MaxMessages = 2
INVARIANTS NoFalseLife TextsMeanWhatWasSent AnswersAreTrue HealthIsNewest
PROPERTY ContactsObserved
