SPECIFICATION Spec
CONSTANTS
  Unset = Unset
  Garbage = Garbage
  Tokens <- MCTokens
  PlainTokens = {"s1", "g1", "site", "a very long name"}
  TokenLength <- MCTokenLength
  Room = 9
  SampleRoom = 18
  Second = 1
  MinHeartbeatInterval = 1
  MaxHeartbeatInterval = 2
  MiB = 1
  MaxIncidentAttempts = 3
  IncidentAttemptWindow = 4
  Env <- MCEnv
  Hour = 0
  Day = 2
  HeartbeatRetention = 2
  UploadLag = 1
  MaxClock = 2
  MaxIncidents = 2
INVARIANTS IncidentBudget SiteBudget AcceptedIsLast HeartbeatBudget
