SPECIFICATION FairSpec
CONSTANTS
  n1 = n1
  n2 = n2
  h1 = h1
  Consumers = {n1, n2}
  Handlers = {h1}
  Log <- MCLog
  Sms <- MCSms
  NoCode = NoCode
  Provisioned = {"bat"}
  MaxAttempts = 2
  MaxGenerations = 2
INVARIANTS ReadingOnce OneOpenAlert ReplayNeverRefused CriticalOnFile
PROPERTIES ImplementsAlertBook LogDrained
CHECK_DEADLOCK FALSE
