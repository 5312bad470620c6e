SPECIFICATION Spec
CONSTANTS
  n1 = n1
  n2 = n2
  h1 = h1
  Consumers = {n1}
  Handlers = {h1}
  Log <- MCLog
  Sms <- MCSms
  NoCode = NoCode
  Provisioned = {"bat"}
  MaxAttempts = 1
  MaxGenerations = 1
INVARIANTS FailedIsRedelivered
CHECK_DEADLOCK FALSE
