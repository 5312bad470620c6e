SPECIFICATION FairSpec
CONSTANTS
  Events = {1, 2, 3}
  Encodable = {3}
  Publishers = {"p"}
  BatchSize = 2
  Lease = 3
  IdleDelay = 1
  MaxFailureDelay = 3
  Retention = 1
  MaxFaults = 0
PROPERTY AtLeastOnce
