SPECIFICATION FairSpec
CONSTANTS
  Events = {1, 2, 3}
  Encodable = {2, 3}
  Publishers = {"p", "q"}
  BatchSize = 2
  Lease = 2
  IdleDelay = 1
  MaxFailureDelay = 2
  Retention = 1
  MaxFaults = 1
INVARIANTS NothingLost LeaseExcludes
PROPERTY AtLeastOnce
