SPECIFICATION FairSpec
CONSTANTS
  d1 = d1
  d2 = d2
  tamper = tamper
  outage = outage
  Devices = {d1, d2}
  Codes = {}
  SiteOutage = outage
  NoCode = NoCode
  EventSizes = {2}
  MaxStorageBytes = 40
  MaxEventBytes = 2
  CriticalReservePercent = 10
  BatchSize = 2
  BatchMaxBytes = 1
  MaxRetries = 1
  MaxSequence = 2
  MaxStoreErrors = 1
INVARIANTS NothingVanishes
PROPERTIES ImplementsStoreForward EventuallySettled
