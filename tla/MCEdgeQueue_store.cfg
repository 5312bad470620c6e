SPECIFICATION Spec
CONSTANTS
  d1 = d1
  d2 = d2
  tamper = tamper
  outage = outage
  Devices = {d1, d2}
  Codes = {tamper, outage}
  SiteOutage = outage
  NoCode = NoCode
  EventSizes = {1}
  MaxStorageBytes = 100
  MaxEventBytes = 5
  CriticalReservePercent = 97
  BatchSize = 2
  BatchMaxBytes = 2
  MaxRetries = 2
  MaxSequence = 2
  MaxStoreErrors = 1
INVARIANTS ReplayModeCoversBacklog CriticalReserveKept CriticalRowsHaveIncident
  IncidentDelivery
PROPERTIES ResentAsReplay
SYMMETRY Symmetry
