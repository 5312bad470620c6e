SPECIFICATION FairSpec
CONSTANTS
  c1 = c1
  c2 = c2
  Conditions = {c1, c2}
  Unwritable = {c2}
  Debounce = 2
INVARIANTS OpenedHasIncident DebounceSurvives
PROPERTIES ActiveIsReported
