SPECIFICATION Spec
CONSTANTS
  Engines = {e1}
  MaxEvents = 5
  Limit = 2
  Every = 2
  Manual = FALSE
  MaxFaults = 0
INVARIANT
  ArchivedReadable
