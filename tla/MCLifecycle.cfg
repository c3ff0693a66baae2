SPECIFICATION Spec
CONSTANTS
  Engines = {e1}
  MaxEvents = 6
  Limit = 2
  Every = 2
  Manual = FALSE
  MaxFaults = 1
INVARIANTS
  TypeOK
  
  EffectsBeforePurge
  DeletedClean
PROPERTY
  EventuallyGone
