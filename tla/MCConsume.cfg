SPECIFICATION Spec
CONSTANTS
  s = s
  f = f
  c = c
  a1 = a1
  b1 = b1
  b2 = b2
  Parts = {s, f, c}
  Mode <- PartModes
  Cap = 2
  Msgs = {a1, b1, b2}
  Of <- Owner
  Slow = {b1}
  MaxRuns = 2
  MaxFaults = 1
INVARIANTS
  TypeOK
  SlotsHeld
  
  ReadyTruthful
PROPERTIES
  ShutsDown
  Handled
CHECK_DEADLOCK FALSE
