SPECIFICATION Spec
CONSTANTS
  a = a
  b = b
  c = c
  NoComp = NoComp
  Ids <- MCIds
  Plans <- MCPlans
  Fragile = {b}
  MaxIdx = 5
  MaxGeneration = 6
INVARIANTS
  TypeOK
  Tables
  WiredAcyclic
PROPERTIES
  SlotOwner
  ReloadInstalls
CHECK_DEADLOCK FALSE
