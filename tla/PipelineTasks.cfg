SPECIFICATION TaskSpec
CONSTANTS
  a = a
  c = c
  NoComp = NoComp
  NoReload = NoReload
  Ids <- MCIds
  Plans <- MCPlans
  Fragile = {c}
  MaxIdx = 3
  MaxGeneration = 4
INVARIANTS
  ComponentFresh
PROPERTIES
  AtomicSpec
  
CHECK_DEADLOCK FALSE
