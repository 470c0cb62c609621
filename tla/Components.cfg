SPECIFICATION ComponentsSpec
CONSTANTS
  Step = 2
  Prices = {1, 2}
  MaxTicks = 4
  WireCap = 1
  MaxCuts = 1
  MaxTime = 3
  MaxCycles = 4
  EventCap = 1
  VarNames = {"a", "b"}
  MaxNotes = 3
  Coordinates = {0, 2, 6}
  shingle_size = 2
  sample_size = 3
  leaf_capacity = 1
  MaxIds = 5
  RingCapacity = 16
  max_bit = 3
  Floors = {0, 3}
  Samples <- MCSamples
  Gaps = {1, 5}
  interval_secs = 2
  MaxSamples = 4
  GraphSize = 5
  Wires <- MCWires
  Feeds = {1, 2}
  Rebuilders = {t1, t2}
  Structures = {1, 2}
  Artifacts = {1}
  PREDICTOR_CACHE_CAPACITY = 2
  MaxModels = 4
  Keys = {k1, k2, k3}
  Strays = {stray}
  Lists <- MCLists
  Names = {n1, n2}
  NoFault = NoFault
  NoCache = NoCache
  MaxSlot = 3
  MaxGeneration = 3
  MaxEvents = 2
  Cap = 2
INVARIANTS
  
  HoldsWindow
  AnalysisSound
  
  CycleAnswers
  
PROPERTY RightNode
CHECK_DEADLOCK FALSE
