SPECIFICATION ServicesSpec
CONSTANTS
  Callers = {t1, t2}
  BlockOfPoint <- MCBlockOfPoint
  LakeTables = {1, 2}
  KeepBlock = 2
  MaxMillis = 1
  MaxGeneration = 3
  MaxUses = 3
  MaxFaults = 1
  MaxMoves = 1
  Nodes = {n1, n2}
  Settings = {1, 2}
  Names = {k1}
  Clients = {1, 2}
  MaxEdits = 2
  Scrapers = {s1, s2}
  Series = {1, 2}
  StationWindow = 0
  DefaultWindow = 2
  FallbackWindow = 1
  max_series = 2
  MaxObs = 2
  MaxNow = 2
  ModuleIds = {"repl", "b"}
  BuiltinId = "repl"
  MaxBoots = 2
  GNodes = {g1, g2, g3}
  Infos = {1, 2}
  Observer = g1
  Window = 1
  DeadAfter = 2
  Quorum = 1
  Clusters = {"c"}
  Pipelines = {"p", "q"}
  MaxPublish = 3
  MaxPackets = 3
  MaxGClock = 4
  MaxCommands = 3
  Viewers = {v1, v2}
  ChanCapacity = 1
  MaxMessages = 2
  Pagers = {p1, p2}
  Pages = {1, 2}
  PageTtl = 1
  MaxSets = 3
  MaxMicros = 3
  MaxTokens = 4
  Transforms = {n1, n2}
  MaxSaves = 3
  MaxBatches = 2
INVARIANTS
  
  EditsKept
  ScrapeSound
  
  
  HostSound
  PickedUp
CHECK_DEADLOCK FALSE
