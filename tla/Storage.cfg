SPECIFICATION StorageSpec
CONSTANTS
  Keys <- MCKeys
  Patterns <- MCPatterns
  MaxInserts = 3
  MaxStops = 1
  Configs <- MCConfigs
  Samples <- MCSamples
  MaxRuns = 2
  MaxClears = 1
  MaxBoots = 2
  Series = {s1, s2}
  Times = {1, 2, 3}
  Values = {v1, v2}
  MaxCalls = 4
  TKeys = {1, 2}
  TValues = {1, 2}
  TElems = {1, 2}
  TextElems = {1}
  Chains <- MCChains
  MaxTableCalls = 4
  Callers = {c1, c2}
  SeqSize = 3
  TsSize = 8
  MaxClock = 2
  MaxIds = 4
INVARIANTS
  IndexSound
  PatternsSound
  StoresAgree
  IdsGrow
CHECK_DEADLOCK FALSE
