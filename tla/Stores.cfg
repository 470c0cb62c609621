CONSTANTS
  Threads = {t1, t2}
  Writers = {t1, t2}
  CThreads = {t1, t2}
  k1 = k1
  k2 = k2
  o1 = o1
  o2 = o2
  o3 = o3
  TsKeys = {k1, k2}
  Row = row
  Block <- MCBlock
  KeepBlocks = {2}
  FlushThreshold = 2
  SplitLine = FALSE
  MaxWrites = 3
  MaxFlushes = 2
  MaxGen = 3
  MaxCrashes = 1
  Obs = {o1, o2, o3}
  BlockOf <- MCBlockOf
  Capacity = 1
  Shared = TRUE
  MaxClock = 2
  MaxTasks = 2
  MaxCalls = 3
  CKeys = {o1, o2, o3}
  ShardOf <- MCShardOf
  Shards = 2
  ArenaSize = 2
  MaxPuts = 3
SYMMETRY Symm
SPECIFICATION StoresSpec
INVARIANTS LakeSound  ArenaIsLru
PROPERTY CrashSafe
CHECK_DEADLOCK FALSE
