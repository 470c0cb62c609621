CONSTANTS
  Threads = {t1, t2}
  Writers = {t1, t2}
  CThreads = {t1, t2}
  k1 = k1
  k2 = k2
  o1 = o1
  o2 = o2
  o3 = o3
  TsKeys = {k1, k2}
  Row = row
  Block <- MCBlock
  KeepBlocks = {2}
  FlushThreshold = 0
  SplitLine = TRUE
  MaxWrites = 2
  MaxFlushes = 1
  MaxGen = 2
  MaxCrashes = 1
  Obs = {o1, o2, o3}
  BlockOf <- MCBlockOf
  Capacity = 1
  Shared = TRUE
  MaxClock = 1
  MaxTasks = 2
  MaxCalls = 4
  CKeys = {o1, o2, o3}
  ShardOf <- MCShardOf
  Shards = 2
  ArenaSize = 2
  MaxPuts = 3
SPECIFICATION StoresSpec
INVARIANT Reopens
