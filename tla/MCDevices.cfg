CONSTANTS
  Parts = {"block", "cache", "console"}
  NSectors = 2
  MaxRequest = 3
  NBlocks = 3
  BlockSize = 4
  ClusterSize = 2
  CacheMax = 1
  Prefetch <- Groups
  MaxCount = 5
  MaxCacheRequest = 2
  KeepsBuffer = TRUE
  MaxKeys = 3
  ChunkMax = 3
  PipeMax = 2
  BufLen = 1
  MaxBuffers = 3
SPECIFICATION DevicesSpec
INVARIANTS AnsweredInOrder   KeysArrive
PROPERTIES EventuallyAnswered  RequestsContinue
CHECK_DEADLOCK FALSE
