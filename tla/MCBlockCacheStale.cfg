CONSTANTS
  NBlocks = 3
  BlockSize = 4
  ClusterSize = 2
  CacheMax = 1
  Prefetch <- Groups
  MaxCount = 5
  MaxCacheRequest = 2
  KeepsBuffer = TRUE
SPECIFICATION BcSpec
PROPERTIES ReadsSeeWrites
CHECK_DEADLOCK FALSE
