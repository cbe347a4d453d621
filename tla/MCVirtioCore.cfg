CONSTANTS
  Num = 2
  IdxMod = 4
  MaxRequests = 3
SPECIFICATION FairSpec
INVARIANTS CoreAgrees
PROPERTIES EventuallyReturned
CHECK_DEADLOCK FALSE
