CONSTANTS
  Threads = {worker, io}
  Gated = TRUE
  MaxUsed = 4
SPECIFICATION Spec
INVARIANTS NoLostInterrupt
CHECK_DEADLOCK FALSE
