CONSTANTS
  Threads = {io, worker}
  Packets = 4
  Long = {2}
  Buffers = 3
SPECIFICATION Spec
INVARIANTS NoPacketLost
CHECK_DEADLOCK FALSE
