CONSTANTS
  Parts = {"reset", "main", "chain"}
  Quiet = TRUE
  MaxAvail = 3
  MaxReset = 2
  MaxStops = 2
  MaxPending = 2
  MaxDescs = 3
  MaxLen = 2
  Header = 2
  Block = 2
  PacketLen = 1
SPECIFICATION ProgramSpec
INVARIANTS DescriptorsOpen ChainsHandled
PROPERTIES WorkerTakesPublished  GuestServed
CHECK_DEADLOCK FALSE
