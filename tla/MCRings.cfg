CONSTANTS
  Threads = {worker, io}
  Gated = FALSE
  MaxUsed = 4
  Num = 2
  IdxMod = 4
  Fids = {1, 2}
  Nodes = {"root", "x"}
  Root = "root"
  Files = {"f1", "f2", "f3"}
  Requests <- MCRequests
  MaxAsked = 2
SPECIFICATION RingsSpec
INVARIANTS NoLostInterrupt 
PROPERTIES ImplementsRequestQueue RepliesComplete
CHECK_DEADLOCK FALSE
