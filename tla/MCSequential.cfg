CONSTANTS
  Parts = {"registers", "config", "keys", "query", "map", "lines", "capabilities",
           "memory", "address", "buffer", "queue"}
  Rings = {"desc"}
  MaxQueue = 2
  MaxQueueNum = 4
  Words = {0, 1}
  Features = 5
  ConfigSizes = {0, 4, 6}
  Word = 16
  Buttons = {1, 2}
  Keys = {10, 11}
  MaxRoom = 6
  MaxSends = 3
  Slots = {0, 1, 2, 3, 6}
  Wanted = {6}
  Bars <- MCBars
  RomBar = "rom"
  BarValues = {2, 5}
  Pins = {0, 1}
  PicIrqs = {0, 1}
  Routes = {0, 1, 16}
  CfgSize = 8
  FirstCap = 2
  CapSizes = {2, 3}
  RamPages = 2
  MapPages = 4
  Macs = {"m1", "m2"}
  NbClients = 2
  Requested = {0, 1, 2}
  GuestIps = {1, 2}
  DataLen = 5
  Mss = 2
  OobCut = FALSE
  IfSockets = {"c", "f"}
  LowDelay = {"f"}
  NoSocket = "null"
  DownQueued = 3
  DownSent = 1
  MaxQueued = 2
SPECIFICATION SequentialSpec
INVARIANTS   DriverSeesInput DriverFindsDevice
  LinesFollowPins WritesShowDirty ClientsReached  SendsInTurn
CHECK_DEADLOCK FALSE
