CONSTANTS
  SeqSpace = 32
  FirstIss = 30
  TCP_ISSINCR = 8
  TCP_MSS = 2
  MinMaxseg = 1
  TCP_MAXWIN = 3
  SndSpace = 2
  RcvSpace = 2
  MaxRxtShift = 1
  RexmtThresh = 1
  GuestIsn = 5
  Scenarios <- MCScenarios
  HostRoom = 1
SPECIFICATION Spec
CHECK_DEADLOCK FALSE
INVARIANT TimerArmed
