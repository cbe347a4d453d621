CONSTANTS
  Parts = {"receive", "ip", "udp"}
  Threads = {io}
  Packets = 4
  Long = {2}
  Buffers = 3
  Datagram <- MCDatagram
  IpPackets <- MCPieces
  FragTTL = 2
  FragUnit = 2
  IfMtu = 5
  HLen = 1
  OutSizes = {5, 9, 10}
  MaxShort = 1
  SoIds = {"s1", "s2", "s3", "s4"}
  GuestPorts = {"p", "nine"}
  PingPort = "nine"
  Peers = {"vhost", "dns", "bcast", "x"}
  Vhost = "vhost"
  Dns = "dns"
  Bcast = "bcast"
  Expire = 2
  ExpireFast = 1
  MaxSends = 3
SPECIFICATION SlirpSpec
INVARIANTS  FragmentsKept PiecesMakeThePacket SocketsServe
PROPERTIES QueueEnds SocketsEnd
CHECK_DEADLOCK FALSE
