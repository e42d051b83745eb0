\* A client connects and is not heard of again.
SPECIFICATION SteadySpec
CONSTANTS
  a = a
  b = b
  u1 = u1
  u2 = u2
  Data <- MCData
  Blank = Blank
  SegCount <- ShortSegCount
  MaxSegs = 3
  UdpClients = {u1}
  TcpPeers = {p1}
  UdpRequests <- OneConnects
  TcpRequests = {}
  Telegrams = {}
  Fds = {fd1}
  NoReq = NoReq
  NoFrame = NoFrame
  NoConn = NoConn
  NoFd = NoFd
  NoTelegram = NoTelegram
  Unwritten = Unwritten
  Garbled = Garbled
  Outside = Outside
PROPERTIES
  SilentClientIsDropped
