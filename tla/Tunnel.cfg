\* Bus telegrams and tunnelled requests on the TCP connection, which two
\* clients open in turn and get the same descriptor for.
SPECIFICATION Spec
CONSTANTS
  a = a
  b = b
  u1 = u1
  u2 = u2
  Data <- MCData
  Blank = Blank
  SegCount <- MCSegCount
  MaxSegs = 3
  UdpClients = {}
  TcpPeers = {p1, p2}
  UdpRequests <- NoRequests
  TcpRequests <- TunnelRequests
  Telegrams = {b}
  Fds = {fd1}
  NoReq = NoReq
  NoFrame = NoFrame
  NoConn = NoConn
  NoFd = NoFd
  NoTelegram = NoTelegram
  Unwritten = Unwritten
  Garbled = Garbled
  Outside = Outside
INVARIANTS
  UndisturbedFrameIsIntact
  SendsOnlyWritten
PROPERTIES
  TcpExchangeKept
SYMMETRY PeerSymmetry
