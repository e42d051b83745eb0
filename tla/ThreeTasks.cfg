\* The three tasks share the buffer, the length and the connection flag: a client
\* connects over UDP, another disconnects over TCP, the bus sends telegrams.
SPECIFICATION FairSpec
CONSTANTS
  a = a
  b = b
  u1 = u1
  u2 = u2
  Data <- MCData
  Blank = Blank
  SegCount <- ShortSegCount
  MaxSegs = 3
  UdpClients = {u1, u2}
  TcpPeers = {p1}
  UdpRequests <- TwoClients
  TcpRequests <- DisconnectRequests
  Telegrams = {b}
  Fds = {fd1}
  NoReq = NoReq
  NoFrame = NoFrame
  NoConn = NoConn
  NoFd = NoFd
  NoTelegram = NoTelegram
  Unwritten = Unwritten
  Garbled = Garbled
  Outside = Outside
INVARIANTS
  TypeOK
  EstablishedIsConnected
  UndisturbedFrameIsIntact
PROPERTIES
  UdpExchangeKept
  AlwaysListensAgain
