\* A client tunnels over UDP and another over TCP, while polls arrive.
SPECIFICATION GatewayFairSpec
CONSTANTS
  a = a
  b = b
  u1 = u1
  Data <- MCData
  Blank = Blank
  SegCount <- MCSegCount
  MaxSegs = 2
  UdpClients = {u1}
  TcpPeers = {p1}
  UdpRequests <- UdpTunnels
  TcpRequests <- TcpTunnels
  Telegrams = {}
  Fds = {fd1}
  NoReq = NoReq
  NoFrame = NoFrame
  NoConn = NoConn
  NoFd = NoFd
  NoTelegram = NoTelegram
  Unwritten = Unwritten
  Garbled = Garbled
  Outside = Outside
  Length <- MCLength
  CemiLength <- MCCemiLength
  BufferSize = 10
  IndexRange = 10
  GatewayAddress = GatewayAddress
  Nothing = Nothing
  Mixed = Mixed
INVARIANTS
  GatewayTypeOK
  ConfirmationIsTrue
PROPERTIES
  TunnelExchangeKept
