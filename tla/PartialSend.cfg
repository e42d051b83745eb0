\* send takes part of a frame while another task sets the length.
SPECIFICATION Spec
CONSTANTS
  a = a
  b = b
  u1 = u1
  u2 = u2
  Data <- MCData
  Blank = Blank
  SegCount <- MCSegCount
  MaxSegs = 3
  UdpClients = {}
  TcpPeers = {p1}
  UdpRequests <- NoRequests
  TcpRequests <- ConnectRequests
  Telegrams = {b}
  Fds = {fd1}
  NoReq = NoReq
  NoFrame = NoFrame
  NoConn = NoConn
  NoFd = NoFd
  NoTelegram = NoTelegram
  Unwritten = Unwritten
  Garbled = Garbled
  Outside = Outside
INVARIANTS
  ContinuesWhereItStopped
