\* Two tasks tunnel a whole telegram and one that announces too much.
SPECIFICATION Spec
CONSTANTS
  short = short
  wild = wild
  long = long
  Handlers = {udp, tcp}
  Telegrams = {short, wild}
  Length <- MCLength
  CemiLength <- MCCemiLength
  BufferSize = 11
  IndexRange = 10
  Gateway = Gateway
  Nothing = Nothing
  Outside = Outside
SYMMETRY Symmetry
INVARIANTS
  TypeOK
  UndisturbedTelegramIsIntact
  SourceIsGateway
