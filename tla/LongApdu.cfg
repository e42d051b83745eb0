\* One task tunnels a telegram of sixty octets of data.
SPECIFICATION Spec
CONSTANTS
  short = short
  wild = wild
  long = long
  Handlers = {tcp}
  Telegrams = {long}
  Length <- MCLength
  CemiLength <- MCCemiLength
  BufferSize = 128
  IndexRange = 256
  Gateway = Gateway
  Nothing = Nothing
  Outside = Outside
INVARIANTS
  ServicesInRange
