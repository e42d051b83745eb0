\* The handlers lag behind the links, and the timer task behind its commands; two
\* leases; every call of lanw5500_init fails or succeeds.  No symmetry, for the liveness properties.
\* A program that has used up its calls of lanw5500_init stops.
SPECIFICATION NetFairSpec
CHECK_DEADLOCK FALSE
CONSTANTS
  ip1 = ip1
  ip2 = ip2
  Leases <- MCLeases
  NoAddress = NoAddress
  MaxRetry = 2
  MaxEvents = 4
  EthLeases <- MCLeases
  NoEthAddress = NoAddress
  MaxEthEvents = 4
  MaxCommands = 3
  MaxInits = 3
INVARIANTS
  TypeOK
  OfflineOnlyIfGivenUp
  AddressIsCurrent
  EthTypeOK
  GivesBackWhatItTook
  LeftMacBlocksInit
  ConnInfoIsCurrent
PROPERTIES
  GivesUpOnlyAfterRetries
  TimeoutBeforeAddress
  TimesOutWithoutLink
  ServersStart
