\* Telegrams, polls and confirmations, in chunks cut anywhere.
SPECIFICATION Spec
CONSTANTS
  BitXor <- MCBitXor
  Telegrams <- BusTelegrams
  Sum <- MCSum
  Others <- ChipOctets
  Garbage <- MCGarbage
  MaxChunk = 22
  MaxItems = 2
INVARIANTS
  TypeOK
  ChecksumWasReceived
PROPERTIES
  WholeTelegramIsTunnelled
  ConfirmationWasReceived
  PlainTelegramAckedIffConfirmed
