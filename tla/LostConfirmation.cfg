\* A telegram with an octet that equals the checksum so far, then confirmed.
SPECIFICATION Spec
CONSTANTS
  BitXor <- MCBitXor
  Telegrams <- BusTelegrams
  Sum <- MCSum
  Others <- Confirmations
  Garbage <- MCGarbage
  MaxChunk = 22
  MaxItems = 2
PROPERTIES
  ConfirmedIsAcknowledged
