\* wsNetConn implements ByteStream for a peer that never sends an empty message.
CONSTANTS
  b1 = b1
  b2 = b2
  Byte <- MCByte
  Messages <- MCMessagesNonEmpty
  Payloads <- MCPayloads
  BufSizes <- MCBufSizes
  MaxMsgs = 3
  MaxWrites = 1
SPECIFICATION Spec
PROPERTIES ByteStreamSpec
CHECK_DEADLOCK FALSE
