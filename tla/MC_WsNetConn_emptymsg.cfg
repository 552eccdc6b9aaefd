\* A zero-length binary message reaches Read as io.EOF.
CONSTANTS
  b1 = b1
  b2 = b2
  Byte <- MCByte
  Messages <- MCMessagesWithEmpty
  Payloads <- MCPayloads
  BufSizes <- MCBufSizes
  MaxMsgs = 2
  MaxWrites = 0
SPECIFICATION Spec
PROPERTIES ByteStreamSpec
CHECK_DEADLOCK FALSE
