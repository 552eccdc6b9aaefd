\* Stream integrity and progress of Read, with empty messages allowed.
CONSTANTS
  b1 = b1
  b2 = b2
  Byte <- MCByte
  Messages <- MCMessagesWithEmpty
  Payloads <- MCPayloads
  BufSizes <- MCBufSizes
  MaxMsgs = 3
  MaxWrites = 1
SPECIFICATION FairSpec
INVARIANTS StreamIntegrity
PROPERTIES AllSentDelivered
\* After Close, or after the read loop stopped, the connection really stops.
CHECK_DEADLOCK FALSE
