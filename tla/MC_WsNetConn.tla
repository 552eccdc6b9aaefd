--------------------------- MODULE MC_WsNetConn ---------------------------
(* Model-checking instance of WsNetConn: two byte values, messages of up   *)
(* to two bytes, read buffers of one and two bytes, so that a message can *)
(* be longer than the buffer and be split across reads.                    *)
EXTENDS WsNetConn

CONSTANTS b1, b2

MCByte == {b1, b2}

\* Messages of one or two bytes, as Orchard's forwarder sends them.
MCMessagesNonEmpty == {<<x>> : x \in MCByte} \cup {<<x, y>> : x, y \in MCByte}

\* The same, and the zero-length binary message.
MCMessagesWithEmpty == MCMessagesNonEmpty \cup {<<>>}

MCPayloads == {<<b1>>}

MCBufSizes == {1, 2}

=============================================================================
