----------------------------- MODULE ByteStream -----------------------------
(***************************************************************************)
(* What a net.Conn promises the SSH client that reads from it: the bytes  *)
(* the peer sent, delivered in order, each once, in reads of at most the   *)
(* caller's buffer size; and a read fails only once the connection has    *)
(* been closed or cancelled on this side, or the peer has hung up and     *)
(* every byte it sent has been delivered.                                  *)
(***************************************************************************)
EXTENDS Naturals, Sequences

CONSTANTS
  Byte,      \* the byte values carried
  BufSizes   \* the buffer sizes the reader passes

VARIABLES
  sent,      \* bytes the peer has written, in order
  got,       \* bytes the reader has received, in order
  closed,    \* this side has closed or cancelled the connection
  peerDone,  \* the peer has hung up
  failed     \* a read has returned an error

absVars == <<sent, got, closed, peerDone, failed>>

Init ==
  /\ sent = <<>>
  /\ got = <<>>
  /\ closed = FALSE
  /\ peerDone = FALSE
  /\ failed = FALSE

\* The peer appends bytes to the stream.
PeerWrite ==
  /\ ~peerDone
  /\ Len(sent') > Len(sent)
  /\ SubSeq(sent', 1, Len(sent)) = sent
  /\ UNCHANGED <<got, closed, peerDone, failed>>

PeerHangUp ==
  /\ ~peerDone
  /\ peerDone' = TRUE
  /\ UNCHANGED <<sent, got, closed, failed>>

\* A read returns the next k bytes, 1 <= k <= the buffer size.
Recv ==
  /\ ~failed
  /\ \E n \in BufSizes : \E k \in 1..n :
       /\ Len(got) + k <= Len(sent)
       /\ got' = got \o SubSeq(sent, Len(got) + 1, Len(got) + k)
  /\ UNCHANGED <<sent, closed, peerDone, failed>>

CloseLocal ==
  /\ ~closed
  /\ closed' = TRUE
  /\ UNCHANGED <<sent, got, peerDone, failed>>

\* A read fails: only after a local close, or at the end of the stream.
Fail ==
  /\ ~failed
  /\ closed \/ (peerDone /\ got = sent)
  /\ failed' = TRUE
  /\ UNCHANGED <<sent, got, closed, peerDone>>

Next == PeerWrite \/ PeerHangUp \/ Recv \/ CloseLocal \/ Fail

Spec == Init /\ [][Next]_absVars

=============================================================================
