----------------------------- MODULE WsNetConn -----------------------------
(***************************************************************************)
(* The duplex stream adapter of internal/ssh (wsNetConn): a WebSocket      *)
(* connection, which carries whole binary messages, presented to the SSH  *)
(* client as a net.Conn byte stream.                                       *)
(*                                                                         *)
(* Data abstraction.  The bytes the peer (Orchard's port-forward endpoint) *)
(* has sent are kept as one sequence `sent`, and the message boundaries as *)
(* the offsets `ends` at which each message ends, so that message i is     *)
(* sent[ends[i-1]+1 .. ends[i]].  The adapter's partial-message reader     *)
(* (c.reader) is the flag `reader` and the offset `rpos` up to which the   *)
(* current message has been read; `fetched` counts the messages handed    *)
(* out by ws.Reader.  `got` is the history of bytes Read returned.        *)
(*                                                                         *)
(* The message reader of the WebSocket library returns, for a message with *)
(* bytes left, between 1 and min(len(b), bytes left) bytes with a nil      *)
(* error (a message may arrive in several frames), and (0, io.EOF) once    *)
(* the message is exhausted.                                               *)
(***************************************************************************)
EXTENDS Naturals, Sequences

CONSTANTS
  Byte,       \* the byte values carried (model values)
  Messages,   \* the binary messages the peer may send (finite, may hold <<>>)
  Payloads,   \* the buffers the SSH client may Write
  BufSizes,   \* the sizes of the buffers the SSH client passes to Read
  MaxMsgs,    \* bound on the number of messages the peer sends
  MaxWrites   \* bound on the number of Write calls

ASSUME MessagesAssumption == Messages \subseteq Seq(Byte)
ASSUME PayloadsAssumption == Payloads \subseteq Seq(Byte)
ASSUME BufSizesAssumption == BufSizes \subseteq Nat \ {0}
ASSUME BoundsAssumption == MaxMsgs \in Nat /\ MaxWrites \in Nat

\* The errors a Read or Write returns: nil, io.EOF, the error of a
\* cancelled context or a closed connection, and the CloseError the
\* WebSocket library returns once the peer has closed.
Errors == {"none", "EOF", "canceled", "peerClosed"}

VARIABLES
  sent,        \* bytes the peer has sent, in order
  ends,        \* ends[i]: offset in sent at which peer message i ends
  peerClosed,  \* the peer has sent its close frame after its messages
  fetched,     \* messages returned by ws.Reader so far
  reader,      \* c.reader != nil
  rpos,        \* offset in sent up to which c.reader has been read
  got,         \* bytes returned by Read, in order
  readRet,     \* result of the last Read
  out,         \* binary messages sent by Write, in order
  writeRet,    \* error of the last Write
  ctxDone,     \* c.ctx is cancelled
  wsClosed     \* ws.Close has been called

vars == <<sent, ends, peerClosed, fetched, reader, rpos, got, readRet,
          out, writeRet, ctxDone, wsClosed>>

\* Offset in sent at which message i starts (message 0 is the empty prefix).
MsgEnd(i) == IF i = 0 THEN 0 ELSE ends[i]

\* Bytes left in the message c.reader holds.
Remaining == MsgEnd(fetched) - rpos

\* A Read after an error is never made: the SSH transport's read loop
\* stops at the first error it gets from the connection.
ReadLoopRunning == readRet.err = "none"

TypeOK ==
  /\ sent \in Seq(Byte)
  /\ ends \in Seq(Nat)
  /\ peerClosed \in BOOLEAN
  /\ fetched \in Nat
  /\ reader \in BOOLEAN
  /\ rpos \in Nat
  /\ got \in Seq(Byte)
  /\ readRet \in [n : Nat, err : Errors]
  /\ out \in Seq(Payloads)
  /\ writeRet \in Errors
  /\ ctxDone \in BOOLEAN
  /\ wsClosed \in BOOLEAN

Init ==
  /\ sent = <<>>
  /\ ends = <<>>
  /\ peerClosed = FALSE
  /\ fetched = 0
  /\ reader = FALSE
  /\ rpos = 0
  /\ got = <<>>
  /\ readRet = [n |-> 0, err |-> "none"]
  /\ out = <<>>
  /\ writeRet = "none"
  /\ ctxDone = FALSE
  /\ wsClosed = FALSE

-----------------------------------------------------------------------------
(* The peer.                                                               *)

\* Orchard forwards a chunk of the VM's SSH output as one binary message.
PeerSend(m) ==
  /\ ~peerClosed
  /\ Len(ends) < MaxMsgs
  /\ sent' = sent \o m
  /\ ends' = Append(ends, Len(sent) + Len(m))
  /\ UNCHANGED <<peerClosed, fetched, reader, rpos, got, readRet, out,
                 writeRet, ctxDone, wsClosed>>

\* Orchard closes the WebSocket.
PeerClose ==
  /\ ~peerClosed
  /\ peerClosed' = TRUE
  /\ UNCHANGED <<sent, ends, fetched, reader, rpos, got, readRet, out,
                 writeRet, ctxDone, wsClosed>>

-----------------------------------------------------------------------------
(* Read(b) with len(b) = n, under c.mu.                                    *)

\* The held message reader returns k bytes of its message with a nil error.
Deliver(n) ==
  \E k \in 1..n :
    /\ k <= Remaining
    /\ got' = got \o SubSeq(sent, rpos + 1, rpos + k)
    /\ rpos' = rpos + k
    /\ readRet' = [n |-> k, err |-> "none"]

\* Mutant: the reader's io.EOF is returned together with the last bytes of
\* the message, as `return c.reader.Read(b)` does for readers that report
\* EOF with the final chunk.
ReadPartialEOFWithData(n) ==
  /\ ReadLoopRunning
  /\ reader
  /\ ~wsClosed
  /\ Remaining > 0
  /\ \E k \in 1..n :
       /\ k <= Remaining
       /\ got' = got \o SubSeq(sent, rpos + 1, rpos + k)
       /\ rpos' = rpos + k
       /\ readRet' = [n |-> k, err |-> IF k = Remaining THEN "EOF" ELSE "none"]
  /\ UNCHANGED <<sent, ends, peerClosed, fetched, reader, out, writeRet,
                 ctxDone, wsClosed>>

\* c.reader != nil and it still has bytes: return what it reads.
ReadPartial(n) ==
  /\ ReadLoopRunning
  /\ reader
  /\ ~wsClosed
  /\ Remaining > 0
  /\ Deliver(n)
  /\ UNCHANGED <<sent, ends, peerClosed, fetched, reader, out, writeRet,
                 ctxDone, wsClosed>>

\* The message reader fails because c.ctx is cancelled or the connection
\* is closed: `return n, err` with n = 0, the reader kept.
ReadPartialCanceled ==
  /\ ReadLoopRunning
  /\ reader
  /\ ctxDone \/ wsClosed
  /\ readRet' = [n |-> 0, err |-> "canceled"]
  /\ UNCHANGED <<sent, ends, peerClosed, fetched, reader, rpos, got, out,
                 writeRet, ctxDone, wsClosed>>

\* Mutant: an exhausted c.reader is never dropped (no fall-through on
\* io.EOF): Read keeps returning (0, nil) and the next message is never read.
ReadNextNoFallThrough(n) ==
  /\ ReadLoopRunning
  /\ ~reader
  /\ ~wsClosed
  /\ fetched < Len(ends)
  /\ fetched' = fetched + 1
  /\ reader' = TRUE
  /\ \E k \in 1..n :
       /\ k <= MsgEnd(fetched + 1) - MsgEnd(fetched)
       /\ got' = got \o SubSeq(sent, MsgEnd(fetched) + 1, MsgEnd(fetched) + k)
       /\ rpos' = MsgEnd(fetched) + k
       /\ readRet' = [n |-> k, err |-> "none"]
  /\ UNCHANGED <<sent, ends, peerClosed, out, writeRet, ctxDone, wsClosed>>

\* Mutant: the message reader from ws.Reader is read once but not kept in
\* c.reader, so the rest of a message longer than the buffer is lost.
ReadNextForgetsReader(n) ==
  /\ ReadLoopRunning
  /\ ~reader \/ Remaining = 0
  /\ ~wsClosed
  /\ fetched < Len(ends)
  /\ fetched' = fetched + 1
  /\ reader' = FALSE
  /\ \/ /\ MsgEnd(fetched + 1) > MsgEnd(fetched)
        /\ \E k \in 1..n :
             /\ k <= MsgEnd(fetched + 1) - MsgEnd(fetched)
             /\ got' = got \o SubSeq(sent, MsgEnd(fetched) + 1,
                                     MsgEnd(fetched) + k)
             /\ rpos' = MsgEnd(fetched + 1)
             /\ readRet' = [n |-> k, err |-> "none"]
     \/ /\ MsgEnd(fetched + 1) = MsgEnd(fetched)
        /\ rpos' = MsgEnd(fetched)
        /\ got' = got
        /\ readRet' = [n |-> 0, err |-> "EOF"]
  /\ UNCHANGED <<sent, ends, peerClosed, out, writeRet, ctxDone, wsClosed>>

\* Either no reader is held, or the held one returns io.EOF (it is dropped
\* and Read falls through): ws.Reader(c.ctx) hands out the next message,
\* c.reader is set to it and Read returns c.reader.Read(b) as it is.
ReadNext(n) ==
  /\ ReadLoopRunning
  /\ ~reader \/ Remaining = 0
  /\ ~wsClosed
  /\ fetched < Len(ends)
  /\ fetched' = fetched + 1
  /\ reader' = TRUE
  /\ \/ /\ MsgEnd(fetched + 1) > MsgEnd(fetched)
        /\ \E k \in 1..n :
             /\ k <= MsgEnd(fetched + 1) - MsgEnd(fetched)
             /\ got' = got \o SubSeq(sent, MsgEnd(fetched) + 1,
                                     MsgEnd(fetched) + k)
             /\ rpos' = MsgEnd(fetched) + k
             /\ readRet' = [n |-> k, err |-> "none"]
     \/ /\ MsgEnd(fetched + 1) = MsgEnd(fetched)
        /\ rpos' = MsgEnd(fetched)
        /\ got' = got
        /\ readRet' = [n |-> 0, err |-> "EOF"]
  /\ UNCHANGED <<sent, ends, peerClosed, out, writeRet, ctxDone, wsClosed>>

\* ws.Reader(c.ctx) fails: the context is cancelled, the connection is
\* closed, or the peer's close frame is next.  The exhausted reader, if
\* one was held, has been dropped.
ReadNextFails ==
  /\ ReadLoopRunning
  /\ ~reader \/ Remaining = 0
  /\ \/ /\ ctxDone \/ wsClosed
        /\ readRet' = [n |-> 0, err |-> "canceled"]
     \/ /\ ~wsClosed
        /\ fetched = Len(ends)
        /\ peerClosed
        /\ readRet' = [n |-> 0, err |-> "peerClosed"]
  /\ reader' = FALSE
  /\ UNCHANGED <<sent, ends, peerClosed, fetched, rpos, got, out, writeRet,
                 ctxDone, wsClosed>>

Read(n) ==
  \/ ReadPartial(n)
  \/ ReadNext(n)

\* One call of Read by the SSH transport's read loop, whatever it returns.
ReadStep ==
  \/ \E n \in BufSizes : Read(n)
  \/ ReadPartialCanceled
  \/ ReadNextFails

-----------------------------------------------------------------------------
(* Write, Close, and the cancellation of the context.                      *)

\* ws.Write sends b as one binary message, or fails once c.ctx is
\* cancelled or the connection is closed.
Write(b) ==
  /\ Len(out) < MaxWrites
  /\ writeRet = "none"
  /\ \/ /\ ~wsClosed
        /\ out' = Append(out, b)
        /\ writeRet' = "none"
     \/ /\ ctxDone \/ wsClosed
        /\ writeRet' = "canceled"
        /\ out' = out
  /\ UNCHANGED <<sent, ends, peerClosed, fetched, reader, rpos, got, readRet,
                 ctxDone, wsClosed>>

\* Close: c.cancel(), then ws.Close(StatusNormalClosure, "closing").
Close ==
  /\ ~wsClosed
  /\ ctxDone' = TRUE
  /\ wsClosed' = TRUE
  /\ UNCHANGED <<sent, ends, peerClosed, fetched, reader, rpos, got, readRet,
                 out, writeRet>>

\* The context given to dialWebSocket, of which c.ctx is a child, ends.
ParentCancel ==
  /\ ~ctxDone
  /\ ctxDone' = TRUE
  /\ UNCHANGED <<sent, ends, peerClosed, fetched, reader, rpos, got, readRet,
                 out, writeRet, wsClosed>>

Next ==
  \/ \E m \in Messages : PeerSend(m)
  \/ PeerClose
  \/ ReadStep
  \/ \E b \in Payloads : Write(b)
  \/ Close
  \/ ParentCancel

\* The SSH transport's read loop calls Read again as long as it got no
\* error; the peer, the caller's Close and the context are environment.
Fairness == WF_vars(ReadStep)

Spec == Init /\ [][Next]_vars

FairSpec == Spec /\ Fairness

-----------------------------------------------------------------------------
(* Properties.                                                             *)

\* No loss, duplication or reordering across message boundaries: the bytes
\* Read has returned are exactly the first bytes the peer sent, however
\* the caller's buffer sizes cut the messages (Read's c.reader carry-over).
StreamIntegrity == got = SubSeq(sent, 1, Len(got))

\* Read makes progress: unless Read has returned an error, every byte the
\* peer sent is eventually returned (an exhausted c.reader is dropped and
\* the next message fetched instead of the read loop stalling on it).
AllSentDelivered == <>[](~ReadLoopRunning \/ got = sent)

\* wsNetConn implements the byte stream a net.Conn promises: the bytes
\* the peer sent, in order, in reads no larger than the buffer, and an
\* error only after Close or cancellation, or at the end of the stream.
Stream == INSTANCE ByteStream
            WITH closed <- ctxDone \/ wsClosed,
                 peerDone <- peerClosed,
                 failed <- ~ReadLoopRunning

ByteStreamSpec == Stream!Spec

=============================================================================
