------------------------ MODULE WsNetConn_refinement ------------------------
(***************************************************************************)
(* Proof that wsNetConn implements the byte stream of a net.Conn          *)
(* (ByteStream) under the refinement mapping of WsNetConn, for every set  *)
(* of non-empty messages, every buffer size and every bound.              *)
(*                                                                         *)
(* The hypothesis NoEmptyMessages is needed: a zero-length binary message *)
(* makes the fetched reader return (0, io.EOF) at once, and Read hands    *)
(* that io.EOF to the SSH client before the stream has ended (the run     *)
(* wsconn_emptymsg shows the behaviour).                                   *)
(***************************************************************************)
EXTENDS WsNetConn_proofs

\* The peer never sends a zero-length binary message.
NoEmptyMessages == <<>> \notin Messages

\* The message boundaries account for every byte sent: the last message
\* ends at the end of sent.
SentEnds == Len(sent) = MsgEnd(Len(ends))

\* Each message ends strictly after the previous one (no empty message).
StrictEnds == \A i \in 1..Len(ends) : MsgEnd(i - 1) < ends[i]

(***************************************************************************)
(* The inductive invariant of the refinement.  ReadInv keeps got the      *)
(* prefix of sent up to rpos; SentEnds is what makes a failed ws.Reader   *)
(* after the peer's close frame the end of the stream (got = sent); and   *)
(* StrictEnds makes every fetched message deliver at least one byte, so   *)
(* that ReadNext is a Recv of the byte stream.                            *)
(***************************************************************************)
RefInv == ReadInv /\ SentEnds /\ StrictEnds

\* A message of Messages other than <<>> has at least one byte.
LEMMA NonEmptyLen ==
  ASSUME NoEmptyMessages, NEW m \in Messages
  PROVE  m \in Seq(Byte) /\ Len(m) > 0
<1>1. m \in Seq(Byte) /\ m # <<>>
  BY MessagesAssumption DEF NoEmptyMessages
<1>. QED
  BY <1>1

LEMMA InitRefInv == Init => RefInv
<1>. SUFFICES ASSUME Init PROVE ReadInv /\ SentEnds /\ StrictEnds
  BY DEF RefInv
<1>1. ReadInv
  BY InitReadInv
<1>. QED
  BY <1>1 DEF Init, SentEnds, StrictEnds, MsgEnd

\* PeerSend appends one boundary, at the new end of sent, after the last.
LEMMA PeerSendEnds ==
  ASSUME NoEmptyMessages, ReadInv, SentEnds, StrictEnds,
         NEW m \in Messages, PeerSend(m)
  PROVE  SentEnds' /\ StrictEnds'
<1>1. m \in Seq(Byte) /\ Len(m) > 0
  BY NonEmptyLen
<1>2. TypeData /\ Offsets
  BY ReadInvSplit
<1>3. /\ sent' = sent \o m
      /\ ends' = Append(ends, Len(sent) + Len(m))
  BY DEF PeerSend
<1>4. /\ Len(ends') = Len(ends) + 1
      /\ \A i \in 1..Len(ends) : ends'[i] = ends[i]
      /\ ends'[Len(ends) + 1] = Len(sent')
      /\ Len(sent') = Len(sent) + Len(m)
  BY <1>1, <1>2, <1>3 DEF TypeData
<1>5. \A i \in 0..Len(ends) : MsgEnd(i)' = MsgEnd(i)
  BY <1>4 DEF MsgEnd
<1>6. SentEnds'
  BY <1>4 DEF SentEnds, MsgEnd
<1>7. StrictEnds'
  <2>. SUFFICES ASSUME NEW i \in 1..Len(ends') PROVE MsgEnd(i - 1)' < ends'[i]
    BY DEF StrictEnds
  <2>1. i - 1 \in 0..Len(ends)
    BY <1>2, <1>4 DEF TypeData
  <2>2. CASE i \in 1..Len(ends)
    BY <1>4, <1>5, <2>1, <2>2 DEF StrictEnds
  <2>3. CASE i = Len(ends) + 1
    BY <1>1, <1>2, <1>4, <1>5, <2>3 DEF SentEnds, TypeData
  <2>. QED
    BY <1>2, <1>4, <2>2, <2>3 DEF TypeData
<1>. QED
  BY <1>6, <1>7

\* Every step keeps the invariant of the refinement.
LEMMA NextRefInv ==
  ASSUME NoEmptyMessages, RefInv, [Next]_vars
  PROVE  RefInv'
<1>1. ReadInv'
  BY NextReadInv DEF RefInv
<1>2. CASE \E m \in Messages : PeerSend(m)
  BY <1>1, <1>2, PeerSendEnds DEF RefInv
<1>3. CASE ~\E m \in Messages : PeerSend(m)
  <2>1. UNCHANGED <<sent, ends>>
    BY <1>3 DEF Next, ReadStep, Read, ReadPartial, ReadNext, ReadPartialCanceled,
                ReadNextFails, PeerClose, Write, Close, ParentCancel, vars
  <2>. QED
    BY <1>1, <2>1 DEF RefInv, SentEnds, StrictEnds, MsgEnd
<1>. QED
  BY <1>2, <1>3

-----------------------------------------------------------------------------
(* Each step of wsNetConn is a step of the byte stream, or leaves the     *)
(* mapped state alone.                                                     *)

\* Sequence fact: s is the prefix of s \o t of its own length.
LEMMA SubSeqOfConcat ==
  ASSUME NEW S, NEW s \in Seq(S), NEW t \in Seq(S)
  PROVE  SubSeq(s \o t, 1, Len(s)) = s
OBVIOUS

\* The peer's message is the byte stream's PeerWrite.
LEMMA PeerSendRefines ==
  ASSUME NoEmptyMessages, ReadInv, NEW m \in Messages, PeerSend(m)
  PROVE  Stream!PeerWrite
<1>1. m \in Seq(Byte) /\ Len(m) > 0
  BY NonEmptyLen
<1>2. sent \in Seq(Byte)
  BY ReadInvSplit DEF TypeData
<1>3. sent' = sent \o m
  BY DEF PeerSend
<1>4. Len(sent') > Len(sent) /\ SubSeq(sent', 1, Len(sent)) = sent
  BY <1>1, <1>2, <1>3, SubSeqOfConcat
<1>. QED
  BY <1>4, Zenon DEF PeerSend, Stream!PeerWrite, ReadLoopRunning

\* A Read that returns k bytes of the held message is a Recv.
LEMMA ReadPartialRefines ==
  ASSUME ReadInv, NEW n \in BufSizes, ReadPartial(n)
  PROVE  Stream!Recv
<1>1. PICK k \in 1..n : /\ k <= Remaining
                        /\ got' = got \o SubSeq(sent, rpos + 1, rpos + k)
                        /\ rpos' = rpos + k
                        /\ readRet' = [n |-> k, err |-> "none"]
  BY DEF ReadPartial, Deliver
<1>2. TypeData /\ Offsets
  BY ReadInvSplit
<1>3. MsgEnd(fetched) <= Len(sent) /\ MsgEnd(fetched) \in Nat
  BY <1>2, MsgEndBounds DEF TypeData, Offsets
<1>4. /\ Len(got) + k <= Len(sent)
      /\ got' = got \o SubSeq(sent, Len(got) + 1, Len(got) + k)
  BY <1>1, <1>2, <1>3, BufSizesAssumption DEF TypeData, Offsets, Remaining
<1>5. /\ ~~ReadLoopRunning
      /\ UNCHANGED <<sent, ctxDone \/ wsClosed, peerClosed, ~ReadLoopRunning>>
  BY <1>1, Zenon DEF ReadPartial, ReadLoopRunning
<1>6. \E nn \in BufSizes : \E kk \in 1..nn :
        /\ Len(got) + kk <= Len(sent)
        /\ got' = got \o SubSeq(sent, Len(got) + 1, Len(got) + kk)
  BY <1>4
<1>. QED
  BY <1>5, <1>6, Zenon DEF Stream!Recv

\* A Read that fetches the next message returns at least one byte of it,
\* since no message is empty: a Recv.
LEMMA ReadNextRefines ==
  ASSUME ReadInv, StrictEnds, NEW n \in BufSizes, ReadNext(n)
  PROVE  Stream!Recv
<1>1. TypeData /\ Offsets
  BY ReadInvSplit
<1>2. /\ fetched + 1 \in 1..Len(ends)
      /\ MsgEnd(fetched) \in Nat /\ MsgEnd(fetched + 1) \in Nat
      /\ MsgEnd(fetched + 1) <= Len(sent)
  <2>1. fetched + 1 \in 0..Len(ends) /\ fetched \in 0..Len(ends)
    BY <1>1 DEF ReadNext, TypeData, Offsets
  <2>. QED
    BY <2>1, <1>1, MsgEndBounds DEF TypeData
<1>3. MsgEnd(fetched + 1) > MsgEnd(fetched)
  BY <1>1, <1>2 DEF StrictEnds, MsgEnd, TypeData
<1>4. rpos = MsgEnd(fetched)
  <2>1. ~reader \/ MsgEnd(fetched) - rpos = 0
    BY DEF ReadNext, Remaining
  <2>. QED
    BY <1>1, <1>2, <2>1 DEF TypeData, Offsets
<1>5. PICK k \in 1..n :
        /\ k <= MsgEnd(fetched + 1) - MsgEnd(fetched)
        /\ got' = got \o SubSeq(sent, MsgEnd(fetched) + 1, MsgEnd(fetched) + k)
        /\ readRet' = [n |-> k, err |-> "none"]
  <2>1. MsgEnd(fetched + 1) # MsgEnd(fetched)
    BY <1>2, <1>3
  <2>. QED
    BY <2>1, Zenon DEF ReadNext
<1>6. /\ Len(got) + k <= Len(sent)
      /\ got' = got \o SubSeq(sent, Len(got) + 1, Len(got) + k)
  BY <1>1, <1>2, <1>4, <1>5, BufSizesAssumption DEF TypeData, Offsets
<1>7. /\ ~~ReadLoopRunning
      /\ UNCHANGED <<sent, ctxDone \/ wsClosed, peerClosed, ~ReadLoopRunning>>
  BY <1>5, Zenon DEF ReadNext, ReadLoopRunning
<1>8. \E nn \in BufSizes : \E kk \in 1..nn :
        /\ Len(got) + kk <= Len(sent)
        /\ got' = got \o SubSeq(sent, Len(got) + 1, Len(got) + kk)
  BY <1>6
<1>. QED
  BY <1>7, <1>8, Zenon DEF Stream!Recv

\* The held message reader fails on a cancelled or closed connection: the
\* byte stream's Fail after a local close.
LEMMA ReadPartialCanceledRefines ==
  ASSUME ReadPartialCanceled
  PROVE  Stream!Fail
BY Zenon DEF ReadPartialCanceled, ReadLoopRunning, Stream!Fail

\* ws.Reader fails: after a local close, or on the peer's close frame once
\* every message has been fetched and read to its end, which SentEnds
\* makes the end of the stream.
LEMMA ReadNextFailsRefines ==
  ASSUME ReadInv, SentEnds, ReadNextFails
  PROVE  Stream!Fail
<1>1. /\ ReadLoopRunning
      /\ readRet'.err # "none"
      /\ UNCHANGED <<sent, got, ctxDone, wsClosed, peerClosed>>
  <2>1. ReadLoopRunning /\ UNCHANGED <<sent, got, ctxDone, wsClosed, peerClosed>>
    BY Zenon DEF ReadNextFails
  <2>2. readRet'.err # "none"
    BY DEF ReadNextFails
  <2>. QED
    BY <2>1, <2>2
<1>2. CASE ctxDone \/ wsClosed
  BY <1>1, <1>2, Zenon DEF ReadLoopRunning, Stream!Fail
<1>3. CASE ~(ctxDone \/ wsClosed)
  <2>1. fetched = Len(ends) /\ peerClosed /\ (~reader \/ Remaining = 0)
    BY <1>3, Zenon DEF ReadNextFails
  <2>2. TypeData /\ Offsets
    BY ReadInvSplit
  <2>3. MsgEnd(fetched) \in Nat
    BY <2>1, <2>2, MsgEndBounds DEF TypeData
  <2>4. rpos = Len(sent)
    BY <2>1, <2>2, <2>3 DEF TypeData, Offsets, Remaining, SentEnds
  <2>5. got = sent
    BY <2>2, <2>4 DEF TypeData, Offsets
  <2>. QED
    BY <1>1, <2>1, <2>5, Zenon DEF ReadLoopRunning, Stream!Fail
<1>. QED
  BY <1>2, <1>3

\* Close and the parent context's cancellation set closed, or find it set.
LEMMA CancelRefines ==
  ASSUME Close \/ ParentCancel
  PROVE  Stream!CloseLocal \/ UNCHANGED Stream!absVars
<1>1. /\ ctxDone' = TRUE
      /\ UNCHANGED <<sent, got, peerClosed, readRet>>
  BY Zenon DEF Close, ParentCancel
<1>2. CASE ctxDone \/ wsClosed
  BY <1>1, <1>2, Zenon DEF Stream!absVars, ReadLoopRunning
<1>3. CASE ~(ctxDone \/ wsClosed)
  BY <1>1, <1>3, Zenon DEF Stream!CloseLocal, ReadLoopRunning
<1>. QED
  BY <1>2, <1>3

\* Every step of wsNetConn maps to a step of the byte stream or a stutter.
LEMMA StepRefines ==
  ASSUME NoEmptyMessages, RefInv, [Next]_vars
  PROVE  [Stream!Next]_Stream!absVars
<1>1. ReadInv /\ SentEnds /\ StrictEnds
  BY DEF RefInv
<1>2. CASE \E m \in Messages : PeerSend(m)
  BY <1>1, <1>2, PeerSendRefines DEF Stream!Next
<1>3. CASE \E n \in BufSizes : ReadPartial(n)
  BY <1>1, <1>3, ReadPartialRefines DEF Stream!Next
<1>4. CASE \E n \in BufSizes : ReadNext(n)
  BY <1>1, <1>4, ReadNextRefines DEF Stream!Next
<1>5. CASE ReadPartialCanceled
  BY <1>5, ReadPartialCanceledRefines DEF Stream!Next
<1>6. CASE ReadNextFails
  BY <1>1, <1>6, ReadNextFailsRefines DEF Stream!Next
<1>7. CASE PeerClose
  BY <1>7, Zenon DEF PeerClose, Stream!Next, Stream!PeerHangUp, ReadLoopRunning
<1>8. CASE Close \/ ParentCancel
  BY <1>8, CancelRefines DEF Stream!Next
<1>9. CASE (\E b \in Payloads : Write(b)) \/ UNCHANGED vars
  <2>1. UNCHANGED <<sent, got, ctxDone, wsClosed, peerClosed, readRet>>
    BY <1>9, Zenon DEF Write, vars
  <2>. QED
    BY <2>1, Zenon DEF Stream!absVars, ReadLoopRunning
<1>. QED
  BY <1>2, <1>3, <1>4, <1>5, <1>6, <1>7, <1>8, <1>9 DEF Next, ReadStep, Read

-----------------------------------------------------------------------------
(* The theorem.                                                            *)

\* For a peer that sends no zero-length message, wsNetConn implements the
\* net.Conn byte stream: Read returns the bytes the peer sent, in order,
\* at most a buffer at a time, and fails only after Close or the
\* context's cancellation, or once the peer has closed and every byte it
\* sent has been read.
THEOREM ByteStreamRefinement ==
  ASSUME NoEmptyMessages
  PROVE  Spec => ByteStreamSpec
<1>1. Spec => []RefInv
  <2>1. RefInv /\ [Next]_vars => RefInv'
    BY NextRefInv
  <2>. QED
    BY <2>1, InitRefInv, PTL DEF Spec
<1>2. Init => Stream!Init
  <2>. SUFFICES ASSUME Init PROVE Stream!Init
    OBVIOUS
  <2>1. ReadLoopRunning
    BY DEF Init, ReadLoopRunning
  <2>. QED
    BY <2>1, Zenon DEF Init, Stream!Init
<1>3. RefInv /\ [Next]_vars => [Stream!Next]_Stream!absVars
  BY StepRefines
<1>. QED
  BY <1>1, <1>2, <1>3, PTL DEF Spec, ByteStreamSpec, Stream!Spec

=============================================================================
