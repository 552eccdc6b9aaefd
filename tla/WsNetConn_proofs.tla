-------------------------- MODULE WsNetConn_proofs --------------------------
(***************************************************************************)
(* Proofs, for every value of the constants, that the wsNetConn model is  *)
(* well typed and that Read never loses, duplicates or reorders a byte    *)
(* (StreamIntegrity), whatever the peer's message boundaries and the      *)
(* SSH client's buffer sizes.                                              *)
(***************************************************************************)
EXTENDS WsNetConn, TLAPS

(***************************************************************************)
(* The inductive invariant.  StreamIntegrity alone is not inductive: a    *)
(* step of ReadNext appends sent[MsgEnd(fetched)+1 ..] to got, which is   *)
(* right only if got ends exactly where the message handed out before    *)
(* ended.  So the invariant ties the read offset rpos to the message      *)
(* boundaries: got is the prefix of sent up to rpos, rpos lies within the  *)
(* message c.reader holds (and is at its end when no reader is held), and *)
(* the boundaries are ordered and within sent.                            *)
(***************************************************************************)
ReadInv ==
  /\ TypeOK
  /\ Len(got) = rpos
  /\ \A i \in 1..rpos : got[i] = sent[i]
  /\ fetched <= Len(ends)
  /\ \A i \in 1..Len(ends) : MsgEnd(i - 1) <= ends[i] /\ ends[i] <= Len(sent)
  /\ rpos <= MsgEnd(fetched)
  /\ ~reader => rpos = MsgEnd(fetched)

\* TypeOK split into its data and its Boolean conjuncts: the SMT backend
\* proves the first, Zenon the second.
TypeData ==
  /\ sent \in Seq(Byte)
  /\ ends \in Seq(Nat)
  /\ fetched \in Nat
  /\ rpos \in Nat
  /\ got \in Seq(Byte)
  /\ readRet \in [n : Nat, err : Errors]
  /\ out \in Seq(Payloads)
  /\ writeRet \in Errors

TypeBools == {peerClosed, reader, ctxDone, wsClosed} \subseteq BOOLEAN

\* The offsets part of the invariant.
Offsets ==
  /\ Len(got) = rpos
  /\ \A i \in 1..rpos : got[i] = sent[i]
  /\ fetched <= Len(ends)
  /\ \A i \in 1..Len(ends) : MsgEnd(i - 1) <= ends[i] /\ ends[i] <= Len(sent)
  /\ rpos <= MsgEnd(fetched)
  /\ ~reader => rpos = MsgEnd(fetched)

LEMMA ReadInvSplit == ReadInv <=> TypeData /\ TypeBools /\ Offsets
BY Zenon DEF ReadInv, TypeOK, TypeData, TypeBools, Offsets

\* SubSeq(s, r+1, r+k): the k bytes of s after its first r.
LEMMA SubSeqFacts ==
  ASSUME NEW S, NEW s \in Seq(S), NEW r \in Nat, NEW k \in Nat, r + k <= Len(s)
  PROVE  /\ SubSeq(s, r + 1, r + k) \in Seq(S)
         /\ Len(SubSeq(s, r + 1, r + k)) = k
         /\ \A i \in 1..k : SubSeq(s, r + 1, r + k)[i] = s[r + i]
OBVIOUS

\* Appending to a prefix of s the bytes of s that follow it gives a longer
\* prefix of s.
LEMMA ConcatPrefix ==
  ASSUME NEW S, NEW s \in Seq(S), NEW g \in Seq(S), NEW r \in Nat,
         NEW k \in Nat, Len(g) = r, r + k <= Len(s),
         \A i \in 1..r : g[i] = s[i]
  PROVE  /\ g \o SubSeq(s, r + 1, r + k) \in Seq(S)
         /\ Len(g \o SubSeq(s, r + 1, r + k)) = r + k
         /\ \A i \in 1..r + k : (g \o SubSeq(s, r + 1, r + k))[i] = s[i]
<1>1. /\ SubSeq(s, r + 1, r + k) \in Seq(S)
      /\ Len(SubSeq(s, r + 1, r + k)) = k
      /\ \A i \in 1..k : SubSeq(s, r + 1, r + k)[i] = s[r + i]
  BY SubSeqFacts
<1>. QED
  BY <1>1

\* Appending to s keeps its first bytes.
LEMMA PrefixOfConcat ==
  ASSUME NEW S, NEW s \in Seq(S), NEW t \in Seq(S), NEW r \in Nat, r <= Len(s)
  PROVE  \A i \in 1..r : (s \o t)[i] = s[i]
OBVIOUS

\* A sequence that agrees with s on its length is the prefix of s.
LEMMA PrefixIsSubSeq ==
  ASSUME NEW S, NEW s \in Seq(S), NEW g \in Seq(S), Len(g) <= Len(s),
         \A i \in 1..Len(g) : g[i] = s[i]
  PROVE  g = SubSeq(s, 1, Len(g))
OBVIOUS

\* Message boundaries are naturals no larger than the bytes sent.
LEMMA MsgEndBounds ==
  ASSUME TypeData, Offsets, NEW i \in 0..Len(ends)
  PROVE  MsgEnd(i) \in Nat /\ MsgEnd(i) <= Len(sent)
           /\ (i > 0 => MsgEnd(i - 1) <= MsgEnd(i))
BY DEF TypeData, Offsets, MsgEnd

\* The initial state satisfies the invariant.
LEMMA InitReadInv == Init => ReadInv
<1>. SUFFICES ASSUME Init PROVE TypeData /\ TypeBools /\ Offsets
  BY ReadInvSplit
<1>1. TypeBools
  BY Zenon DEF Init, TypeBools
<1>. QED
  BY <1>1 DEF Init, TypeData, Errors, Offsets, MsgEnd

\* A step of the peer keeps the bytes read a prefix of what it sent.
LEMMA PeerSendReadInv ==
  ASSUME TypeData, TypeBools, Offsets, NEW m \in Messages, PeerSend(m)
  PROVE  TypeData' /\ TypeBools' /\ Offsets'
<1>1. m \in Seq(Byte)
  BY MessagesAssumption
<1>2. rpos <= Len(sent) /\ MsgEnd(fetched) <= Len(sent)
  BY MsgEndBounds DEF TypeData, Offsets
<1>3. TypeBools'
  BY Zenon DEF PeerSend, TypeBools
<1>4. TypeData'
  BY <1>1 DEF PeerSend, TypeData
<1>5. \A i \in 1..rpos : got'[i] = sent'[i]
  BY <1>1, <1>2, PrefixOfConcat DEF PeerSend, TypeData, Offsets
<1>6. /\ Len(ends') = Len(ends) + 1
      /\ \A i \in 1..Len(ends) : ends'[i] = ends[i]
      /\ ends'[Len(ends) + 1] = Len(sent')
      /\ Len(sent') >= Len(sent)
  BY <1>1 DEF PeerSend, TypeData
<1>7. \A i \in 0..Len(ends) : MsgEnd(i)' = MsgEnd(i)
  BY <1>6 DEF MsgEnd, TypeData
<1>8. \A i \in 1..Len(ends') : MsgEnd(i - 1)' <= ends'[i] /\ ends'[i] <= Len(sent')
  <2>1. Len(sent) \in Nat /\ Len(sent') \in Nat
    BY <1>4 DEF TypeData
  <2>. SUFFICES ASSUME NEW i \in 1..Len(ends')
                PROVE  MsgEnd(i - 1)' <= ends'[i] /\ ends'[i] <= Len(sent')
    OBVIOUS
  <2>2. i - 1 \in 0..Len(ends)
    BY <1>6 DEF TypeData
  <2>3. MsgEnd(i - 1)' = MsgEnd(i - 1) /\ MsgEnd(i - 1) \in Nat
    BY <1>7, <2>2, MsgEndBounds
  <2>4. CASE i \in 1..Len(ends)
    <3>1. MsgEnd(i - 1) <= ends[i] /\ ends[i] <= Len(sent)
      BY <2>4 DEF Offsets
    <3>2. ends[i] \in Nat /\ ends'[i] = ends[i]
      BY <1>6, <2>4 DEF TypeData
    <3>. QED
      BY <1>6, <2>1, <2>3, <3>1, <3>2
  <2>5. CASE i = Len(ends) + 1
    <3>1. MsgEnd(i - 1) <= Len(sent)
      BY <2>2, MsgEndBounds
    <3>. QED
      BY <1>6, <2>1, <2>3, <2>5, <3>1
  <2>. QED
    BY <1>6, <2>4, <2>5 DEF TypeData
<1>9. /\ fetched' <= Len(ends')
      /\ rpos' <= MsgEnd(fetched)'
      /\ ~reader' => rpos' = MsgEnd(fetched)'
  <2>1. fetched \in 0..Len(ends)
    BY DEF TypeData, Offsets
  <2>2. MsgEnd(fetched)' = MsgEnd(fetched)
    <3>1. fetched' = fetched
      BY DEF PeerSend
    <3>. QED
      BY <1>7, <2>1, <3>1
  <2>3. MsgEnd(fetched) \in Nat
    BY <2>1, MsgEndBounds
  <2>. QED
    BY <1>6, <2>2, <2>3 DEF PeerSend, TypeData, Offsets
<1>10. Len(got') = rpos'
  BY DEF PeerSend, Offsets
<1>. QED
  BY <1>3, <1>4, <1>5, <1>8, <1>9, <1>10 DEF PeerSend, Offsets

\* A Read that returns bytes of the held message continues the prefix.
LEMMA ReadPartialReadInv ==
  ASSUME TypeData, TypeBools, Offsets, NEW n \in BufSizes, ReadPartial(n)
  PROVE  TypeData' /\ TypeBools' /\ Offsets'
<1>1. PICK k \in 1..n : /\ k <= Remaining
                        /\ got' = got \o SubSeq(sent, rpos + 1, rpos + k)
                        /\ rpos' = rpos + k
                        /\ readRet' = [n |-> k, err |-> "none"]
  BY DEF ReadPartial, Deliver
<1>2. n \in Nat
  BY BufSizesAssumption
<1>3. rpos + k <= MsgEnd(fetched) /\ MsgEnd(fetched) <= Len(sent)
      /\ MsgEnd(fetched) \in Nat
  BY <1>1, <1>2, MsgEndBounds DEF TypeData, Offsets, Remaining
<1>4. /\ got' \in Seq(Byte)
      /\ Len(got') = rpos'
      /\ \A i \in 1..rpos' : got'[i] = sent[i]
  <2>1. /\ k \in Nat /\ rpos \in Nat /\ rpos + k <= Len(sent)
        /\ sent \in Seq(Byte) /\ got \in Seq(Byte) /\ Len(got) = rpos
        /\ \A i \in 1..rpos : got[i] = sent[i]
    BY <1>2, <1>3 DEF TypeData, Offsets
  <2>2. /\ got \o SubSeq(sent, rpos + 1, rpos + k) \in Seq(Byte)
        /\ Len(got \o SubSeq(sent, rpos + 1, rpos + k)) = rpos + k
        /\ \A i \in 1..rpos + k :
             (got \o SubSeq(sent, rpos + 1, rpos + k))[i] = sent[i]
    BY <2>1, ConcatPrefix, SMTT(30)
  <2>. QED
    BY <1>1, <2>2
<1>5. TypeBools'
  BY Zenon DEF ReadPartial, TypeBools
<1>6. TypeData'
  BY <1>1, <1>2, <1>4 DEF ReadPartial, TypeData, Errors
<1>. QED
  BY <1>1, <1>3, <1>4, <1>5, <1>6 DEF ReadPartial, TypeData, Offsets, MsgEnd

\* A Read that fetches the next message starts at that message's first
\* byte, which follows the bytes read so far.
LEMMA ReadNextReadInv ==
  ASSUME TypeData, TypeBools, Offsets, NEW n \in BufSizes, ReadNext(n)
  PROVE  TypeData' /\ TypeBools' /\ Offsets'
<1>1. /\ MsgEnd(fetched) \in Nat
      /\ MsgEnd(fetched + 1) \in Nat
      /\ MsgEnd(fetched) <= MsgEnd(fetched + 1)
      /\ MsgEnd(fetched + 1) <= Len(sent)
  <2>1. fetched + 1 \in 0..Len(ends) /\ fetched \in 0..Len(ends)
    BY DEF ReadNext, TypeData, Offsets
  <2>. QED
    BY <2>1, MsgEndBounds
<1>2. rpos = MsgEnd(fetched)
  <2>1. ~reader \/ MsgEnd(fetched) - rpos = 0
    BY DEF ReadNext, Remaining
  <2>. QED
    BY <1>1, <2>1 DEF TypeData, Offsets
<1>3. n \in Nat
  BY BufSizesAssumption
<1>4. /\ fetched' = fetched + 1 /\ reader' = TRUE
      /\ sent' = sent /\ ends' = ends
      /\ fetched' <= Len(ends')
  BY DEF ReadNext, TypeData
<1>5. MsgEnd(fetched)' = MsgEnd(fetched + 1)
  BY <1>4 DEF MsgEnd, TypeData
<1>6. TypeBools'
  BY Zenon DEF ReadNext, TypeBools
<1>7. \A i \in 1..Len(ends') : MsgEnd(i - 1)' <= ends'[i] /\ ends'[i] <= Len(sent')
  BY <1>4 DEF Offsets, MsgEnd
<1>8. ~reader' => rpos' = MsgEnd(fetched)'
  BY <1>4
<1>9. CASE MsgEnd(fetched + 1) > MsgEnd(fetched)
  <2>0. MsgEnd(fetched + 1) # MsgEnd(fetched)
    BY <1>1, <1>9
  <2>1. PICK k \in 1..n :
          /\ k <= MsgEnd(fetched + 1) - MsgEnd(fetched)
          /\ got' = got \o SubSeq(sent, MsgEnd(fetched) + 1, MsgEnd(fetched) + k)
          /\ rpos' = MsgEnd(fetched) + k
          /\ readRet' = [n |-> k, err |-> "none"]
    BY <2>0, Zenon DEF ReadNext
  <2>2. /\ k \in Nat /\ rpos \in Nat /\ rpos + k <= Len(sent)
        /\ sent \in Seq(Byte) /\ got \in Seq(Byte) /\ Len(got) = rpos
        /\ \A i \in 1..rpos : got[i] = sent[i]
    BY <1>1, <1>2, <1>3, <2>1 DEF TypeData, Offsets
  <2>3. /\ got \o SubSeq(sent, rpos + 1, rpos + k) \in Seq(Byte)
        /\ Len(got \o SubSeq(sent, rpos + 1, rpos + k)) = rpos + k
        /\ \A i \in 1..rpos + k :
             (got \o SubSeq(sent, rpos + 1, rpos + k))[i] = sent[i]
    BY <2>2, ConcatPrefix, SMTT(30)
  <2>4. /\ got' \in Seq(Byte)
        /\ Len(got') = rpos'
        /\ \A i \in 1..rpos' : got'[i] = sent'[i]
    <3>1. got' = got \o SubSeq(sent, rpos + 1, rpos + k) /\ rpos' = rpos + k
      BY <1>2, <2>1
    <3>. QED
      BY <1>4, <2>3, <3>1, SMTT(30)
  <2>5. rpos' \in Nat /\ rpos' <= MsgEnd(fetched)'
    BY <1>1, <1>3, <1>5, <2>1
  <2>6. readRet' \in [n : Nat, err : Errors]
    BY <1>3, <2>1 DEF Errors
  <2>7. TypeData'
    BY <1>4, <2>4, <2>5, <2>6 DEF ReadNext, TypeData
  <2>. QED
    BY <1>4, <1>6, <1>7, <1>8, <2>4, <2>5, <2>7 DEF Offsets
<1>10. CASE MsgEnd(fetched + 1) = MsgEnd(fetched)
  <2>1. rpos' = MsgEnd(fetched) /\ got' = got
        /\ readRet' = [n |-> 0, err |-> "EOF"]
    BY <1>1, <1>10 DEF ReadNext
  <2>2. /\ Len(got') = rpos'
        /\ \A i \in 1..rpos' : got'[i] = sent'[i]
    BY <1>2, <1>4, <2>1 DEF Offsets
  <2>4. rpos' \in Nat /\ rpos' <= MsgEnd(fetched)'
    BY <1>1, <1>5, <1>10, <2>1
  <2>3. TypeData'
    BY <1>4, <2>1, <2>2, <2>4 DEF ReadNext, TypeData, Errors
  <2>. QED
    BY <1>4, <1>6, <1>7, <1>8, <2>2, <2>3, <2>4 DEF Offsets
<1>. QED
  BY <1>1, <1>9, <1>10

\* A step that leaves sent, ends, fetched, rpos and got alone and keeps
\* readRet and writeRet in Errors keeps the invariant (Close, Write, a
\* failing Read, the peer's close, the context's cancellation).
LEMMA QuietStepReadInv ==
  ASSUME TypeData, TypeBools, Offsets,
         UNCHANGED <<sent, ends, fetched, rpos, got>>,
         readRet' \in [n : Nat, err : Errors], writeRet' \in Errors,
         out' \in Seq(Payloads), TypeBools',
         ~reader' => ~reader \/ rpos = MsgEnd(fetched)
  PROVE  TypeData' /\ TypeBools' /\ Offsets'
BY DEF TypeData, Offsets, MsgEnd

LEMMA OtherStepsReadInv ==
  ASSUME TypeData, TypeBools, Offsets,
         \/ PeerClose \/ ReadPartialCanceled \/ ReadNextFails
         \/ \E b \in Payloads : Write(b)
         \/ Close \/ ParentCancel \/ UNCHANGED vars
  PROVE  TypeData' /\ TypeBools' /\ Offsets'
<1>1. TypeBools'
  BY Zenon DEF PeerClose, ReadPartialCanceled, ReadNextFails, Write, Close,
               ParentCancel, vars, TypeBools
<1>2. CASE PeerClose \/ Close \/ ParentCancel \/ UNCHANGED vars
  BY <1>1, <1>2, QuietStepReadInv
     DEF PeerClose, Close, ParentCancel, vars, TypeData
<1>3. CASE ReadPartialCanceled
  BY <1>1, <1>3, QuietStepReadInv DEF ReadPartialCanceled, TypeData, Errors
<1>4. CASE ReadNextFails
  <2>1. fetched \in 0..Len(ends)
    BY DEF TypeData, Offsets
  <2>2. MsgEnd(fetched) \in Nat
    BY <2>1, MsgEndBounds
  <2>3. ~reader \/ MsgEnd(fetched) - rpos = 0
    BY <1>4 DEF ReadNextFails, Remaining
  <2>4. ~reader \/ rpos = MsgEnd(fetched)
    BY <2>2, <2>3 DEF TypeData
  <2>5. /\ UNCHANGED <<sent, ends, fetched, rpos, got>>
        /\ readRet' \in [n : Nat, err : Errors] /\ writeRet' \in Errors
        /\ out' \in Seq(Payloads)
    BY <1>4 DEF ReadNextFails, TypeData, Errors
  <2>. QED
    BY <1>1, <2>4, <2>5, QuietStepReadInv
<1>5. CASE \E b \in Payloads : Write(b)
  <2>1. PICK b \in Payloads : Write(b)
    BY <1>5
  <2>2. b \in Seq(Byte) /\ out \in Seq(Payloads)
    BY PayloadsAssumption DEF TypeData
  <2>3. out' \in Seq(Payloads)
    BY <2>1, <2>2 DEF Write
  <2>4. /\ UNCHANGED <<sent, ends, fetched, rpos, got, reader>>
        /\ readRet' \in [n : Nat, err : Errors] /\ writeRet' \in Errors
    BY <2>1 DEF Write, TypeData, Errors
  <2>. QED
    BY <1>1, <2>3, <2>4, QuietStepReadInv
<1>. QED
  BY <1>2, <1>3, <1>4, <1>5

\* Every step keeps the invariant.
LEMMA NextReadInv == ReadInv /\ [Next]_vars => ReadInv'
<1>. SUFFICES ASSUME TypeData, TypeBools, Offsets, [Next]_vars
              PROVE  TypeData' /\ TypeBools' /\ Offsets'
  BY Zenon DEF ReadInv, TypeOK, TypeData, TypeBools, Offsets
<1>1. CASE \E m \in Messages : PeerSend(m)
  <2>1. PICK m \in Messages : PeerSend(m)
    BY <1>1
  <2>. QED
    BY <2>1, PeerSendReadInv
<1>2. CASE \E n \in BufSizes : ReadPartial(n)
  <2>1. PICK n \in BufSizes : ReadPartial(n)
    BY <1>2
  <2>. QED
    BY <2>1, ReadPartialReadInv
<1>3. CASE \E n \in BufSizes : ReadNext(n)
  <2>1. PICK n \in BufSizes : ReadNext(n)
    BY <1>3
  <2>. QED
    BY <2>1, ReadNextReadInv
<1>4. CASE \/ PeerClose \/ ReadPartialCanceled \/ ReadNextFails
           \/ \E b \in Payloads : Write(b)
           \/ Close \/ ParentCancel \/ UNCHANGED vars
  BY <1>4, OtherStepsReadInv
<1>. QED
  BY <1>1, <1>2, <1>3, <1>4 DEF Next, ReadStep, Read

\* The invariant holds in every reachable state.
THEOREM ReadInvariant == Spec => []ReadInv
BY InitReadInv, NextReadInv, PTL DEF Spec

\* Type correctness of the wsNetConn model: every variable keeps its type
\* under every interleaving of the peer, Read, Write, Close and the
\* context's cancellation.
THEOREM TypeCorrect == Spec => []TypeOK
<1>1. ReadInv => TypeOK
  BY DEF ReadInv
<1>. QED
  BY <1>1, ReadInvariant, PTL

\* Read's carry-over of a partly read message is correct: the bytes Read
\* has returned are always exactly the first bytes the peer sent.
THEOREM StreamIntegrityThm == Spec => []StreamIntegrity
<1>1. ReadInv => StreamIntegrity
  <2>. SUFFICES ASSUME ReadInv PROVE got = SubSeq(sent, 1, Len(got))
    BY DEF StreamIntegrity
  <2>1. TypeData /\ Offsets
    BY ReadInvSplit
  <2>2. fetched \in 0..Len(ends)
    BY <2>1 DEF TypeData, Offsets
  <2>3. MsgEnd(fetched) <= Len(sent) /\ MsgEnd(fetched) \in Nat
    BY <2>1, <2>2, MsgEndBounds
  <2>4. /\ sent \in Seq(Byte) /\ got \in Seq(Byte) /\ Len(got) <= Len(sent)
        /\ \A i \in 1..Len(got) : got[i] = sent[i]
    BY <2>1, <2>3 DEF TypeData, Offsets
  <2>. QED
    BY <2>4, PrefixIsSubSeq
<1>. QED
  BY <1>1, ReadInvariant, PTL

=============================================================================
