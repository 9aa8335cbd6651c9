-------------------------- MODULE SendQueueProofs --------------------------
(***************************************************************************)
(* SendQueue for any number of threads, messages and any limit: its types, *)
(* its inductive invariant SendInv, and that it implements Outbox.         *)
(***************************************************************************)
EXTENDS SendQueue, SequenceTheorems, TLAPS

-----------------------------------------------------------------------------
(* Sequences.                                                              *)

\* What is accepted joins the undelivered messages at their end.
LEMMA AppendConcat ==
  ASSUME NEW s \in Seq(Message), NEW t \in Seq(Message), NEW m \in Message
  PROVE  Append(s \o t, m) = s \o Append(t, m)
OBVIOUS

\* What is delivered leaves them at their head.
LEMMA MoveHead ==
  ASSUME NEW s \in Seq(Message), NEW t \in Seq(Message), t # <<>>
  PROVE  s \o t = Append(s, Head(t)) \o Tail(t)
OBVIOUS

\* The head of the undelivered messages is the one Outbox delivers next.
LEMMA NextDelivered ==
  ASSUME NEW s \in Seq(Message), NEW t \in Seq(Message), t # <<>>
  PROVE  (s \o t)[Len(s) + 1] = Head(t)
OBVIOUS

\* The tail of a longer queue after an append.
LEMMA AppendTail ==
  ASSUME NEW t \in Seq(Message), NEW m \in Message, t # <<>>
  PROVE  /\ Tail(Append(t, m)) = Append(Tail(t), m)
         /\ Head(Append(t, m)) = Head(t)
OBVIOUS

-----------------------------------------------------------------------------
(* Types.                                                                  *)

\* The initial state is well typed.
LEMMA InitSendType == Init => TypeOK
<1> SUFFICES ASSUME Init PROVE TypeOK
  OBVIOUS
<1> USE SendQueueAssumption DEF Init, TypeOK
<1>1. sendQue \in Seq(Message) /\ Len(sendQue) = 0
  OBVIOUS
<1>2. accepted \in Seq(Message) /\ delivered \in Seq(Message)
  OBVIOUS
<1>3. sent \in [Senders -> 0 .. MaxSends]
  OBVIOUS
<1>4. Len(sendQue) <= MaxSendQue + 1
  BY <1>1
<1>5. writes \subseteq WriteOp /\ refused \subseteq Message
  OBVIOUS
<1> QED BY <1>1, <1>2, <1>3, <1>4, <1>5

\* The message a thread sends next.
LEMMA NewMessage ==
  ASSUME TypeOK, NEW t \in Senders, Send(t)
  PROVE  /\ [from |-> t, n |-> sent[t] + 1] \in Message
         /\ sent' \in [Senders -> 0 .. MaxSends]
<1>1. sent \in [Senders -> 0 .. MaxSends] /\ sent[t] < MaxSends
  BY DEF TypeOK, Send
<1>2. sent[t] + 1 \in 1 .. MaxSends
  BY <1>1, SendQueueAssumption
<1>3. sent' = [sent EXCEPT ![t] = sent[t] + 1]
  BY DEF Send
<1> QED BY <1>1, <1>2, <1>3, SendQueueAssumption DEF Message

\* A write that ends keeps its message.
LEMMA EndedKeepsMessage ==
  ASSUME NEW w \in WriteOp, NEW how \in {"ok", "error"}
  PROVE  /\ Ended(w, how) \in WriteOp
         /\ Ended(w, how).msg = w.msg /\ Ended(w, how).state = how
BY DEF Ended, WriteOp

\* So is every state a step of the code leads to.
LEMMA NextSendType == TypeOK /\ WriteOwnsHead /\ [Next]_vars => TypeOK'
<1> SUFFICES ASSUME TypeOK, WriteOwnsHead, [Next]_vars PROVE TypeOK'
  OBVIOUS
<1> USE SendQueueAssumption DEF TypeOK, WriteOp
<1>1. ASSUME NEW t \in Senders, Send(t) PROVE TypeOK'
  <2> DEFINE m == [from |-> t, n |-> sent[t] + 1]
  <2>1. m \in Message /\ sent' \in [Senders -> 0 .. MaxSends]
    BY <1>1, NewMessage
  <2>2. AsyncWrite(m) \in WriteOp
    BY <2>1 DEF AsyncWrite
  <2>3. CASE Len(sendQue) > MaxSendQue
    BY <1>1, <2>1, <2>2, <2>3 DEF Send
  <2>4. CASE ~(Len(sendQue) > MaxSendQue)
    <3>1. sendQue' = Append(sendQue, m) /\ accepted' = Append(accepted, m)
      BY <1>1, <2>4 DEF Send
    <3>2. sendQue' \in Seq(Message) /\ Len(sendQue') = Len(sendQue) + 1
      BY <2>1, <3>1
    <3>3. accepted' \in Seq(Message) /\ writes' \subseteq WriteOp
      BY <1>1, <2>1, <2>2, <2>4, <3>1 DEF Send
    <3> QED BY <1>1, <2>1, <2>4, <3>2, <3>3 DEF Send
  <2> QED BY <2>3, <2>4
<1>2. ASSUME NEW w \in writes, WriteEnds(w) \/ WriteFails(w) PROVE TypeOK'
  <2>1. w \in WriteOp /\ w.msg \in Message
    OBVIOUS
  <2>2. Ended(w, "ok") \in WriteOp /\ Ended(w, "error") \in WriteOp
    BY <2>1, EndedKeepsMessage
  <2>3. writes' \subseteq WriteOp
    BY <1>2, <2>2 DEF WriteEnds, WriteFails
  <2>4. Append(delivered, w.msg) \in Seq(Message)
    BY <2>1
  <2>5. delivered' \in Seq(Message)
    BY <1>2, <2>4 DEF WriteEnds, WriteFails
  <2> QED BY <1>2, <2>3, <2>5 DEF WriteEnds, WriteFails
<1>3. ASSUME NEW w \in writes, HandleWrite(w) PROVE TypeOK'
  <2>1. sendQue # <<>>
    BY DEF WriteOwnsHead, BufferAlive
  <2>2. Tail(sendQue) \in Seq(Message) /\ Len(Tail(sendQue)) = Len(sendQue) - 1
    BY <2>1
  <2>3. Tail(sendQue) # <<>> => Head(Tail(sendQue)) \in Message
    BY <2>2
  <2>4. writes' \subseteq WriteOp
    BY <1>3, <2>3 DEF HandleWrite, AsyncWrite
  <2> QED BY <1>3, <2>2, <2>4 DEF HandleWrite
<1>4. ASSUME NEW w \in writes, HandleWriteError(w) PROVE TypeOK'
  BY <1>4 DEF HandleWriteError
<1>5. CASE Close \/ PeerChanges \/ UNCHANGED vars
  BY <1>5 DEF Close, PeerChanges, vars
<1> QED BY <1>1, <1>2, <1>3, <1>4, <1>5 DEF Next, IoStep

-----------------------------------------------------------------------------
(* The inductive invariant.                                                *)

\* Nothing is queued, written or accepted at first.
LEMMA InitSendInv == Init => SendInv
BY EmptySeq, ConcatEmptySeq
   DEF Init, SendInv, WriteOwnsHead, OneWrite, BufferAlive, StuckIsClosed,
       Undelivered

\* Send adds its message at both ends of accepted = delivered \o Undelivered,
\* and to the queue's end, which is its head only when the queue was empty.
LEMMA SendKeepsInv ==
  ASSUME TypeOK, SendInv, NEW t \in Senders, Send(t)
  PROVE  SendInv'
<1> USE DEF SendInv, WriteOwnsHead, OneWrite, BufferAlive, StuckIsClosed,
            Undelivered
<1> DEFINE m == [from |-> t, n |-> sent[t] + 1]
<1>1. m \in Message
  BY NewMessage
<1>2. CASE Len(sendQue) > MaxSendQue
  BY <1>2 DEF Send
<1>3. CASE ~(Len(sendQue) > MaxSendQue)
  <2>1. /\ sendQue' = Append(sendQue, m) /\ accepted' = Append(accepted, m)
        /\ UNCHANGED <<sock, peer, cleaned, delivered>>
        /\ writes' = IF sendQue = <<>> THEN writes \cup {AsyncWrite(m)}
                     ELSE writes
    BY <1>3 DEF Send
  <2>2. sendQue \in Seq(Message) /\ delivered \in Seq(Message)
    BY DEF TypeOK
  <2>3. CASE sendQue = <<>>
    <3>1. writes' = {AsyncWrite(m)} /\ sendQue' = <<m>>
      BY <2>1, <2>2, <2>3
    <3>2. \A w \in writes' : w.state = "busy" /\ w.msg = m
      BY <3>1 DEF AsyncWrite
    <3>3. WriteOwnsHead' /\ StuckIsClosed'
      BY <3>1, <3>2
    <3>4. accepted = delivered \o sendQue
      BY <2>3
    <3>5. Undelivered' = Append(sendQue, m)
      BY <2>1, <3>1, <3>2
    <3>6. Append(delivered \o sendQue, m) = delivered \o Append(sendQue, m)
      BY <1>1, <2>2, AppendConcat
    <3>7. accepted' = delivered' \o Undelivered'
      BY <2>1, <3>4, <3>5, <3>6
    <3> QED BY <3>3, <3>7
  <2>4. CASE sendQue # <<>>
    <3>1. /\ Tail(sendQue') = Append(Tail(sendQue), m)
          /\ Head(sendQue') = Head(sendQue) /\ sendQue' # <<>>
          /\ writes' = writes /\ Tail(sendQue) \in Seq(Message)
      BY <1>1, <2>1, <2>2, <2>4, AppendTail
    <3>2. WriteOwnsHead' /\ StuckIsClosed'
      BY <2>1, <2>4, <3>1
    <3>3. Undelivered' = Append(Undelivered, m)
      BY <2>1, <3>1
    <3>4. Undelivered \in Seq(Message)
      BY <2>2, <3>1
    <3>5. Append(delivered \o Undelivered, m)
            = delivered \o Append(Undelivered, m)
      BY <1>1, <2>2, <3>4, AppendConcat
    <3>6. accepted' = delivered' \o Undelivered'
      BY <2>1, <3>3, <3>5
    <3> QED BY <3>2, <3>6
  <2> QED BY <2>3, <2>4
<1> QED BY <1>2, <1>3

\* The end of a write and its handler keep it: the one write there is uses the
\* head, and only its good end passes the head on.
LEMMA IoKeepsInv ==
  ASSUME TypeOK, SendInv, NEW w \in writes, IoStep(w)
  PROVE  SendInv'
<1> USE DEF SendInv, WriteOwnsHead, OneWrite, BufferAlive, StuckIsClosed,
            Undelivered
<1>1. /\ writes = {w} /\ w \in WriteOp
      /\ sendQue # <<>> /\ Head(sendQue) = w.msg
      /\ sendQue \in Seq(Message) /\ delivered \in Seq(Message)
  BY DEF TypeOK
<1>2. CASE WriteEnds(w)
  <2>1. /\ writes' = {Ended(w, "ok")} /\ UNCHANGED <<sendQue, accepted>>
        /\ delivered' = Append(delivered, w.msg) /\ w.state = "busy"
    BY <1>1, <1>2 DEF WriteEnds
  <2>2. \A v \in writes' : v.state = "ok" /\ v.msg = w.msg
    BY <1>1, <2>1, EndedKeepsMessage
  <2>3. accepted = delivered \o sendQue
    BY <1>1, <2>1
  <2>4. accepted' = delivered' \o Tail(sendQue)
    BY <1>1, <2>1, <2>3, MoveHead
  <2>5. Undelivered' = Tail(sendQue)
    BY <2>1, <2>2
  <2> QED BY <1>1, <2>1, <2>2, <2>4, <2>5
<1>3. CASE WriteFails(w)
  <2>1. /\ writes' = {Ended(w, "error")} /\ w.state = "busy"
        /\ UNCHANGED <<sendQue, accepted, delivered>>
    BY <1>1, <1>3 DEF WriteFails
  <2>2. \A v \in writes' : v.state = "error" /\ v.msg = w.msg
    BY <1>1, <2>1, EndedKeepsMessage
  <2> QED BY <1>1, <2>1, <2>2
<1>4. CASE HandleWrite(w)
  <2>1. /\ sendQue' = Tail(sendQue) /\ UNCHANGED <<accepted, delivered>>
        /\ accepted = delivered \o Tail(sendQue)
    BY <1>1, <1>4 DEF HandleWrite
  <2>2. CASE Tail(sendQue) = <<>>
    BY <1>1, <1>4, <2>1, <2>2 DEF HandleWrite
  <2>3. CASE Tail(sendQue) # <<>>
    <3> DEFINE n == AsyncWrite(Head(Tail(sendQue)))
    <3>1. writes' = {n}
      BY <1>1, <1>4, <2>3 DEF HandleWrite
    <3>2. n.state = "busy" /\ n.msg = Head(Tail(sendQue))
      BY DEF AsyncWrite
    <3> HIDE DEF n
    <3>3. \A v \in writes' : v.state = "busy" /\ v.msg = Head(Tail(sendQue))
      BY <3>1, <3>2
    <3>4. Undelivered' = sendQue'
      BY <3>3
    <3>5. WriteOwnsHead' /\ StuckIsClosed'
      BY <2>1, <2>3, <3>1, <3>3
    <3> QED BY <2>1, <3>4, <3>5
  <2> QED BY <2>2, <2>3
<1>5. CASE HandleWriteError(w)
  BY <1>1, <1>5 DEF HandleWriteError
<1> QED BY <1>2, <1>3, <1>4, <1>5 DEF IoStep

\* Types and invariant together are inductive.
LEMMA SendInductive == TypeOK /\ SendInv /\ [Next]_vars => (TypeOK /\ SendInv)'
<1> SUFFICES ASSUME TypeOK, SendInv, [Next]_vars PROVE TypeOK' /\ SendInv'
  OBVIOUS
<1>1. TypeOK'
  BY NextSendType DEF SendInv
<1>2. ASSUME Close \/ PeerChanges \/ UNCHANGED vars PROVE SendInv'
  <2>1. /\ UNCHANGED <<sendQue, writes, accepted, delivered, cleaned>>
        /\ sock = "closed" => sock' = "closed"
    BY <1>2 DEF Close, PeerChanges, vars
  <2> QED BY <2>1 DEF SendInv, WriteOwnsHead, OneWrite, BufferAlive,
                      StuckIsClosed, Undelivered
<1>3. SendInv'
  BY <1>2, SendKeepsInv, IoKeepsInv DEF Next
<1> QED BY <1>1, <1>3

\* The variables always have their types, and the queue never exceeds
\* MAX_SENDQUE by more than one message.
THEOREM SendTypeCorrect == Spec => []TypeOK
<1> QED BY InitSendType, InitSendInv, SendInductive, PTL DEF Spec

\* There is one write at a time, and its buffer is the head of the queue.
THEOREM WriteOwnsHeadHolds == Spec => []WriteOwnsHead
<1>1. SendInv => WriteOwnsHead
  BY DEF SendInv
<1> QED BY <1>1, InitSendType, InitSendInv, SendInductive, PTL DEF Spec

\* A queue whose writes have stopped belongs to a connection that is closed.
THEOREM StuckIsClosedHolds == Spec => []StuckIsClosed
<1>1. SendInv => StuckIsClosed
  BY DEF SendInv
<1> QED BY <1>1, InitSendType, InitSendInv, SendInductive, PTL DEF Spec

\* Both, and every accepted message is written or in the queue, in order.
THEOREM SendInvHolds == Spec => []SendInv
<1> QED BY InitSendType, InitSendInv, SendInductive, PTL DEF Spec
-----------------------------------------------------------------------------
(* Refinement.                                                             *)

\* The messages on their way are the queue, or all of it but its head.
LEMMA OnTheWayIsQueue ==
  ASSUME TypeOK, SendInv
  PROVE  /\ O!OnTheWay = Len(Undelivered)
         /\ O!OnTheWay <= Len(sendQue) /\ O!OnTheWay >= Len(sendQue) - 1
<1>1. CASE \E w \in writes : w.state = "ok"
  <2>1. /\ Undelivered = Tail(sendQue) /\ sendQue # <<>>
        /\ Tail(sendQue) \in Seq(Message)
        /\ Len(Tail(sendQue)) = Len(sendQue) - 1
    BY <1>1 DEF Undelivered, TypeOK, SendInv, WriteOwnsHead, BufferAlive
  <2>2. Len(accepted) = Len(delivered) + Len(Undelivered)
    BY <2>1, ConcatProperties DEF SendInv, TypeOK
  <2> QED BY <2>1, <2>2 DEF O!OnTheWay, TypeOK
<1>2. CASE ~ \E w \in writes : w.state = "ok"
  <2>1. Undelivered = sendQue
    BY <1>2 DEF Undelivered
  <2>2. Len(accepted) = Len(delivered) + Len(Undelivered)
    BY <2>1, ConcatProperties DEF SendInv, TypeOK
  <2> QED BY <2>1, <2>2 DEF O!OnTheWay, TypeOK
<1> QED BY <1>1, <1>2

\* Every step of the queue is a step of Outbox or leaves it alone.
LEMMA OutboxStep == TypeOK /\ SendInv /\ [Next]_vars => [O!Next]_(O!vars)
<1> SUFFICES ASSUME TypeOK, SendInv, [Next]_vars PROVE [O!Next]_(O!vars)
  OBVIOUS
<1> USE DEF O!vars
<1>1. ASSUME NEW t \in Senders, Send(t) PROVE O!Next
  <2> DEFINE m == [from |-> t, n |-> sent[t] + 1]
  <2>1. m \in Message
    BY <1>1, NewMessage
  <2>2. CASE Len(sendQue) > MaxSendQue
    <3>1. O!OnTheWay >= MaxSendQue
      BY <2>2, OnTheWayIsQueue, SendQueueAssumption
         DEF TypeOK, O!OnTheWay
    <3>2. O!Refuse(m)
      BY <1>1, <2>2, <3>1 DEF Send, O!Refuse
    <3> QED BY <2>1, <3>2 DEF O!Next
  <2>3. CASE ~(Len(sendQue) > MaxSendQue)
    <3>1. O!OnTheWay <= MaxSendQue
      BY <2>3, OnTheWayIsQueue, SendQueueAssumption DEF TypeOK, O!OnTheWay
    <3>2. O!Accept(m)
      BY <1>1, <2>3, <3>1 DEF Send, O!Accept
    <3> QED BY <2>1, <3>2 DEF O!Next
  <2> QED BY <2>2, <2>3
<1>2. ASSUME NEW w \in writes, WriteEnds(w) PROVE O!Next
  <2>1. /\ Undelivered = sendQue /\ sendQue # <<>> /\ Head(sendQue) = w.msg
        /\ sendQue \in Seq(Message) /\ delivered \in Seq(Message)
    BY <1>2 DEF WriteEnds, Undelivered, SendInv, WriteOwnsHead, OneWrite,
                BufferAlive, TypeOK
  <2>2. accepted[Len(delivered) + 1] = w.msg
    BY <2>1, NextDelivered DEF SendInv
  <2>3. O!OnTheWay > 0
    BY <2>1, OnTheWayIsQueue
  <2>4. O!Deliver
    BY <1>2, <2>2, <2>3 DEF WriteEnds, O!Deliver
  <2> QED BY <2>4 DEF O!Next
<1>3. CASE Close
  BY <1>3 DEF Close, O!Break, O!Next
<1>4. ASSUME NEW w \in writes, HandleWriteError(w) PROVE O!Next
  BY <1>4 DEF HandleWriteError, O!Break, O!Next
<1>5. ASSUME NEW w \in writes, WriteFails(w) \/ HandleWrite(w)
      PROVE  UNCHANGED O!vars
  BY <1>5 DEF WriteFails, HandleWrite
<1>6. CASE PeerChanges \/ UNCHANGED vars
  BY <1>6 DEF PeerChanges, vars
<1> QED BY <1>1, <1>2, <1>3, <1>4, <1>5, <1>6 DEF Next, IoStep

\* Messages go out in order, none twice, none skipped, and none is refused
\* while there is room.
THEOREM OutboxRefined == Spec => OutboxSpec
<1>1. Init => O!Init
  BY DEF Init, O!Init
<1> QED BY <1>1, InitSendType, InitSendInv, SendInductive, OutboxStep, PTL
        DEF Spec, OutboxSpec, O!Spec
=============================================================================
