-------------------------- MODULE LogicQueueProofs --------------------------
(***************************************************************************)
(* LogicQueue for any number of io threads and messages: its types, its    *)
(* inductive invariant QueueInv, what follows from it, and that the queue  *)
(* implements Mailbox.                                                     *)
(***************************************************************************)
EXTENDS LogicQueue, SequenceTheorems, TLAPS

-----------------------------------------------------------------------------
(* Sequences.                                                              *)

\* A push extends the queue and the accepted messages alike.
LEMMA AppendConcat ==
  ASSUME NEW s \in Seq(Message), NEW t \in Seq(Message), NEW m \in Message
  PROVE  Append(s \o t, m) = s \o Append(t, m)
OBVIOUS

\* Serving the head moves it from the unserved messages to the served ones.
LEMMA MoveHead ==
  ASSUME NEW s \in Seq(Message), NEW t \in Seq(Message), t # <<>>
  PROVE  s \o t = Append(s, Head(t)) \o Tail(t)
OBVIOUS

\* The first unserved message is the one Mailbox serves next.
LEMMA NextServed ==
  ASSUME NEW s \in Seq(Message), NEW t \in Seq(Message), t # <<>>
  PROVE  Len(s) < Len(s \o t) /\ (s \o t)[Len(s) + 1] = Head(t)
OBVIOUS

-----------------------------------------------------------------------------
(* Types.                                                                  *)

\* The initial state is well typed.
LEMMA InitQueueType == Init => TypeOK
<1> SUFFICES ASSUME Init PROVE TypeOK
  OBVIOUS
<1> USE LogicQueueAssumption DEF Init, TypeOK, WorkerPcs
<1>1. <<>> \in Seq(Message)
  OBVIOUS
<1>2. posts \in [Posters -> 0 .. MaxPosts]
  OBVIOUS
<1> QED BY <1>1, <1>2

\* So is every state a step of the code leads to.
LEMMA NextQueueType == TypeOK /\ FrontExists /\ [Next]_vars => TypeOK'
<1> SUFFICES ASSUME TypeOK, FrontExists, [Next]_vars PROVE TypeOK'
  OBVIOUS
<1> USE LogicQueueAssumption DEF TypeOK, WorkerPcs, history
<1>1. ASSUME NEW p \in Posters, StartHandler(p) PROVE TypeOK'
  BY <1>1 DEF StartHandler
<1>2. ASSUME NEW p \in Posters, NEW k \in BOOLEAN, Push(p, k) PROVE TypeOK'
  <2> DEFINE m == [from |-> p, n |-> posts[p] + 1, known |-> k]
  <2>1. m \in Message
    BY <1>2 DEF Push, Message
  <2>2. msgQue' \in Seq(Message) /\ accepted' \in Seq(Message)
    BY <1>2, <2>1 DEF Push
  <2>3. /\ posts' \in [Posters -> 0 .. MaxPosts]
        /\ ppc' \in [Posters -> {"idle", "posting", "notify"}]
        /\ \A q \in Posters : ppc'[q] = "posting" => posts'[q] < MaxPosts
    BY <1>2 DEF Push
  <2> QED BY <1>2, <2>2, <2>3 DEF Push
<1>3. ASSUME NEW p \in Posters, Notify(p) PROVE TypeOK'
  BY <1>3 DEF Notify, NotifyOne
<1>4. CASE Lock \/ Test \/ Wait \/ Decide \/ Drain \/ SpuriousWakeup
  BY <1>4 DEF Lock, Test, Wait, Decide, Drain, SpuriousWakeup
<1>5. CASE Dispatch \/ Discard \/ Pop
  <2>1. msgQue # <<>>
    BY <1>5 DEF Dispatch, Discard, Pop, FrontExists
  <2>2. Head(msgQue) \in Message /\ Tail(msgQue) \in Seq(Message)
    BY <2>1
  <2>3. CASE Dispatch
    <3>1. served' \in Seq(Message)
      BY <2>2, <2>3 DEF Dispatch
    <3> QED BY <2>3, <3>1 DEF Dispatch
  <2>4. CASE Discard
    <3>1. served' \in Seq(Message)
      BY <2>2, <2>4 DEF Discard
    <3> QED BY <2>2, <2>4, <3>1 DEF Discard
  <2>5. CASE Pop
    BY <2>2, <2>5 DEF Pop
  <2> QED BY <1>5, <2>3, <2>4, <2>5
<1>6. CASE MainStep
  BY <1>6 DEF MainStep, StopPool, JoinPool, SetStop, NotifyStop, NotifyOne,
              JoinWorker
<1>7. CASE UNCHANGED vars
  BY <1>7 DEF vars
<1> QED BY <1>1, <1>2, <1>3, <1>4, <1>5, <1>6, <1>7
        DEF Next, PosterStep, WorkerStep

-----------------------------------------------------------------------------
(* The inductive invariant.                                                *)

\* Nothing is accepted and nothing served at first.
LEMMA InitQueueInv == Init => QueueInv
BY EmptySeq, ConcatEmptySeq DEF Init, QueueInv, FrontExists, Unserved

\* A poster's step keeps it: a push adds the same message to both ends of
\* accepted = served \o Unserved, and happens only before the pool is joined.
LEMMA PosterQueueInv ==
  ASSUME TypeOK, QueueInv, NEW p \in Posters, PosterStep(p)
  PROVE  QueueInv'
<1> USE DEF QueueInv, FrontExists, Unserved, TypeOK, history
<1>1. CASE StartHandler(p)
  BY <1>1 DEF StartHandler
<1>2. ASSUME NEW k \in BOOLEAN, Push(p, k) PROVE QueueInv'
  <2> DEFINE m == [from |-> p, n |-> posts[p] + 1, known |-> k]
  <2>1. m \in Message
    BY <1>2, LogicQueueAssumption DEF Push, Message
  <2>2. wpc \notin {"front", "drainFront", "pop", "drainPop", "toWait", "drain",
                    "decide"}
    BY <1>2 DEF Push, WorkerHolds
  <2>3. Append(accepted, m) = served \o Append(msgQue, m)
    BY <2>1, <2>2, AppendConcat
  <2>4. accepted' = served' \o Unserved'
    BY <1>2, <2>2, <2>3 DEF Push
  <2>5. mpc \in {"running", "stopping"} /\ ~stop /\ wpc # "exited"
    BY <1>2 DEF Push
  <2> QED BY <1>2, <2>2, <2>4, <2>5 DEF Push
<1>3. CASE Notify(p)
  BY <1>3 DEF Notify, NotifyOne
<1> QED BY <1>1, <1>2, <1>3 DEF PosterStep

\* The worker's steps keep it: it dispatches the head before it pops it.
LEMMA WorkerQueueInv ==
  ASSUME TypeOK, QueueInv, WorkerStep \/ SpuriousWakeup
  PROVE  QueueInv'
<1> USE DEF QueueInv, FrontExists, Unserved, TypeOK, history
<1>1. CASE Lock \/ Wait \/ SpuriousWakeup
  <2>1. CASE Lock
    BY <2>1 DEF Lock
  <2>2. CASE Wait
    BY <2>2 DEF Wait
  <2>3. CASE SpuriousWakeup
    BY <2>3 DEF SpuriousWakeup
  <2> QED BY <1>1, <2>1, <2>2, <2>3
<1>2. CASE Test
  <2>1. Unserved' = Unserved
    BY <1>2 DEF Test
  <2>2. wpc' = "toWait" => msgQue' = <<>>
    BY <1>2 DEF Test
  <2>3. wpc' = "decide" /\ msgQue' = <<>> => stop'
    BY <1>2 DEF Test
  <2>4. wpc' \in {"toWait", "decide"}
    BY <1>2 DEF Test
  <2> QED BY <1>2, <2>2, <2>3, <2>4 DEF Test
<1>3. CASE Decide
  BY <1>3 DEF Decide
<1>4. CASE Drain
  BY <1>4 DEF Drain
<1>5. CASE Dispatch
  <2>1. msgQue # <<>> /\ accepted = served \o msgQue
    BY <1>5 DEF Dispatch
  <2>2. served \o msgQue = Append(served, Head(msgQue)) \o Tail(msgQue)
    BY <2>1, MoveHead
  <2> QED BY <1>5, <2>1, <2>2 DEF Dispatch
<1>6. CASE Discard
  <2>1. msgQue # <<>> /\ accepted = served \o msgQue
    BY <1>6 DEF Discard
  <2>2. served \o msgQue = Append(served, Head(msgQue)) \o Tail(msgQue)
    BY <2>1, MoveHead
  <2> QED BY <1>6, <2>1, <2>2 DEF Discard
<1>7. CASE Pop
  BY <1>7 DEF Pop
<1> QED BY <1>1, <1>2, <1>3, <1>4, <1>5, <1>6, <1>7 DEF WorkerStep

\* The shutdown keeps it: _b_stop is set only after the io threads were joined.
LEMMA MainQueueInv ==
  ASSUME TypeOK, QueueInv, MainStep
  PROVE  QueueInv'
<1> USE DEF QueueInv, FrontExists, Unserved, TypeOK, history
<1>1. CASE StopPool
  BY <1>1 DEF StopPool
<1>2. CASE JoinPool
  BY <1>2 DEF JoinPool
<1>3. CASE SetStop
  BY <1>3 DEF SetStop
<1>4. CASE NotifyStop
  BY <1>4 DEF NotifyStop, NotifyOne
<1>5. CASE JoinWorker
  BY <1>5 DEF JoinWorker
<1> QED BY <1>1, <1>2, <1>3, <1>4, <1>5 DEF MainStep

\* Types and invariant together are inductive.
LEMMA QueueInductive == TypeOK /\ QueueInv /\ [Next]_vars => (TypeOK /\ QueueInv)'
<1> SUFFICES ASSUME TypeOK, QueueInv, [Next]_vars PROVE TypeOK' /\ QueueInv'
  OBVIOUS
<1>1. TypeOK'
  BY NextQueueType DEF QueueInv
<1>2. QueueInv'
  <2>1. CASE UNCHANGED vars
    BY <2>1 DEF vars, history, QueueInv, FrontExists, Unserved
  <2> QED BY <2>1, PosterQueueInv, WorkerQueueInv, MainQueueInv DEF Next
<1> QED BY <1>1, <1>2

\* The variables of the queue always have their types.
THEOREM QueueTypeCorrect == Spec => []TypeOK
<1>1. Init => TypeOK /\ QueueInv
  BY InitQueueType, InitQueueInv
<1> QED BY <1>1, QueueInductive, PTL DEF Spec

\* What the worker has not served of the accepted messages is the queue.
THEOREM QueueInvHolds == Spec => []QueueInv
<1>1. Init => TypeOK /\ QueueInv
  BY InitQueueType, InitQueueInv
<1> QED BY <1>1, QueueInductive, PTL DEF Spec

\* front() and pop() never meet an empty queue.
THEOREM FrontExistsHolds == Spec => []FrontExists
<1>1. QueueInv => FrontExists
  BY DEF QueueInv
<1> QED BY <1>1, QueueInvHolds, PTL

\* The worker leaves only when everything accepted has been served.
THEOREM StopServesAllHolds == Spec => []StopServesAll
<1>1. TypeOK /\ QueueInv => StopServesAll
  BY ConcatEmptySeq DEF TypeOK, QueueInv, Unserved, StopServesAll
<1> QED BY <1>1, QueueTypeCorrect, QueueInvHolds, PTL
-----------------------------------------------------------------------------
(* The notification.                                                       *)

\* The worker falls asleep on an empty queue only, and the push that ends its
\* emptiness is the one that notifies.
LEMMA NotifyStepKept ==
  TypeOK /\ QueueInv /\ NoLostPost /\ [Next]_vars => NoLostPost'
<1> SUFFICES ASSUME TypeOK, QueueInv, NoLostPost, [Next]_vars PROVE NoLostPost'
  OBVIOUS
<1> USE DEF NoLostPost, TypeOK
<1>1. ASSUME NEW p \in Posters, StartHandler(p) PROVE NoLostPost'
  BY <1>1 DEF StartHandler
<1>2. ASSUME NEW p \in Posters, NEW k \in BOOLEAN, Push(p, k) PROVE NoLostPost'
  <2>1. wpc # "toWait"
    BY <1>2 DEF Push, WorkerHolds
  <2>2. CASE msgQue = <<>>
    <3>1. Len(msgQue') = 1
      BY <1>2, <2>2 DEF Push
    <3>2. ppc'[p] = "notify"
      BY <1>2, <3>1 DEF Push
    <3> QED BY <1>2, <2>1, <3>2 DEF Push
  <2>3. CASE msgQue # <<>>
    <3>1. \A q \in Posters : ppc[q] = "notify" => ppc'[q] = "notify"
      BY <1>2 DEF Push
    <3> QED BY <1>2, <2>1, <2>3, <3>1 DEF Push
  <2> QED BY <2>2, <2>3
<1>3. ASSUME NEW p \in Posters, Notify(p) PROVE NoLostPost'
  BY <1>3 DEF Notify, NotifyOne
<1>4. CASE WorkerStep \/ SpuriousWakeup
  BY <1>4 DEF WorkerStep, SpuriousWakeup, Lock, Test, Wait, Decide, Drain,
              Dispatch, Discard, Pop, QueueInv
<1>5. CASE MainStep
  BY <1>5 DEF MainStep, StopPool, JoinPool, SetStop, NotifyStop, NotifyOne,
              JoinWorker
<1>6. CASE UNCHANGED vars
  BY <1>6 DEF vars, history
<1> QED BY <1>1, <1>2, <1>3, <1>4, <1>5, <1>6 DEF Next, PosterStep

\* The worker never sleeps on a message without a notification on its way.
THEOREM NoLostPostHolds == Spec => []NoLostPost
<1>1. Init => NoLostPost
  BY DEF Init, NoLostPost
<1> QED BY <1>1, NotifyStepKept, QueueTypeCorrect, QueueInvHolds, PTL DEF Spec
-----------------------------------------------------------------------------
(* Refinement.                                                             *)

\* Every step of the queue is a step of the mailbox or leaves it alone.
LEMMA MailboxStep ==
  TypeOK /\ QueueInv /\ [Next]_vars => [M!Next]_<<accepted, served>>
<1> SUFFICES ASSUME TypeOK, QueueInv, [Next]_vars
             PROVE  [M!Next]_<<accepted, served>>
  OBVIOUS
<1>1. ASSUME NEW p \in Posters, NEW k \in BOOLEAN, Push(p, k) PROVE M!Next
  <2> DEFINE m == [from |-> p, n |-> posts[p] + 1, known |-> k]
  <2>1. m \in Message
    BY <1>1, LogicQueueAssumption DEF Push, Message, TypeOK
  <2>2. M!Accept(m)
    BY <1>1 DEF Push, M!Accept
  <2> QED BY <2>1, <2>2 DEF M!Next
<1>2. CASE Dispatch \/ Discard
  <2>1. msgQue \in Seq(Message) /\ msgQue # <<>> /\ served \in Seq(Message)
    BY <1>2 DEF Dispatch, Discard, TypeOK
  <2>2. accepted = served \o msgQue
    BY <1>2 DEF Dispatch, Discard, QueueInv, Unserved
  <2>3. Len(served) < Len(accepted) /\ accepted[Len(served) + 1] = Head(msgQue)
    BY <2>1, <2>2, NextServed
  <2>4. M!Serve
    BY <1>2, <2>3 DEF Dispatch, Discard, M!Serve
  <2> QED BY <2>4 DEF M!Next
<1>3. CASE UNCHANGED <<accepted, served>>
  BY <1>3
<1>4. CASE \E p \in Posters : StartHandler(p) \/ Notify(p)
  BY <1>4, <1>3 DEF StartHandler, Notify, history
<1>5. CASE Lock \/ Test \/ Wait \/ Decide \/ Drain \/ Pop \/ SpuriousWakeup
  BY <1>5, <1>3 DEF Lock, Test, Wait, Decide, Drain, Pop, SpuriousWakeup, history
<1>6. CASE MainStep
  BY <1>6, <1>3 DEF MainStep, StopPool, JoinPool, SetStop, NotifyStop,
                    JoinWorker, history
<1>7. CASE UNCHANGED vars
  BY <1>7, <1>3 DEF vars, history
<1> QED BY <1>1, <1>2, <1>4, <1>5, <1>6, <1>7 DEF Next, PosterStep, WorkerStep

\* Messages are served in the order they were posted, each exactly once.
THEOREM MailboxRefined == Spec => MailboxSpec
<1>1. Init => M!Init
  BY DEF Init, M!Init
<1> QED BY <1>1, MailboxStep, QueueTypeCorrect, QueueInvHolds, PTL
        DEF Spec, MailboxSpec, M!Spec
=============================================================================
