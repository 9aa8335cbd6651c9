----------------------------- MODULE LogicQueue -----------------------------
(***************************************************************************)
(* The message queue of a chat server's LogicSystem: the io threads post   *)
(* messages (PostMsgToQue), one worker thread serves them (DealMsg), and   *)
(* the main thread ends both: it stops and joins the io threads, and the   *)
(* destructor of the LogicSystem singleton then stops and joins the        *)
(* worker.                                                                 *)
(*                                                                         *)
(* A poster's whole critical section is one action, guarded by the mutex   *)
(* being free.  The worker keeps the mutex over several steps, callbacks   *)
(* included; WorkerHolds says at which ones.                               *)
(***************************************************************************)
EXTENDS Naturals, Sequences, FiniteSets

CONSTANTS
  Posters,   \* the io threads
  MaxPosts   \* bound: messages posted per thread

ASSUME LogicQueueAssumption == MaxPosts \in Nat

\* A message: who posted it, which one of its poster's it is, and whether a
\* callback is registered for its id.
Message == [from : Posters, n : 1 .. MaxPosts, known : BOOLEAN]

VARIABLES
  msgQue,    \* _msg_que
  stop,      \* _b_stop
  wpc,       \* where the worker is in DealMsg
  ppc,       \* an io thread: idle, in a handler about to lock the mutex and
             \* push, or about to notify_one after its push
  posts,     \* messages posted per poster (bound)
  mpc,       \* the main thread on its way through shutdown
  accepted,  \* history: messages pushed
  served     \* history: messages whose callback was called or that had none

history == <<accepted, served>>
vars == <<msgQue, stop, wpc, ppc, posts, mpc, history>>

WorkerPcs == {"lock", "test", "toWait", "waiting", "decide", "front", "pop",
              "drain", "drainFront", "drainPop", "exited"}
WorkerHolds == wpc \in {"test", "toWait", "decide", "front", "pop", "drain",
                        "drainFront", "drainPop"}

Init ==
  /\ msgQue = <<>>
  /\ stop = FALSE
  /\ wpc = "lock"
  /\ ppc = [p \in Posters |-> "idle"]
  /\ posts = [p \in Posters |-> 0]
  /\ mpc = "running"
  /\ accepted = <<>> /\ served = <<>>
-----------------------------------------------------------------------------
(* PostMsgToQue.                                                           *)

\* notify_one: only the worker ever waits on _consume.
NotifyOne == wpc' = IF wpc = "waiting" THEN "lock" ELSE wpc

\* A read handler that will post starts: none does once the pool is stopped.
StartHandler(p) ==
  /\ ppc[p] = "idle" /\ mpc = "running" /\ posts[p] < MaxPosts
  /\ ppc' = [ppc EXCEPT ![p] = "posting"]
  /\ UNCHANGED <<msgQue, stop, wpc, posts, mpc, history>>

\* Mutant: the size is tested before the push.
Push_TestFirst(p, k) ==
  LET m == [from |-> p, n |-> posts[p] + 1, known |-> k]
  IN /\ ppc[p] = "posting" /\ ~WorkerHolds
     /\ msgQue' = Append(msgQue, m)
     /\ ppc' = [ppc EXCEPT ![p] = IF Len(msgQue) = 1 THEN "notify" ELSE "idle"]
     /\ posts' = [posts EXCEPT ![p] = @ + 1]
     /\ accepted' = Append(accepted, m)
     /\ UNCHANGED <<stop, wpc, mpc, served>>

\* Mutant: the handler posts once more.
Push_Again(p, k) ==
  LET m == [from |-> p, n |-> posts[p] + 1, known |-> k]
  IN /\ ppc[p] = "posting" /\ ~WorkerHolds
     /\ msgQue' = Append(msgQue, m)
     /\ posts' = [posts EXCEPT ![p] = @ + 1]
     /\ accepted' = Append(accepted, m)
     /\ UNCHANGED <<stop, wpc, ppc, mpc, served>>

\* Push under the mutex; the one that makes the size 1 notifies afterwards.
Push(p, k) ==
  LET m == [from |-> p, n |-> posts[p] + 1, known |-> k]
  IN /\ ppc[p] = "posting" /\ ~WorkerHolds
     /\ msgQue' = Append(msgQue, m)
     /\ ppc' = [ppc EXCEPT ![p] = IF Len(msgQue') = 1 THEN "notify" ELSE "idle"]
     /\ posts' = [posts EXCEPT ![p] = @ + 1]
     /\ accepted' = Append(accepted, m)
     /\ UNCHANGED <<stop, wpc, mpc, served>>

Notify(p) ==
  /\ ppc[p] = "notify"
  /\ NotifyOne
  /\ ppc' = [ppc EXCEPT ![p] = "idle"]
  /\ UNCHANGED <<msgQue, stop, posts, mpc, history>>
-----------------------------------------------------------------------------
(* DealMsg.                                                                *)

Lock ==
  /\ wpc = "lock"
  /\ wpc' = "test"
  /\ UNCHANGED <<msgQue, stop, ppc, posts, mpc, history>>

\* while (_msg_que.empty() && !_b_stop)
Test ==
  /\ wpc = "test"
  /\ wpc' = IF msgQue = <<>> /\ ~stop THEN "toWait" ELSE "decide"
  /\ UNCHANGED <<msgQue, stop, ppc, posts, mpc, history>>

\* Joining the waiters and unlocking is one step of the condition variable.
Wait ==
  /\ wpc = "toWait"
  /\ wpc' = "waiting"
  /\ UNCHANGED <<msgQue, stop, ppc, posts, mpc, history>>

\* A condition variable may wake its waiter without a notification.
SpuriousWakeup ==
  /\ wpc = "waiting"
  /\ wpc' = "lock"
  /\ UNCHANGED <<msgQue, stop, ppc, posts, mpc, history>>

\* Mutant: break as soon as _b_stop is seen.
Decide_NoDrain ==
  /\ wpc = "decide"
  /\ wpc' = IF stop THEN "exited" ELSE "front"
  /\ UNCHANGED <<msgQue, stop, ppc, posts, mpc, history>>

\* if (_b_stop): a second, separate read of the flag.
Decide ==
  /\ wpc = "decide"
  /\ wpc' = IF stop THEN "drain" ELSE "front"
  /\ UNCHANGED <<msgQue, stop, ppc, posts, mpc, history>>

\* The loop that serves what is left after a stop.
Drain ==
  /\ wpc = "drain"
  /\ wpc' = IF msgQue = <<>> THEN "exited" ELSE "drainFront"
  /\ UNCHANGED <<msgQue, stop, ppc, posts, mpc, history>>

\* front() and the registered callback, the mutex still locked.
Dispatch ==
  /\ wpc \in {"front", "drainFront"}
  /\ msgQue # <<>> /\ Head(msgQue).known
  /\ served' = Append(served, Head(msgQue))
  /\ wpc' = IF wpc = "front" THEN "pop" ELSE "drainPop"
  /\ UNCHANGED <<msgQue, stop, ppc, posts, mpc, accepted>>

\* Mutant: no pop before the continue for an id without callback.
Discard_NoPop ==
  /\ wpc \in {"front", "drainFront"}
  /\ msgQue # <<>> /\ ~Head(msgQue).known
  /\ served' = Append(served, Head(msgQue))
  /\ wpc' = IF wpc = "front" THEN "lock" ELSE "drain"
  /\ UNCHANGED <<msgQue, stop, ppc, posts, mpc, accepted>>

\* No callback for this id: drop the message.
Discard ==
  /\ wpc \in {"front", "drainFront"}
  /\ msgQue # <<>> /\ ~Head(msgQue).known
  /\ served' = Append(served, Head(msgQue))
  /\ msgQue' = Tail(msgQue)
  /\ wpc' = IF wpc = "front" THEN "lock" ELSE "drain"
  /\ UNCHANGED <<stop, ppc, posts, mpc, accepted>>

\* The callback returned: pop, and unlock at the end of the loop's body.
Pop ==
  /\ wpc \in {"pop", "drainPop"}
  /\ msgQue' = Tail(msgQue)
  /\ wpc' = IF wpc = "pop" THEN "lock" ELSE "drain"
  /\ UNCHANGED <<stop, ppc, posts, mpc, history>>
-----------------------------------------------------------------------------
(* Shutdown: main's signal handler, then ~LogicSystem.                     *)

\* pool->Stop(): the io threads start no further handler ...
StopPool ==
  /\ mpc = "running"
  /\ mpc' = "stopping"
  /\ UNCHANGED <<msgQue, stop, wpc, ppc, posts, history>>

\* Mutant: the threads are not joined.
JoinPool_NoWait ==
  /\ mpc = "stopping"
  /\ mpc' = "stopped"
  /\ UNCHANGED <<msgQue, stop, wpc, ppc, posts, history>>

\* ... and are joined when they have finished the one they are in.
JoinPool ==
  /\ mpc = "stopping" /\ \A p \in Posters : ppc[p] = "idle"
  /\ mpc' = "stopped"
  /\ UNCHANGED <<msgQue, stop, wpc, ppc, posts, history>>

\* The destructor sets _b_stop without the mutex ...
SetStop ==
  /\ mpc = "stopped"
  /\ stop' = TRUE
  /\ mpc' = "notifying"
  /\ UNCHANGED <<msgQue, wpc, ppc, posts, history>>

\* ... notifies, and joins the worker.
NotifyStop ==
  /\ mpc = "notifying"
  /\ NotifyOne
  /\ mpc' = "joining"
  /\ UNCHANGED <<msgQue, stop, ppc, posts, history>>

JoinWorker ==
  /\ mpc = "joining" /\ wpc = "exited"
  /\ mpc' = "ended"
  /\ UNCHANGED <<msgQue, stop, wpc, ppc, posts, history>>
-----------------------------------------------------------------------------
PosterStep(p) == StartHandler(p) \/ Notify(p) \/ \E k \in BOOLEAN : Push(p, k)

WorkerStep ==
  Lock \/ Test \/ Wait \/ Decide \/ Drain \/ Dispatch \/ Discard \/ Pop

MainStep == StopPool \/ JoinPool \/ SetStop \/ NotifyStop \/ JoinWorker

Next ==
  \/ \E p \in Posters : PosterStep(p)
  \/ WorkerStep \/ SpuriousWakeup \/ MainStep

Spec == Init /\ [][Next]_vars
-----------------------------------------------------------------------------
(* What must hold.                                                         *)

TypeOK ==
  /\ msgQue \in Seq(Message)
  /\ stop \in BOOLEAN
  /\ wpc \in WorkerPcs
  /\ ppc \in [Posters -> {"idle", "posting", "notify"}]
  /\ posts \in [Posters -> 0 .. MaxPosts]
  /\ \A p \in Posters : ppc[p] = "posting" => posts[p] < MaxPosts
  /\ mpc \in {"running", "stopping", "stopped", "notifying", "joining", "ended"}
  /\ accepted \in Seq(Message) /\ served \in Seq(Message)

\* front() and pop() are never called on an empty queue, which std::queue would
\* not notice: not after a spurious wake-up, and not after a stop.  Part of
\* QueueInv.
FrontExists == wpc \in {"front", "drainFront", "pop", "drainPop"} => msgQue # <<>>

\* The notification is never missed: while the queue holds a message the worker
\* is not asleep, unless a poster is just about to wake it.
NoLostPost ==
  wpc \in {"toWait", "waiting"} /\ msgQue # <<>> =>
    wpc = "waiting" /\ \E p \in Posters : ppc[p] = "notify"

\* When the worker has left, nothing that was accepted is unserved: the io
\* threads have ended before the destructor starts, and it serves the rest.
StopServesAll == wpc = "exited" => served = accepted

\* Messages are served in the order they were posted, each exactly once, across
\* every interleaving of posters, wake-ups and the shutdown.
M == INSTANCE Mailbox
MailboxSpec == M!Spec

\* Why: what the worker has not served is the queue, whose head it may have
\* served already but not yet popped.
Unserved == IF wpc \in {"pop", "drainPop"} THEN Tail(msgQue) ELSE msgQue
QueueInv ==
  /\ FrontExists
  /\ accepted = served \o Unserved
  /\ stop => mpc \in {"notifying", "joining", "ended"}
  /\ mpc \notin {"running", "stopping"} => \A p \in Posters : ppc[p] = "idle"
  /\ wpc = "exited" => msgQue = <<>> /\ stop
  /\ wpc = "toWait" => msgQue = <<>>
  /\ wpc \in {"drain", "drainFront", "drainPop"} => stop
  /\ wpc = "decide" /\ msgQue = <<>> => stop
-----------------------------------------------------------------------------
(* Progress: every thread that can run runs.  The worker competes for the  *)
(* mutex with threads that hold it for a moment only; the posters' waiting *)
(* for the mutex is not assumed to end, nor is there any spurious wake-up. *)
Fairness ==
  /\ WF_vars(WorkerStep)
  /\ \A p \in Posters : WF_vars(Notify(p))
  /\ WF_vars(JoinPool) /\ WF_vars(SetStop) /\ WF_vars(NotifyStop)
  /\ WF_vars(JoinWorker)

FairSpec == Spec /\ Fairness

\* Every message that PostMsgToQue accepted is served, although only the push
\* that makes the queue non-empty notifies the worker.
AcceptedIsServed ==
  \A k \in 1 .. Cardinality(Posters) * MaxPosts :
    Len(accepted) >= k ~> Len(served) >= k

\* The destructor returns: the worker notices the stop and the join ends.
StopEnds == mpc = "joining" ~> mpc = "ended"
=============================================================================
