------------------------------- MODULE ConPool -------------------------------
(***************************************************************************)
(* RedisConPool of a chat server and the calls of RedisMgr that use it.    *)
(* Threads take a connection, send one command and give it back; the       *)
(* command that acquires a distributed lock keeps its connection while it  *)
(* tries again and again, and the lock's holder needs a connection of the  *)
(* same pool for every further command and for the release.  A checking    *)
(* thread replaces the connections an outage of Redis has broken, and      *)
(* Close stops the pool.                                                   *)
(*                                                                         *)
(* Everything done under mutex_ is one action, with one exception: Close   *)
(* sets b_stop_ without the mutex, so that the waiting thread's last test  *)
(* and its falling asleep are two steps and the mutex is held in between.  *)
(* A command on an open connection always comes back (see the README).     *)
(***************************************************************************)
EXTENDS Naturals, Sequences, FiniteSets

CONSTANTS
  Workers,      \* the threads that call RedisMgr
  Conns,        \* the connections the constructor managed to open
  Nil,
  MaxCalls,     \* bound: calls of all threads
  MaxOutages    \* bound: outages of Redis

ASSUME ConPoolAssumption ==
  /\ IsFiniteSet(Conns) /\ Conns # {} /\ IsFiniteSet(Workers)
  /\ Nil \notin Conns \cup Workers
  /\ MaxCalls \in Nat /\ MaxOutages \in Nat

VARIABLES
  connections,  \* connections_, the idle connections
  pc,           \* thread -> where it is in its call
  op,           \* thread -> the command of the call
  ctx,          \* thread -> the connection it holds
  identifier,   \* thread -> has acquireLock returned it an identifier?
  check,        \* check_thread_: "sleep", "scan", "ping", "repair", "ended"
  left,         \* connections this round of the check has still to look at
  checked,      \* the connection the check holds
  fail_count,   \* fail_count_
  b_stop,       \* b_stop_
  closing,      \* Close: "no", "flagged", "told", "joined", "closed"
  up,           \* external: does Redis answer?
  open,         \* external: the connections that were opened and not freed
  broken,       \* external: those of them an outage has broken
  lock,         \* external: the thread whose identifier the lock's key holds
  calls,        \* calls so far (bound)
  outages       \* outages so far (bound)

callVars  == <<pc, op, ctx, identifier, calls>>
checkVars == <<check, left, checked, fail_count>>
redisVars == <<up, broken, lock, outages>>
stopVars  == <<b_stop, closing>>
vars == <<connections, open, callVars, checkVars, redisVars, stopVars>>

Init ==
  /\ \E s \in [1 .. Cardinality(Conns) -> Conns] :
       /\ \A i, j \in DOMAIN s : s[i] = s[j] => i = j
       /\ \A c \in Conns : \E i \in DOMAIN s : s[i] = c
       /\ connections = s
  /\ pc = [w \in Workers |-> "out"]
  /\ op = [w \in Workers |-> "command"]
  /\ ctx = [w \in Workers |-> Nil]
  /\ identifier = [w \in Workers |-> FALSE]
  /\ check = "sleep" /\ left = 0 /\ checked = Nil /\ fail_count = 0
  /\ b_stop = FALSE /\ closing = "no"
  /\ up = TRUE /\ open = Conns /\ broken = {} /\ lock = Nil
  /\ calls = 0 /\ outages = 0

\* mutex_ is held between a thread's test and its wait.
MutexFree == \A w \in Workers : pc[w] # "tested"

Asleep == {w \in Workers : pc[w] = "asleep"}
Awake  == {w \in Workers : pc[w] = "enter"}
-----------------------------------------------------------------------------
(* Giving a connection back: push and notify_one, or nothing at all once   *)
(* the pool is stopped.  p is pc with what the caller itself changes.      *)

NotifyOne(p) ==
  IF Asleep = {} THEN pc' = p
  ELSE \E w \in Asleep : pc' = [p EXCEPT ![w] = "enter"]

\* Mutant: the connection is pushed and nobody is told.
returnConnection_Silent(c, p) ==
  /\ MutexFree /\ pc' = p
  /\ connections' = IF b_stop THEN connections ELSE Append(connections, c)

returnConnection(c, p) ==
  /\ MutexFree
  /\ IF b_stop THEN pc' = p /\ UNCHANGED connections
     ELSE connections' = Append(connections, c) /\ NotifyOne(p)
-----------------------------------------------------------------------------
(* A call of RedisMgr.                                                     *)

\* A thread calls RedisMgr; it releases only a lock it was given.
Call(w, o) ==
  /\ pc[w] = "out" /\ calls < MaxCalls
  /\ o = "acquire" => ~identifier[w]
  /\ o = "release" => identifier[w]
  /\ pc' = [pc EXCEPT ![w] = "enter"]
  /\ op' = [op EXCEPT ![w] = o]
  /\ calls' = calls + 1
  /\ UNCHANGED <<connections, open, ctx, identifier, checkVars, redisVars,
                 stopVars>>

\* getConnection, the wait's predicate is true because of a connection.
Take(w) ==
  /\ pc[w] = "enter" /\ MutexFree
  /\ ~b_stop /\ connections # <<>>
  /\ ctx' = [ctx EXCEPT ![w] = Head(connections)]
  /\ connections' = Tail(connections)
  /\ pc' = [pc EXCEPT ![w] = "has"]
  /\ UNCHANGED <<open, op, identifier, calls, checkVars, redisVars, stopVars>>

\* getConnection returns nullptr, and the call false or "".
Stopped(w) ==
  /\ pc[w] = "enter" /\ MutexFree /\ b_stop
  /\ pc' = [pc EXCEPT ![w] = "out"]
  /\ op' = [op EXCEPT ![w] = "command"]
  /\ UNCHANGED <<connections, open, ctx, identifier, calls, checkVars,
                 redisVars, stopVars>>

\* The predicate is false; the thread will sleep.
TestFails(w) ==
  /\ pc[w] = "enter" /\ MutexFree
  /\ ~b_stop /\ connections = <<>>
  /\ pc' = [pc EXCEPT ![w] = "tested"]
  /\ UNCHANGED <<connections, open, op, ctx, identifier, calls, checkVars,
                 redisVars, stopVars>>

Sleep(w) ==
  /\ pc[w] = "tested"
  /\ pc' = [pc EXCEPT ![w] = "asleep"]
  /\ UNCHANGED <<connections, open, op, ctx, identifier, calls, checkVars,
                 redisVars, stopVars>>

\* A condition variable may wake a thread without being notified.
SpuriousWakeup(w) ==
  /\ pc[w] = "asleep"
  /\ pc' = [pc EXCEPT ![w] = "enter"]
  /\ UNCHANGED <<connections, open, op, ctx, identifier, calls, checkVars,
                 redisVars, stopVars>>

\* A plain command: it answers, or reply is NULL on a broken connection.
Command(w) ==
  /\ pc[w] = "has" /\ op[w] = "command"
  /\ pc' = [pc EXCEPT ![w] = "back"]
  /\ UNCHANGED <<connections, open, op, ctx, identifier, calls, checkVars,
                 redisVars, stopVars>>

\* SET NX EX succeeds.
acquireLock(w) ==
  /\ pc[w] = "has" /\ op[w] = "acquire"
  /\ ctx[w] \notin broken /\ lock = Nil
  /\ lock' = w
  /\ identifier' = [identifier EXCEPT ![w] = TRUE]
  /\ pc' = [pc EXCEPT ![w] = "back"]
  /\ UNCHANGED <<connections, open, op, ctx, calls, checkVars, up, broken,
                 outages, stopVars>>

\* Mutant: a broken connection ends the loop, the lock is waited for forever.
AcquireTimesOut_OnlyBroken(w) ==
  /\ pc[w] = "has" /\ op[w] = "acquire" /\ ctx[w] \in broken
  /\ pc' = [pc EXCEPT ![w] = "back"]
  /\ UNCHANGED <<connections, open, op, ctx, identifier, calls, checkVars,
                 redisVars, stopVars>>

\* The loop has tried for acquireTimeout; a loop that goes on is no step.
AcquireTimesOut(w) ==
  /\ pc[w] = "has" /\ op[w] = "acquire"
  /\ pc' = [pc EXCEPT ![w] = "back"]
  /\ UNCHANGED <<connections, open, op, ctx, identifier, calls, checkVars,
                 redisVars, stopVars>>

\* The script deletes the key if it still holds the identifier.
releaseLock(w) ==
  /\ pc[w] = "has" /\ op[w] = "release"
  /\ lock' = IF ctx[w] \notin broken /\ lock = w THEN Nil ELSE lock
  /\ identifier' = [identifier EXCEPT ![w] = FALSE]
  /\ pc' = [pc EXCEPT ![w] = "back"]
  /\ UNCHANGED <<connections, open, op, ctx, calls, checkVars, up, broken,
                 outages, stopVars>>

\* The end of every call: the connection goes back, broken or not.
GiveBack(w) ==
  /\ pc[w] = "back"
  /\ returnConnection(ctx[w], [pc EXCEPT ![w] = "out"])
  /\ ctx' = [ctx EXCEPT ![w] = Nil]
  /\ op' = [op EXCEPT ![w] = "command"]
  /\ UNCHANGED <<open, identifier, calls, checkVars, redisVars, stopVars>>
-----------------------------------------------------------------------------
(* check_thread_, every 60 rounds of one second.                           *)

\* pool_size is read, and the mutex let go.
CheckStarts ==
  /\ check = "sleep" /\ ~b_stop /\ MutexFree
  /\ check' = "scan" /\ left' = Len(connections)
  /\ UNCHANGED <<connections, open, callVars, checked, fail_count, redisVars,
                 stopVars>>

\* Mutant: the loop counts one too many.
CheckTakes_OneMore ==
  /\ check = "scan" /\ MutexFree
  /\ ~b_stop /\ connections # <<>>
  /\ check' = "ping" /\ left' = left - 1
  /\ checked' = Head(connections) /\ connections' = Tail(connections)
  /\ UNCHANGED <<open, callVars, fail_count, redisVars, stopVars>>

\* getConNonBlock finds a connection.
CheckTakes ==
  /\ check = "scan" /\ MutexFree
  /\ left > 0 /\ ~b_stop /\ connections # <<>>
  /\ check' = "ping" /\ left' = left - 1
  /\ checked' = Head(connections) /\ connections' = Tail(connections)
  /\ UNCHANGED <<open, callVars, fail_count, redisVars, stopVars>>

\* The loop is over, or getConNonBlock returns nullptr.
ScanEnds ==
  /\ check = "scan" /\ MutexFree
  /\ left = 0 \/ b_stop \/ connections = <<>>
  /\ check' = "repair" /\ left' = 0
  /\ UNCHANGED <<connections, open, callVars, checked, fail_count, redisVars,
                 stopVars>>

PingAnswered ==
  /\ check = "ping" /\ checked \notin broken
  /\ returnConnection(checked, pc)
  /\ check' = "scan" /\ checked' = Nil
  /\ UNCHANGED <<open, op, ctx, identifier, calls, left, fail_count,
                 redisVars, stopVars>>

\* redisFree; the connection will be opened anew.
PingFails ==
  /\ check = "ping" /\ checked \in broken
  /\ open' = open \ {checked} /\ broken' = broken \ {checked}
  /\ fail_count' = fail_count + 1
  /\ check' = "scan" /\ checked' = Nil
  /\ UNCHANGED <<connections, callVars, left, up, lock, outages, stopVars>>

\* reconnect succeeds: a new connection, in the place of one that was freed.
Reconnect ==
  /\ check = "repair" /\ fail_count > 0 /\ up
  /\ \E c \in Conns \ open :
       open' = open \cup {c} /\ returnConnection(c, pc)
  /\ fail_count' = fail_count - 1
  /\ UNCHANGED <<op, ctx, identifier, calls, check, left, checked, redisVars,
                 stopVars>>

\* Mutant: the failures of this check are forgotten.
RepairEnds_Forgets ==
  /\ check = "repair" /\ (fail_count = 0 \/ ~up)
  /\ check' = "sleep" /\ fail_count' = 0
  /\ UNCHANGED <<connections, open, callVars, left, checked, redisVars,
                 stopVars>>

\* reconnect fails and is left to the next check, or there is nothing to do.
RepairEnds ==
  /\ check = "repair" /\ (fail_count = 0 \/ ~up)
  /\ check' = "sleep"
  /\ UNCHANGED <<connections, open, callVars, left, checked, fail_count,
                 redisVars, stopVars>>

CheckEnds ==
  /\ check = "sleep" /\ b_stop
  /\ check' = "ended"
  /\ UNCHANGED <<connections, open, callVars, left, checked, fail_count,
                 redisVars, stopVars>>
-----------------------------------------------------------------------------
(* RedisMgr::Close.                                                        *)

SetStop ==
  /\ closing = "no"
  /\ b_stop' = TRUE /\ closing' = "flagged"
  /\ UNCHANGED <<connections, open, callVars, checkVars, redisVars>>

NotifyAll ==
  /\ closing = "flagged"
  /\ pc' = [w \in Workers |-> IF pc[w] = "asleep" THEN "enter" ELSE pc[w]]
  /\ closing' = "told"
  /\ UNCHANGED <<connections, open, op, ctx, identifier, calls, checkVars,
                 redisVars, b_stop>>

Join ==
  /\ closing = "told" /\ check = "ended"
  /\ closing' = "joined"
  /\ UNCHANGED <<connections, open, callVars, checkVars, redisVars, b_stop>>

ClearConnections ==
  /\ closing = "joined" /\ MutexFree
  /\ open' = {c \in open : \A i \in DOMAIN connections : connections[i] # c}
  /\ broken' = broken \cap open'
  /\ connections' = <<>> /\ closing' = "closed"
  /\ UNCHANGED <<callVars, checkVars, up, lock, outages, b_stop>>
-----------------------------------------------------------------------------
(* Redis.                                                                  *)

\* Every connection breaks; the keys may or may not survive the restart.
GoesDown ==
  /\ up /\ outages < MaxOutages
  /\ up' = FALSE /\ outages' = outages + 1
  /\ broken' = open
  /\ lock' \in {lock, Nil}
  /\ UNCHANGED <<connections, open, callVars, checkVars, stopVars>>

ComesBack ==
  /\ ~up /\ up' = TRUE
  /\ UNCHANGED <<connections, open, callVars, checkVars, broken, lock,
                 outages, stopVars>>

LockExpires ==
  /\ lock # Nil /\ lock' = Nil
  /\ UNCHANGED <<connections, open, callVars, checkVars, up, broken, outages,
                 stopVars>>
-----------------------------------------------------------------------------
\* What a thread does by itself once it has called.
CallStep(w) ==
  \/ Take(w) \/ Stopped(w) \/ TestFails(w) \/ Sleep(w)
  \/ Command(w) \/ acquireLock(w) \/ AcquireTimesOut(w) \/ releaseLock(w)
  \/ GiveBack(w)

CheckStep ==
  \/ CheckStarts \/ CheckTakes \/ ScanEnds \/ PingAnswered \/ PingFails
  \/ Reconnect \/ RepairEnds \/ CheckEnds

CloseStep == NotifyAll \/ Join \/ ClearConnections

Next ==
  \/ \E w \in Workers : \E o \in {"command", "acquire", "release"} : Call(w, o)
  \/ \E w \in Workers : CallStep(w) \/ SpuriousWakeup(w)
  \/ CheckStep \/ SetStop \/ CloseStep
  \/ GoesDown \/ ComesBack \/ LockExpires

Spec == Init /\ [][Next]_vars

(* The mutex is fair to the threads and to the check: a thread that finds  *)
(* it free again and again gets it, and one that is awake while there is a *)
(* connection again and again takes one (the check that may overtake it    *)
(* sleeps 60 s between its rounds).  A command on an open connection       *)
(* returns, the loop of acquireLock looks at the clock, and Close goes on. *)
(* Nothing is assumed of Redis, of the lock's expiry, of spurious wake-ups *)
(* or of the callers.                                                      *)
FairSpec ==
  /\ Spec
  /\ \A w \in Workers : SF_vars(CallStep(w)) /\ SF_vars(Take(w))
  /\ SF_vars(CheckStep) /\ SF_vars(CloseStep)
-----------------------------------------------------------------------------
(* Properties                                                              *)

\* The variables have the values their declarations in the code allow.
TypeOK ==
  /\ connections \in Seq(Conns)
  /\ pc \in [Workers -> {"out", "enter", "tested", "asleep", "has", "back"}]
  /\ op \in [Workers -> {"command", "acquire", "release"}]
  /\ ctx \in [Workers -> Conns \cup {Nil}]
  /\ \A w \in Workers : ctx[w] # Nil <=> pc[w] \in {"has", "back"}
  /\ identifier \in [Workers -> BOOLEAN]
  /\ check \in {"sleep", "scan", "ping", "repair", "ended"}
  /\ left \in Nat /\ checked \in Conns \cup {Nil} /\ fail_count \in Nat
  /\ checked # Nil <=> check = "ping"
  /\ b_stop \in BOOLEAN
  /\ closing \in {"no", "flagged", "told", "joined", "closed"}
  /\ closing = "no" <=> ~b_stop
  /\ up \in BOOLEAN /\ open \subseteq Conns /\ broken \subseteq open
  /\ lock \in Workers \cup {Nil}
  /\ calls \in 0 .. MaxCalls /\ outages \in 0 .. MaxOutages

\* The connections somebody holds, and the idle ones.
Held == ({ctx[w] : w \in Workers} \cup {checked}) \ {Nil}
Idle == {connections[i] : i \in DOMAIN connections}

\* No connection is with two threads, or with a thread and idle, and none that
\* is idle or held was freed: hiredis contexts are not safe to share, and the
\* pool frees them in the check and in Close while threads go on.
OneOwner ==
  /\ \A i, j \in DOMAIN connections : connections[i] = connections[j] => i = j
  /\ \A v, w \in Workers : ctx[v] = ctx[w] /\ ctx[v] # Nil => v = w
  /\ \A w \in Workers : ctx[w] # Nil => ctx[w] # checked
  /\ Idle \cap Held = {}
  /\ Idle \cup Held \subseteq open

\* While the pool runs, no connection is lost: whatever the check found broken
\* and freed is counted in fail_count_ until it has been opened again, and an
\* open connection is idle or held.
NoneLost ==
  ~b_stop => /\ open = Idle \cup Held
             /\ fail_count = Cardinality(Conns \ open)

\* Nobody sleeps beside a connection: while the pool runs and a thread is
\* asleep in getConnection, every idle connection has a thread that is awake
\* and on its way to it, although the check takes connections without waiting
\* and puts them back, and newcomers overtake the threads that were notified.
NoLostWakeup ==
  ~b_stop /\ Asleep # {} => Len(connections) <= Cardinality(Awake)

\* The pool's invariant.
PoolInv == OneOwner /\ NoneLost /\ NoLostWakeup

\* Every call ends unless the pool is stopped or Redis stays down: a thread
\* that waits for a connection while the others spin on a lock whose holder is
\* waiting too gets its turn, because acquireLock gives its connection back
\* after acquireTimeout.  This does not need the lock to expire.  (In an outage
\* the check frees the connections and getConnection waits without a limit;
\* after Close a thread may be left asleep, see Sleep.)
CallsEnd ==
  \A w \in Workers : pc[w] # "out" ~> (pc[w] = "out" \/ b_stop \/ ~up)

\* The pool gets over an outage: once Redis stays up, and the callers stop
\* calling (MaxCalls), the check replaces every connection that broke, unless
\* the pool is stopped.
Recovers ==
  (<>[]up /\ []~b_stop) => <>[](broken = {} /\ open = Conns)
=============================================================================
