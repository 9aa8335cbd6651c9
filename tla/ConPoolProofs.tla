---------------------------- MODULE ConPoolProofs ----------------------------
(***************************************************************************)
(* Proofs about ConPool, for every number of threads, connections, calls   *)
(* and outages: its type, and the pool's invariant PoolInv.  PoolInv needs *)
(* one fact more to be inductive, that nothing is pushed between a         *)
(* thread's last test and its falling asleep (TestedEmpty).                *)
(***************************************************************************)
EXTENDS ConPool, FiniteSetTheorems, SequenceTheorems, TLAPS

States == {"out", "enter", "tested", "asleep", "has", "back"}

\* A thread that is about to sleep has found no connection, and holds the mutex.
TestedEmpty == \A w \in Workers : pc[w] = "tested" => connections = <<>>

PoolIInv == TypeOK /\ PoolInv /\ TestedEmpty
-----------------------------------------------------------------------------
(* Type                                                                    *)

LEMMA InitType == Init => TypeOK
<1> SUFFICES ASSUME Init PROVE TypeOK
  OBVIOUS
<1>1. Cardinality(Conns) \in Nat
  BY ConPoolAssumption, FS_CardinalityType
<1>2. connections \in Seq(Conns)
  BY <1>1 DEF Init
<1>3. calls \in 0 .. MaxCalls /\ outages \in 0 .. MaxOutages
        /\ left \in Nat /\ fail_count \in Nat
  BY ConPoolAssumption DEF Init
<1>4. /\ pc = [w \in Workers |-> "out"] /\ ctx = [w \in Workers |-> Nil]
      /\ op = [w \in Workers |-> "command"]
      /\ identifier = [w \in Workers |-> FALSE]
      /\ check = "sleep" /\ checked = Nil /\ b_stop = FALSE /\ closing = "no"
      /\ up = TRUE /\ open = Conns /\ broken = {} /\ lock = Nil
  BY DEF Init
<1> QED BY <1>2, <1>3, <1>4 DEF TypeOK

\* What giving back does to pc, in the types.
LEMMA ReturnType ==
  ASSUME TypeOK, NEW c \in Conns, NEW p \in [Workers -> States],
         returnConnection(c, p)
  PROVE  /\ connections' \in Seq(Conns)
         /\ pc' \in [Workers -> States]
         /\ \A w \in Workers :
              pc'[w] = p[w] \/ (pc[w] = "asleep" /\ pc'[w] = "enter")
<1>1. connections' \in Seq(Conns)
  BY DEF returnConnection, TypeOK
<1>2. pc' = p \/ \E w \in Asleep : pc' = [p EXCEPT ![w] = "enter"]
  BY DEF returnConnection, NotifyOne
<1> QED BY <1>1, <1>2 DEF Asleep, States

LEMMA CallType ==
  ASSUME TypeOK, NEW w \in Workers,
         \/ \E o \in {"command", "acquire", "release"} : Call(w, o)
         \/ CallStep(w) \/ SpuriousWakeup(w)
  PROVE  TypeOK'
<1> USE DEF TypeOK, callVars, checkVars, redisVars, stopVars
<1>1. ASSUME NEW o \in {"command", "acquire", "release"}, Call(w, o)
      PROVE  TypeOK'
  BY <1>1, ConPoolAssumption DEF Call
<1>2. CASE Take(w)
  BY <1>2, ConPoolAssumption DEF Take
<1>3. CASE Stopped(w) \/ TestFails(w) \/ Sleep(w) \/ SpuriousWakeup(w)
  BY <1>3 DEF Stopped, TestFails, Sleep, SpuriousWakeup
<1>4. CASE Command(w) \/ AcquireTimesOut(w)
  BY <1>4 DEF Command, AcquireTimesOut
<1>6. CASE acquireLock(w)
  BY <1>6 DEF acquireLock
<1>7. CASE releaseLock(w)
  BY <1>7 DEF releaseLock
<1>5. CASE GiveBack(w)
  <2> DEFINE p == [pc EXCEPT ![w] = "out"]
  <2>1. ctx[w] \in Conns /\ p \in [Workers -> States]
    BY <1>5 DEF GiveBack, States
  <2>2. returnConnection(ctx[w], p)
    BY <1>5 DEF GiveBack
  <2> HIDE DEF p
  <2>3. /\ connections' \in Seq(Conns)
        /\ pc' \in [Workers -> States]
        /\ \A v \in Workers :
             pc'[v] = p[v] \/ (pc[v] = "asleep" /\ pc'[v] = "enter")
    BY <2>1, <2>2, ReturnType
  <2> QED BY <1>5, <2>3, ConPoolAssumption DEF GiveBack, States, p
<1> QED BY <1>1, <1>2, <1>3, <1>4, <1>5, <1>6, <1>7 DEF CallStep

LEMMA CheckType == TypeOK /\ CheckStep => TypeOK'
<1> SUFFICES ASSUME TypeOK, CheckStep PROVE TypeOK'
  OBVIOUS
<1> USE DEF TypeOK, callVars, checkVars, redisVars, stopVars
<1>0. pc \in [Workers -> States]
  BY DEF States
<1>1. CASE CheckStarts
  BY <1>1 DEF CheckStarts
<1>2. CASE CheckTakes
  BY <1>2, ConPoolAssumption DEF CheckTakes
<1>3. CASE ScanEnds \/ RepairEnds \/ CheckEnds
  BY <1>3 DEF ScanEnds, RepairEnds, CheckEnds
<1>4. CASE PingAnswered
  <2>1. checked \in Conns /\ returnConnection(checked, pc)
    BY <1>4 DEF PingAnswered
  <2>2. /\ connections' \in Seq(Conns)
        /\ pc' \in [Workers -> States]
        /\ \A v \in Workers :
             pc'[v] = pc[v] \/ (pc[v] = "asleep" /\ pc'[v] = "enter")
    BY <1>0, <2>1, ReturnType
  <2> QED BY <1>4, <2>2 DEF PingAnswered, States
<1>5. CASE PingFails
  BY <1>5 DEF PingFails
<1>6. CASE Reconnect
  <2>1. PICK c \in Conns \ open :
          open' = open \cup {c} /\ returnConnection(c, pc)
    BY <1>6 DEF Reconnect
  <2>2. /\ connections' \in Seq(Conns)
        /\ pc' \in [Workers -> States]
        /\ \A v \in Workers :
             pc'[v] = pc[v] \/ (pc[v] = "asleep" /\ pc'[v] = "enter")
    BY <1>0, <2>1, ReturnType
  <2> QED BY <1>6, <2>1, <2>2 DEF Reconnect, States
<1> QED BY <1>1, <1>2, <1>3, <1>4, <1>5, <1>6 DEF CheckStep

LEMMA NextType == TypeOK /\ [Next]_vars => TypeOK'
<1> SUFFICES ASSUME TypeOK, [Next]_vars PROVE TypeOK'
  OBVIOUS
<1> USE DEF TypeOK, callVars, checkVars, redisVars, stopVars
<1>1. CASE SetStop \/ NotifyAll \/ Join
  BY <1>1 DEF SetStop, NotifyAll, Join
<1>2. CASE ClearConnections
  BY <1>2 DEF ClearConnections
<1>3. CASE GoesDown
  <2>1. outages' \in 0 .. MaxOutages
    BY <1>3, ConPoolAssumption DEF GoesDown
  <2> QED BY <1>3, <2>1 DEF GoesDown
<1>5. CASE ComesBack
  BY <1>5 DEF ComesBack
<1>6. CASE LockExpires
  BY <1>6 DEF LockExpires
<1>4. CASE UNCHANGED vars
  BY <1>4 DEF vars
<1> QED BY <1>1, <1>2, <1>3, <1>4, <1>5, <1>6, CallType, CheckType DEF Next, CloseStep
-----------------------------------------------------------------------------
(* Wake-ups                                                                *)

\* A worker that leaves or joins those on their way to a connection.
LEMMA AwakeFinite ==
  ASSUME NEW S \in SUBSET Workers, NEW w \in Workers
  PROVE  /\ IsFiniteSet(S) /\ Cardinality(S) \in Nat
         /\ w \in S => Cardinality(S \ {w}) = Cardinality(S) - 1
         /\ w \notin S => Cardinality(S \cup {w}) = Cardinality(S) + 1
<1>1. IsFiniteSet(S)
  BY ConPoolAssumption, FS_Subset
<1> QED BY <1>1, FS_CardinalityType, FS_AddElement, FS_RemoveElement

\* Pushing a connection wakes a thread, if one is asleep.
LEMMA ReturnWakes ==
  ASSUME TypeOK, NoLostWakeup, NEW c \in Conns,
         NEW p \in [Workers -> States], returnConnection(c, p), b_stop' = b_stop,
         \A w \in Workers : p[w] # pc[w] => pc[w] = "back" /\ p[w] = "out"
  PROVE  NoLostWakeup'
<1> SUFFICES ASSUME ~b_stop, Asleep' # {}
             PROVE  Len(connections') <= Cardinality(Awake')
  BY DEF NoLostWakeup
<1>1. connections' = Append(connections, c) /\ NotifyOne(p)
  BY DEF returnConnection
<1>2. Asleep # {}
  BY <1>1 DEF NotifyOne, Asleep, States
<1>3. PICK w \in Asleep : pc' = [p EXCEPT ![w] = "enter"]
  BY <1>1, <1>2 DEF NotifyOne
<1>4. Awake' = Awake \cup {w} /\ w \notin Awake /\ w \in Workers
  BY <1>3 DEF Awake, Asleep, TypeOK, States
<1>5. Cardinality(Awake') = Cardinality(Awake) + 1 /\ Cardinality(Awake) \in Nat
  BY <1>4, AwakeFinite DEF Awake
<1>6. Len(connections) <= Cardinality(Awake)
  BY <1>2 DEF NoLostWakeup
<1>7. Len(connections') = Len(connections) + 1 /\ Len(connections) \in Nat
  BY <1>1 DEF TypeOK
<1> QED BY <1>5, <1>6, <1>7

LEMMA NextWakes ==
  TypeOK /\ NoLostWakeup /\ TestedEmpty /\ [Next]_vars => NoLostWakeup'
<1> SUFFICES ASSUME TypeOK, NoLostWakeup, TestedEmpty, [Next]_vars
             PROVE  NoLostWakeup'
  OBVIOUS
<1> USE DEF callVars, checkVars, redisVars, stopVars
<1>0. pc \in [Workers -> States] /\ Awake \in SUBSET Workers
      /\ Len(connections) \in Nat
  BY DEF TypeOK, States, Awake
<1>1. ASSUME NEW w \in Workers, pc[w] \in {"out", "asleep"},
             pc' = [pc EXCEPT ![w] = "enter"], UNCHANGED <<connections, b_stop>>
      PROVE  NoLostWakeup'
  <2>1. Awake' = Awake \cup {w} /\ w \notin Awake
        /\ (Asleep' # {} => Asleep # {})
    BY <1>0, <1>1 DEF Awake, Asleep
  <2> QED BY <1>0, <1>1, <2>1, AwakeFinite DEF NoLostWakeup
<1>2. ASSUME NEW w \in Workers, Take(w) PROVE NoLostWakeup'
  <2>1. Awake' = Awake \ {w} /\ w \in Awake /\ Asleep' = Asleep
    BY <1>0, <1>2 DEF Take, Awake, Asleep
  <2>2. Len(connections') = Len(connections) - 1
    BY <1>2 DEF Take, TypeOK
  <2>3. Cardinality(Awake') = Cardinality(Awake) - 1 /\ Cardinality(Awake) \in Nat
    BY <1>0, <2>1, AwakeFinite
  <2> QED BY <1>0, <1>2, <2>1, <2>2, <2>3 DEF NoLostWakeup, Take
<1>3. ASSUME NEW w \in Workers, Stopped(w) PROVE NoLostWakeup'
  BY <1>3 DEF Stopped, NoLostWakeup
<1>4. ASSUME NEW w \in Workers, TestFails(w) \/ Sleep(w) PROVE NoLostWakeup'
  <2>1. connections' = <<>>
    BY <1>4 DEF TestFails, Sleep, TestedEmpty
  <2>2. Awake' \in SUBSET Workers
    BY DEF Awake
  <2>3. Cardinality(Awake') \in Nat
    BY <1>4, <2>2, AwakeFinite
  <2> QED BY <2>1, <2>3 DEF NoLostWakeup
<1>5. ASSUME NEW w \in Workers, pc[w] = "has", pc' = [pc EXCEPT ![w] = "back"],
             UNCHANGED <<connections, b_stop>>
      PROVE  NoLostWakeup'
  <2>1. Awake' = Awake /\ Asleep' = Asleep
    BY <1>0, <1>5 DEF Awake, Asleep
  <2> QED BY <1>5, <2>1 DEF NoLostWakeup
<1>6. ASSUME NEW w \in Workers, GiveBack(w) PROVE NoLostWakeup'
  <2> DEFINE p == [pc EXCEPT ![w] = "out"]
  <2>1. /\ returnConnection(ctx[w], p) /\ b_stop' = b_stop
        /\ ctx[w] \in Conns /\ p \in [Workers -> States]
        /\ \A v \in Workers : p[v] # pc[v] => pc[v] = "back" /\ p[v] = "out"
    BY <1>0, <1>6 DEF GiveBack, TypeOK, States
  <2> QED BY <2>1, ReturnWakes
<1>7. CASE PingAnswered \/ Reconnect
  <2>1. PICK c \in Conns : returnConnection(c, pc)
    BY <1>7 DEF PingAnswered, Reconnect, TypeOK
  <2>2. b_stop' = b_stop
    BY <1>7 DEF PingAnswered, Reconnect
  <2> QED BY <1>0, <2>1, <2>2, ReturnWakes
<1>8. CASE CheckTakes
  <2>1. Len(connections') = Len(connections) - 1
    BY <1>8 DEF CheckTakes, TypeOK
  <2>2. Awake' = Awake /\ Asleep' = Asleep /\ b_stop' = b_stop
    BY <1>8 DEF CheckTakes, Awake, Asleep
  <2>3. ASSUME NEW w \in Workers PROVE Cardinality(Awake) \in Nat
    BY <1>0, AwakeFinite
  <2>4. Asleep # {} => \E w \in Workers : TRUE
    BY DEF Asleep
  <2> QED BY <1>0, <2>1, <2>2, <2>3, <2>4 DEF NoLostWakeup
<1>9. CASE SetStop \/ NotifyAll \/ Join \/ ClearConnections
  BY <1>9 DEF SetStop, NotifyAll, Join, ClearConnections, NoLostWakeup, TypeOK
<1>10. ASSUME UNCHANGED <<connections, pc, b_stop>> PROVE NoLostWakeup'
  BY <1>10 DEF NoLostWakeup, Awake, Asleep
<1>11. CASE \/ CheckStarts \/ ScanEnds \/ PingFails \/ RepairEnds \/ CheckEnds
            \/ GoesDown \/ ComesBack \/ LockExpires \/ UNCHANGED vars
  BY <1>10, <1>11 DEF CheckStarts, ScanEnds, PingFails, RepairEnds, CheckEnds,
                      GoesDown, ComesBack, LockExpires, vars
<1>12. ASSUME NEW w \in Workers, NEW o \in {"command", "acquire", "release"},
              Call(w, o)
       PROVE  NoLostWakeup'
  BY <1>1, <1>12 DEF Call
<1>13. ASSUME NEW w \in Workers, SpuriousWakeup(w) PROVE NoLostWakeup'
  BY <1>1, <1>13 DEF SpuriousWakeup
<1>14. ASSUME NEW w \in Workers,
              Command(w) \/ acquireLock(w) \/ AcquireTimesOut(w) \/ releaseLock(w)
       PROVE  NoLostWakeup'
  BY <1>5, <1>14 DEF Command, acquireLock, AcquireTimesOut, releaseLock
<1> QED BY <1>2, <1>3, <1>4, <1>6, <1>7, <1>8, <1>9, <1>11, <1>12, <1>13, <1>14
        DEF Next, CallStep, CheckStep, CloseStep
-----------------------------------------------------------------------------
(* Between the test and the wait                                           *)

LEMMA NextTested == TypeOK /\ TestedEmpty /\ [Next]_vars => TestedEmpty'
<1> SUFFICES ASSUME TypeOK, TestedEmpty, [Next]_vars,
                    NEW v \in Workers, pc'[v] = "tested"
             PROVE  connections' = <<>>
  BY DEF TestedEmpty
<1> USE DEF callVars, checkVars, redisVars, stopVars
<1>0. pc \in [Workers -> States] /\ ctx \in [Workers -> Conns \cup {Nil}]
  BY DEF TypeOK, States
<1>1. ASSUME NEW w \in Workers,
             \/ \E o \in {"command", "acquire", "release"} : Call(w, o)
             \/ Stopped(w) \/ TestFails(w) \/ Sleep(w) \/ SpuriousWakeup(w)
             \/ Command(w) \/ acquireLock(w) \/ AcquireTimesOut(w)
             \/ releaseLock(w)
      PROVE  connections' = <<>>
  BY <1>0, <1>1
     DEF Call, Stopped, TestFails, Sleep, SpuriousWakeup, Command, acquireLock,
         AcquireTimesOut, releaseLock, TestedEmpty
<1>2. ASSUME NEW w \in Workers, Take(w) PROVE FALSE
  BY <1>0, <1>2 DEF Take, MutexFree
<1>3. ASSUME MutexFree, NEW c, NEW p \in [Workers -> States],
             returnConnection(c, p),
             \A w \in Workers : p[w] # pc[w] => p[w] = "out"
      PROVE  FALSE
  BY <1>0, <1>3 DEF returnConnection, NotifyOne, MutexFree
<1>4. ASSUME NEW w \in Workers, GiveBack(w) PROVE FALSE
  <2>1. [pc EXCEPT ![w] = "out"] \in [Workers -> States]
    BY <1>0 DEF States
  <2>2. MutexFree /\ returnConnection(ctx[w], [pc EXCEPT ![w] = "out"])
    BY <1>4 DEF GiveBack, returnConnection
  <2> QED BY <1>0, <1>3, <2>1, <2>2
<1>5. CASE PingAnswered \/ Reconnect
  <2>1. PICK c : returnConnection(c, pc) /\ MutexFree
    BY <1>5 DEF PingAnswered, Reconnect, returnConnection
  <2> QED BY <1>0, <1>3, <2>1
<1>6. CASE CheckStarts \/ CheckTakes \/ ScanEnds
  BY <1>6 DEF CheckStarts, CheckTakes, ScanEnds, MutexFree
<1>7. CASE \/ PingFails \/ RepairEnds \/ CheckEnds \/ SetStop \/ Join
           \/ GoesDown \/ ComesBack \/ LockExpires \/ UNCHANGED vars
  BY <1>7 DEF PingFails, RepairEnds, CheckEnds, SetStop, Join, GoesDown,
              ComesBack, LockExpires, vars, TestedEmpty
<1>8. CASE NotifyAll
  BY <1>0, <1>8 DEF NotifyAll, TestedEmpty
<1>9. CASE ClearConnections
  BY <1>9 DEF ClearConnections
<1> QED BY <1>1, <1>2, <1>4, <1>5, <1>6, <1>7, <1>8, <1>9
        DEF Next, CallStep, CheckStep, CloseStep
-----------------------------------------------------------------------------
(* Who has a connection                                                    *)

\* The connections of a sequence, each there once.
Elems(s) == {s[i] : i \in DOMAIN s}
Distinct(s) == \A i, j \in DOMAIN s : s[i] = s[j] => i = j

LEMMA TakeHead ==
  ASSUME NEW s \in Seq(Conns), s # <<>>, Distinct(s)
  PROVE  /\ Head(s) \in Elems(s) /\ Distinct(Tail(s))
         /\ Elems(Tail(s)) = Elems(s) \ {Head(s)}
<1> DEFINE n == Len(s)
<1>1. /\ n \in Nat \ {0} /\ DOMAIN s = 1 .. n /\ Head(s) = s[1]
      /\ Tail(s) \in Seq(Conns) /\ DOMAIN Tail(s) = 1 .. n - 1
      /\ \A i \in 1 .. n - 1 : Tail(s)[i] = s[i + 1]
  BY HeadTailProperties
<1> HIDE DEF n
<1>2. Distinct(Tail(s)) /\ Head(s) \in Elems(s) /\ Elems(Tail(s)) \subseteq Elems(s)
  BY <1>1 DEF Distinct, Elems
<1>3. Head(s) \notin Elems(Tail(s))
  BY <1>1 DEF Distinct, Elems
<1>4. ASSUME NEW c \in Elems(s), c # Head(s) PROVE c \in Elems(Tail(s))
  <2>1. PICK i \in 1 .. n : s[i] = c
    BY <1>1 DEF Elems
  <2>2. i - 1 \in 1 .. n - 1 /\ Tail(s)[i - 1] = c
    BY <1>1, <1>4, <2>1
  <2> QED BY <1>1, <2>2 DEF Elems
<1> QED BY <1>2, <1>3, <1>4

LEMMA PushBack ==
  ASSUME NEW s \in Seq(Conns), NEW c \in Conns, c \notin Elems(s), Distinct(s)
  PROVE  /\ Distinct(Append(s, c))
         /\ Elems(Append(s, c)) = Elems(s) \cup {c}
<1> DEFINE n == Len(s)
<1>1. /\ n \in Nat /\ DOMAIN s = 1 .. n /\ DOMAIN Append(s, c) = 1 .. n + 1
      /\ Append(s, c)[n + 1] = c
      /\ \A i \in 1 .. n : Append(s, c)[i] = s[i]
  BY AppendProperties
<1> HIDE DEF n
<1>2. Elems(Append(s, c)) = Elems(s) \cup {c}
  BY <1>1 DEF Elems
<1>3. Distinct(Append(s, c))
  BY <1>1 DEF Distinct, Elems
<1> QED BY <1>2, <1>3

\* A step of a thread.
LEMMA CallOwned ==
  ASSUME TypeOK, OneOwner, NEW w \in Workers, CallStep(w)
  PROVE  OneOwner' /\ (~b_stop => Idle' \cup Held' = Idle \cup Held)
<1> USE DEF callVars, checkVars, redisVars, stopVars
<1>0. /\ ctx \in [Workers -> Conns \cup {Nil}] /\ connections \in Seq(Conns)
      /\ \A v \in Workers : ctx[v] # Nil <=> pc[v] \in {"has", "back"}
      /\ Nil \notin Conns
  BY ConPoolAssumption DEF TypeOK
<1>1. CASE Take(w)
  <2>1. /\ Head(connections) \in Elems(connections)
        /\ Distinct(connections') /\ ctx[w] = Nil
        /\ Elems(connections') = Elems(connections) \ {Head(connections)}
        /\ ctx' = [ctx EXCEPT ![w] = Head(connections)]
        /\ UNCHANGED <<open, checked>>
    BY <1>0, <1>1, TakeHead DEF Take, OneOwner, Distinct
  <2>2. Head(connections) \in Conns
    BY <1>0, <1>1 DEF Take
  <2> DEFINE h == Head(connections)
  <2> HIDE DEF h
  <2>3. Held' = Held \cup {h} /\ h \notin Held
    BY <1>0, <2>1, <2>2 DEF Held, h, OneOwner, Idle, Elems
  <2>4. Idle' = Idle \ {h} /\ h \in Idle
    BY <2>1 DEF Idle, Elems, h
  <2>5. \A v \in Workers : ctx[v] # Nil => ctx[v] \in Held
    BY DEF Held
  <2>6. /\ \A u, v \in Workers : ctx'[u] = ctx'[v] /\ ctx'[u] # Nil => u = v
        /\ \A v \in Workers : ctx'[v] # Nil => ctx'[v] # checked'
    <3>1. h # checked
      BY <1>0, <2>2, <2>3 DEF Held, h
    <3>2. ctx' = [ctx EXCEPT ![w] = h]
      BY <2>1 DEF h
    <3> QED BY <1>0, <2>1, <2>3, <2>5, <3>1, <3>2 DEF OneOwner
  <2> QED BY <2>1, <2>3, <2>4, <2>6 DEF OneOwner, Distinct
<1>2. CASE GiveBack(w)
  <2> DEFINE c == ctx[w]
  <2>1. /\ c \in Conns /\ c \in Held /\ c \notin Idle
        /\ ctx' = [ctx EXCEPT ![w] = Nil] /\ UNCHANGED <<open, checked, b_stop>>
        /\ connections' = IF b_stop THEN connections ELSE Append(connections, c)
    BY <1>0, <1>2 DEF GiveBack, returnConnection, Held, OneOwner
  <2>2. Held' = Held \ {c}
    BY <1>0, <2>1 DEF Held, OneOwner
  <2>3. Distinct(connections') /\ Idle' = IF b_stop THEN Idle ELSE Idle \cup {c}
    BY <1>0, <2>1, PushBack DEF Idle, Elems, OneOwner, Distinct
  <2>4. /\ \A u, v \in Workers : ctx'[u] = ctx'[v] /\ ctx'[u] # Nil => u = v
        /\ \A v \in Workers : ctx'[v] # Nil => ctx'[v] # checked'
    BY <1>0, <2>1 DEF OneOwner
  <2>5. c \in open
    BY <2>1 DEF OneOwner
  <2> HIDE DEF c
  <2> QED BY <2>1, <2>2, <2>3, <2>4, <2>5 DEF OneOwner, Distinct
<1>3. CASE UNCHANGED <<connections, ctx, checked, open>>
  BY <1>3 DEF OneOwner, Idle, Held
<1> QED BY <1>1, <1>2, <1>3
        DEF CallStep, Stopped, TestFails, Sleep, Command, acquireLock,
            AcquireTimesOut, releaseLock

\* A step of the check.
LEMMA CheckOwned ==
  ASSUME TypeOK, OneOwner, NoneLost, CheckStep
  PROVE  OneOwner' /\ NoneLost'
<1> USE DEF callVars, checkVars, redisVars, stopVars
<1>0. /\ ctx \in [Workers -> Conns \cup {Nil}] /\ connections \in Seq(Conns)
      /\ checked \in Conns \cup {Nil} /\ fail_count \in Nat
      /\ checked # Nil <=> check = "ping"
      /\ open \subseteq Conns /\ Nil \notin Conns /\ IsFiniteSet(Conns)
  BY ConPoolAssumption DEF TypeOK
<1>6. IsFiniteSet(Conns \ open) /\ Cardinality(Conns \ open) \in Nat
  BY <1>0, FS_Subset, FS_CardinalityType
<1>1. CASE CheckTakes
  <2> DEFINE h == Head(connections)
  <2>1. connections # <<>> /\ Distinct(connections)
        /\ connections' = Tail(connections) /\ checked' = h /\ checked = Nil
        /\ UNCHANGED <<open, ctx, b_stop, fail_count>>
    BY <1>0, <1>1 DEF CheckTakes, OneOwner, Distinct
  <2>2. h \in Elems(connections) /\ Distinct(connections')
        /\ Elems(connections') = Elems(connections) \ {h}
    BY <1>0, <2>1, TakeHead
  <2>3. h \in Conns /\ h \in Idle /\ Idle' = Idle \ {h}
    <3>1. Idle = Elems(connections) /\ Idle' = Elems(connections')
      BY DEF Idle, Elems
    <3>2. h \in Conns
      BY <1>0, <2>1
    <3> QED BY <2>2, <3>1, <3>2
  <2> HIDE DEF h
  <2>4. Held' = Held \cup {h} /\ h \notin Held
    BY <1>0, <2>1, <2>3 DEF Held, OneOwner
  <2>5. \A w \in Workers : ctx[w] # Nil => ctx[w] \in Held
    BY DEF Held
  <2>6. /\ \A v, w \in Workers : ctx'[v] = ctx'[w] /\ ctx'[v] # Nil => v = w
        /\ \A w \in Workers : ctx'[w] # Nil => ctx'[w] # checked'
    BY <2>1, <2>3, <2>4, <2>5 DEF OneOwner
  <2> QED BY <2>1, <2>2, <2>3, <2>4, <2>6 DEF OneOwner, NoneLost, Distinct
<1>2. CASE PingAnswered
  <2> DEFINE c == checked
  <2>1. /\ c \in Conns /\ c \in Held /\ c \notin Idle /\ checked' = Nil
        /\ UNCHANGED <<open, ctx, b_stop, fail_count>>
        /\ connections' = IF b_stop THEN connections ELSE Append(connections, c)
    BY <1>0, <1>2 DEF PingAnswered, returnConnection, Held, OneOwner
  <2>2. Held' = Held \ {c}
    BY <1>0, <2>1 DEF Held, OneOwner
  <2>3. Distinct(connections') /\ Idle' = IF b_stop THEN Idle ELSE Idle \cup {c}
    BY <1>0, <2>1, PushBack DEF Idle, Elems, OneOwner, Distinct
  <2>4. /\ \A v, w \in Workers : ctx'[v] = ctx'[w] /\ ctx'[v] # Nil => v = w
        /\ \A w \in Workers : ctx'[w] # Nil => ctx'[w] # checked'
    BY <1>0, <2>1 DEF OneOwner
  <2> HIDE DEF c
  <2> QED BY <2>1, <2>2, <2>3, <2>4 DEF OneOwner, NoneLost, Distinct
<1>3. CASE PingFails
  <2> DEFINE c == checked
  <2>1. /\ c \in Conns /\ c \in Held /\ c \notin Idle /\ c \in open
        /\ checked' = Nil /\ open' = open \ {c} /\ fail_count' = fail_count + 1
        /\ UNCHANGED <<connections, ctx, b_stop>>
    BY <1>0, <1>3 DEF PingFails, Held, OneOwner
  <2>2. Held' = Held \ {c} /\ Idle' = Idle
    BY <1>0, <2>1 DEF Held, OneOwner, Idle
  <2>3. /\ \A v, w \in Workers : ctx'[v] = ctx'[w] /\ ctx'[v] # Nil => v = w
        /\ \A w \in Workers : ctx'[w] # Nil => ctx'[w] # checked'
    BY <1>0, <2>1 DEF OneOwner
  <2> HIDE DEF c
  <2>4. Conns \ open' = (Conns \ open) \cup {c} /\ c \notin Conns \ open
    BY <2>1
  <2>5. Cardinality(Conns \ open') = Cardinality(Conns \ open) + 1
    BY <1>6, <2>4, FS_AddElement
  <2> QED BY <2>1, <2>2, <2>3, <2>5 DEF OneOwner, NoneLost, Distinct
<1>4. CASE Reconnect
  <2>1. PICK c \in Conns \ open :
          open' = open \cup {c} /\ returnConnection(c, pc)
    BY <1>4 DEF Reconnect
  <2>2. /\ fail_count' = fail_count - 1 /\ UNCHANGED <<ctx, checked, b_stop>>
        /\ connections' = IF b_stop THEN connections ELSE Append(connections, c)
    BY <1>4, <2>1 DEF Reconnect, returnConnection
  <2>3. c \notin Idle /\ c \notin Held /\ Held' = Held
    BY <2>1, <2>2 DEF OneOwner, Held
  <2>4. Distinct(connections') /\ Idle' = IF b_stop THEN Idle ELSE Idle \cup {c}
    BY <1>0, <2>2, <2>3, PushBack DEF Idle, Elems, OneOwner, Distinct
  <2>5. Conns \ open' = (Conns \ open) \ {c}
    BY <2>1
  <2>6. Cardinality(Conns \ open') = Cardinality(Conns \ open) - 1
    BY <1>6, <2>1, <2>5, FS_RemoveElement
  <2> QED BY <2>1, <2>2, <2>3, <2>4, <2>6 DEF OneOwner, NoneLost, Distinct
<1>5. CASE UNCHANGED <<connections, ctx, checked, open, fail_count, b_stop>>
  BY <1>5 DEF OneOwner, NoneLost, Idle, Held
<1> QED BY <1>1, <1>2, <1>3, <1>4, <1>5
        DEF CheckStep, CheckStarts, ScanEnds, RepairEnds, CheckEnds

LEMMA NextOwned ==
  TypeOK /\ OneOwner /\ NoneLost /\ [Next]_vars => OneOwner' /\ NoneLost'
<1> SUFFICES ASSUME TypeOK, OneOwner, NoneLost, [Next]_vars
             PROVE  OneOwner' /\ NoneLost'
  OBVIOUS
<1> USE DEF callVars, checkVars, redisVars, stopVars
<1>1. ASSUME NEW w \in Workers, CallStep(w) PROVE OneOwner' /\ NoneLost'
  <2>1. UNCHANGED <<open, fail_count, b_stop>>
    BY <1>1 DEF CallStep, Take, Stopped, TestFails, Sleep, Command, acquireLock,
                AcquireTimesOut, releaseLock, GiveBack
  <2> QED BY <1>1, <2>1, CallOwned DEF NoneLost
<1>2. CASE ClearConnections
  <2>1. /\ connections' = <<>> /\ open' = open \ Idle
        /\ UNCHANGED <<ctx, checked, b_stop>> /\ b_stop
    BY <1>2 DEF ClearConnections, Idle, TypeOK
  <2>2. Held' = Held /\ Idle' = {} /\ DOMAIN connections' = {}
    BY <2>1 DEF Held, Idle
  <2> QED BY <2>1, <2>2 DEF OneOwner, NoneLost
<1>3. CASE SetStop
  BY <1>3 DEF SetStop, OneOwner, NoneLost, Idle, Held
<1>4. CASE UNCHANGED <<connections, ctx, checked, open, fail_count, b_stop>>
  BY <1>4 DEF OneOwner, NoneLost, Idle, Held
<1> QED BY <1>1, <1>2, <1>3, <1>4, CheckOwned
        DEF Next, Call, SpuriousWakeup, CloseStep, NotifyAll, Join, GoesDown,
            ComesBack, LockExpires, vars
-----------------------------------------------------------------------------
(* The invariant                                                           *)

LEMMA InitPool == Init => PoolInv /\ TestedEmpty
<1> SUFFICES ASSUME Init PROVE PoolInv /\ TestedEmpty
  OBVIOUS
<1>1. /\ Idle = Conns
      /\ \A i, j \in DOMAIN connections :
           connections[i] = connections[j] => i = j
  BY DEF Init, Idle
<1>2. Held = {} /\ \A w \in Workers : ctx[w] = Nil
  BY DEF Init, Held
<1>3. Asleep = {} /\ TestedEmpty
  BY DEF Init, Asleep, TestedEmpty
<1>4. open = Conns /\ fail_count = 0 /\ Cardinality(Conns \ open) = 0
  BY FS_EmptySet DEF Init
<1> QED BY <1>1, <1>2, <1>3, <1>4
        DEF PoolInv, OneOwner, NoneLost, NoLostWakeup

LEMMA PoolInductive == PoolIInv /\ [Next]_vars => PoolIInv'
  BY NextType, NextWakes, NextTested, NextOwned DEF PoolIInv, PoolInv

\* The variables keep their types.
THEOREM PoolTypeCorrect == Spec => []TypeOK
  BY InitType, NextType, PTL DEF Spec

\* However many threads call, Redis outages happen and wherever Close comes
\* between: no connection is used by two threads or after it was freed; while
\* the pool runs none is lost, and no thread sleeps beside an idle one.
THEOREM PoolIsSound == Spec => []PoolInv
<1>1. Init => PoolIInv
  BY InitType, InitPool DEF PoolIInv
<1>2. PoolIInv => PoolInv
  BY DEF PoolIInv
<1> QED BY <1>1, <1>2, PoolInductive, PTL DEF Spec
=============================================================================
