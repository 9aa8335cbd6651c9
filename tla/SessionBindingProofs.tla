------------------------ MODULE SessionBindingProofs ------------------------
(***************************************************************************)
(* Proofs about SessionBinding, for every cluster, every set of sessions   *)
(* and users, and every bound.                                             *)
(***************************************************************************)
EXTENDS SessionBinding, TLAPS

\* What ClearSession does to the types of the tables.
LEMMA ClearSessionType ==
  ASSUME SessionBindingAssumption, TypeOK, NEW s \in Sessions, ClearSession(s)
  PROVE  /\ members' \subseteq Sessions
         /\ userSession' \in [Servers -> [Uids -> Sessions \cup {Nil}]]
<1>1. Home[s] \in Servers /\ userUid[s] \in Uids
  BY DEF SessionBindingAssumption, TypeOK
<1>2. QED
  BY <1>1 DEF TypeOK, ClearSession

\* Sending a message keeps the write chains well typed.
LEMMA SendType ==
  ASSUME TypeOK, NEW s \in Sessions, Send(s)
  PROVE  wr' \in [Sessions -> {"idle", "busy", "dead"}]
BY DEF TypeOK, Send

-----------------------------------------------------------------------------
(* A server knows no sessions but its own.                                 *)

\* The sessions of requests.
LEMMA RequestSessions ==
  ASSUME TypeOK
  PROVE  /\ \A a \in Servers : queue[a] \in Seq(Request)
         /\ \A a \in Servers : \A i \in 1 .. Len(queue[a]) :
              queue[a][i].sess \in Sessions
         /\ \A a \in Servers : cur[a] # Nil => /\ cur[a].sess \in Sessions
                                               /\ cur[a].uid \in Users
<1>1. \A a \in Servers : queue[a] \in Seq(Request)
  BY DEF TypeOK
<1>2. \A a \in Servers : \A i \in 1 .. Len(queue[a]) : queue[a][i] \in Request
  BY <1>1
<1>3. \A a \in Servers : cur[a] # Nil => cur[a] \in Request
  BY DEF TypeOK
<1>4. QED
  BY <1>1, <1>2, <1>3 DEF Request

\* A step that adds no request, and no entry to a UserMgr.
QueueKept ==
  \A a \in Servers : \/ queue'[a] = queue[a] \/ queue'[a] = <<>>
                     \/ queue[a] # <<>> /\ queue'[a] = Tail(queue[a])
CurKept ==
  \A a \in Servers : cur'[a] # Nil =>
    \/ cur'[a] = cur[a]
    \/ queue[a] # <<>> /\ cur'[a] = Head(queue[a])
MgrKept ==
  \A a \in Servers, u \in Uids : userSession'[a][u] \in {Nil, userSession[a][u]}

LEMMA RequestsRemain ==
  ASSUME TypeOK, QueueKept, CurKept, NEW a \in Servers
  PROVE  /\ \A i \in 1 .. Len(queue'[a]) :
              \E j \in 1 .. Len(queue[a]) : queue'[a][i] = queue[a][j]
         /\ cur'[a] # Nil => \/ cur'[a] = cur[a]
                             \/ \E j \in 1 .. Len(queue[a]) : cur'[a] = queue[a][j]
<1>1. queue[a] \in Seq(Request)
  BY DEF TypeOK
<1>2. ASSUME NEW i \in 1 .. Len(queue'[a])
      PROVE  \E j \in 1 .. Len(queue[a]) : queue'[a][i] = queue[a][j]
  <2>1. CASE queue[a] # <<>> /\ queue'[a] = Tail(queue[a])
    <3>1. i + 1 \in 1 .. Len(queue[a]) /\ queue'[a][i] = queue[a][i + 1]
      BY <1>1, <2>1
    <3>2. QED
      BY <3>1
  <2>2. CASE queue'[a] = <<>>
    BY <2>2
  <2>3. QED
    BY <2>1, <2>2 DEF QueueKept
<1>3. queue[a] # <<>> => 1 \in 1 .. Len(queue[a]) /\ Head(queue[a]) = queue[a][1]
  BY <1>1
<1>4. QED
  BY <1>2, <1>3 DEF CurKept

LEMMA HomeKept ==
  ASSUME TypeOK, QueueKept, CurKept, MgrKept
  PROVE  AtHome'
<1> SUFFICES ASSUME NEW a \in Servers
             PROVE  /\ \A i \in 1 .. Len(queue'[a]) : Home[queue'[a][i].sess] = a
                    /\ cur'[a] # Nil => Home[cur'[a].sess] = a
                    /\ \A u \in Uids : userSession'[a][u] # Nil =>
                                         Home[userSession'[a][u]] = a
  BY DEF AtHome
<1>1. AtHome
  BY DEF TypeOK
<1>2. \A u \in Uids : userSession'[a][u] # Nil => Home[userSession'[a][u]] = a
  BY <1>1 DEF MgrKept, AtHome
<1>3. QED
  BY <1>1, <1>2, RequestsRemain DEF AtHome

\* ClearSession takes entries away.
LEMMA ClearSessionMgr ==
  ASSUME SessionBindingAssumption, TypeOK, NEW s \in Sessions, ClearSession(s)
  PROVE  MgrKept /\ members' \subseteq members
BY DEF SessionBindingAssumption, TypeOK, ClearSession, MgrKept

\* A kick that goes on without its caller takes no more than ClearSession does.
LEMMA StrayFrame ==
  ASSUME SessionBindingAssumption, TypeOK, NEW k \in strays, StrayStep(k)
  PROVE  /\ UNCHANGED <<redis, queue, logic, userUid, sock, reader, entering,
                        cleanup, crashes>>
         /\ UNCHANGED tables \/ \E s \in Sessions : ClearSession(s)
<1>1. k.old \in Sessions \cup {Nil}
  BY DEF TypeOK, Stray
<1>2. QED
  BY <1>1 DEF StrayStep, StrayLookup, StrayClear

\* Whoever posts a request posts it to the server it is on, and a login writes
\* the UserMgr of the server it runs on.
LEMMA NextAtHome ==
  ASSUME SessionBindingAssumption, TypeOK, Next
  PROVE  AtHome'
<1>t. /\ queue \in [Servers -> Seq(Request)]
      /\ cur \in [Servers -> Request \cup {Nil}]
      /\ userSession \in [Servers -> [Uids -> Sessions \cup {Nil}]]
      /\ Home \in [Sessions -> Servers]
  BY DEF TypeOK, SessionBindingAssumption
<1>1. CASE UNCHANGED <<queue, cur, userSession>>
  BY <1>1, HomeKept DEF QueueKept, CurKept, MgrKept
<1>2. CASE UNCHANGED <<queue, cur>> /\ \E s \in Sessions : ClearSession(s)
  BY <1>2, HomeKept, ClearSessionMgr DEF QueueKept, CurKept
<1>3. ASSUME NEW s \in Sessions, PostMsgToQue(s)
      PROVE  AtHome'
  <2> DEFINE r == [sess |-> s, uid |-> pend[s]]
  <2>1. /\ queue' = [queue EXCEPT ![Home[s]] = Append(@, r)]
        /\ UNCHANGED <<cur, userSession>>
    BY <1>3 DEF PostMsgToQue, tables, logic
  <2>2. r \in Request /\ r.sess = s
    BY <1>3 DEF PostMsgToQue, Request, TypeOK
  <2> HIDE DEF r
  <2>3. \A i \in 1 .. Len(Append(queue[Home[s]], r)) :
          \/ /\ i \in 1 .. Len(queue[Home[s]])
             /\ Append(queue[Home[s]], r)[i] = queue[Home[s]][i]
          \/ Append(queue[Home[s]], r)[i] = r
    BY <1>t, <2>2
  <2>4. QED
    BY <1>t, <2>1, <2>2, <2>3 DEF TypeOK, AtHome
<1>4. ASSUME NEW s \in Sessions, SessionStep(s)
      PROVE  AtHome'
  <2>1. CASE BadHeader(s)
    BY <1>2, <2>1 DEF BadHeader, logic
  <2>2. CASE ~BadHeader(s) /\ ~PostMsgToQue(s)
    BY <1>1, <1>4, <2>2 DEF SessionStep, Accept, Insert, ReadMessage,
       RejectMessage, ReadError, WriteDone, WriteError, tables, logic
  <2>3. QED
    BY <1>3, <2>1, <2>2
<1>5. ASSUME NEW a \in Servers, LogicStep(a)
      PROVE  AtHome'
  <2>1. CASE SetUserSession(a)
    <3>1. /\ UNCHANGED <<queue, cur>>
          /\ userSession' = [userSession EXCEPT ![a][cur[a].uid] = cur[a].sess]
          /\ cur[a] # Nil
      BY <2>1 DEF SetUserSession, TypeOK, SessionBindingAssumption
    <3>2. AtHome /\ Home[cur[a].sess] = a
      BY <3>1 DEF TypeOK, AtHome
    <3>3. QED
      BY <1>t, <3>1, <3>2 DEF AtHome
  <2>2. CASE ClearOld(a)
    <3>1. lold[a] \in Sessions
      BY <2>2 DEF ClearOld, TypeOK
    <3>2. QED
      BY <1>2, <2>2, <3>1 DEF ClearOld
  <2>3. CASE ~SetUserSession(a) /\ ~ClearOld(a)
    <3>1. QueueKept /\ CurKept /\ UNCHANGED userSession
      BY <1>t, <1>5, <2>3 DEF LogicStep, RefuseLogin, StartLogin, Take,
         LoginAcquire, LoginTimeout, ReadIp, LookupOld, KickFails, SetUserId,
         SetIp, SetSessionKey, LoginRelease, LoginReply, tables, logic,
         QueueKept, CurKept
    <3>2. QED
      BY <3>1, HomeKept DEF MgrKept
  <2>4. QED
    BY <2>1, <2>2, <2>3
<1>6. ASSUME NEW h \in Cleaners, CleanStep(h)
      PROVE  AtHome'
  <2>1. h[2] \in Sessions
    BY DEF Cleaners
  <2>2. QED
    BY <1>1, <1>2, <1>6, <2>1 DEF CleanStep, CleanAcquire, CleanTimeout,
       CheckSession, DelSession, DelIp, CleanClear, CleanRelease, tables, logic
<1>7. ASSUME NEW a \in Servers, Crash(a)
      PROVE  AtHome'
  <2>1. QueueKept /\ CurKept /\ MgrKept
    BY <1>t, <1>7 DEF Crash, QueueKept, CurKept, MgrKept
  <2>2. QED
    BY <2>1, HomeKept
<1>8. ASSUME \/ \E s \in Sessions : StartTimerCleanup(s)
             \/ \E a \in Servers : \E E \in SUBSET SessionsOf(a) : OnTimer(a, E)
             \/ \E u \in Uids : LockExpire(u)
      PROVE  AtHome'
  BY <1>1, <1>8 DEF StartTimerCleanup, OnTimer, LockExpire, tables, logic
<1>9. ASSUME NEW k \in strays, StrayStep(k)
      PROVE  AtHome'
  BY <1>1, <1>2, <1>9, StrayFrame DEF tables, logic
<1>10. QED
  BY <1>4, <1>5, <1>6, <1>7, <1>8, <1>9 DEF Next
-----------------------------------------------------------------------------
(* Types.                                                                  *)

\* At the start every variable has its type.
LEMMA InitType == SessionBindingAssumption /\ Init => TypeOK
<1> SUFFICES ASSUME SessionBindingAssumption, Init PROVE TypeOK
  OBVIOUS
<1>1. AtHome
  <2>1. \A a \in Servers : Len(queue[a]) = 0
    BY DEF Init
  <2>2. /\ \A a \in Servers : 1 .. Len(queue[a]) = {} /\ cur[a] = Nil
        /\ \A a \in Servers, u \in Uids : userSession[a][u] = Nil
    BY <2>1 DEF Init
  <2>3. QED
    BY <2>2 DEF AtHome
<1>2. QED
  BY <1>1 DEF SessionBindingAssumption, Init, TypeOK, Uids, LogicPcs, CleanPcs,
              Threads

\* Accepting, reading and writing keep the types.
LEMMA SessionStepType ==
  ASSUME SessionBindingAssumption, TypeOK, AtHome',
         NEW s \in Sessions, SessionStep(s)
  PROVE  TypeOK'
<1> USE DEF TypeOK, redis, tables, logic, reader, cleanup, deaths
<1>a. IoOf(s) \in Cleaners /\ userUid[s] \in Uids
  BY DEF IoOf, Cleaners
<1>1. CASE Accept(s)
  BY <1>1 DEF Accept
<1>2. CASE Insert(s)
  BY <1>2 DEF Insert
<1>3. ASSUME NEW u \in Users, ReadMessage(s, u)
      PROVE  TypeOK'
  <2>1. sent' \in [Sessions -> 0 .. MaxRequests]
    BY <1>3 DEF ReadMessage, SessionBindingAssumption
  <2>2. QED
    BY <1>3, <2>1 DEF ReadMessage, Uids
<1>4. CASE PostMsgToQue(s)
  <2>1. Home[s] \in Servers /\ [sess |-> s, uid |-> pend[s]] \in Request
    BY <1>4 DEF PostMsgToQue, Request, SessionBindingAssumption
  <2>2. queue' \in [Servers -> Seq(Request)]
    BY <1>4, <2>1 DEF PostMsgToQue
  <2>3. QED
    BY <1>4, <2>2 DEF PostMsgToQue, Uids
<1>5. CASE RejectMessage(s)
  BY <1>5 DEF RejectMessage
<1>6. CASE BadHeader(s)
  BY <1>6, ClearSessionType DEF BadHeader
<1>7. CASE ReadError(s)
  BY <1>7, <1>a DEF ReadError, StartIoCleanup, CleanPcs
<1>8. CASE WriteDone(s)
  BY <1>8 DEF WriteDone
<1>9. CASE WriteError(s)
  BY <1>9, <1>a DEF WriteError, StartIoCleanup, CleanPcs
<1>10. QED
  BY <1>1, <1>2, <1>3, <1>4, <1>5, <1>6, <1>7, <1>8, <1>9 DEF SessionStep

\* The logic thread's steps keep the types: LoginHandler gets to the lookup
\* only with a server to ask.
LEMMA LogicStepType ==
  ASSUME SessionBindingAssumption, TypeOK, AtHome',
         NEW a \in Servers, LogicStep(a)
  PROVE  TypeOK'
<1>q. queue[a] \in Seq(Request)
  BY DEF TypeOK
<1>d. queue[a] # <<>> =>
        /\ Head(queue[a]) \in Request
        /\ Tail(queue[a]) \in Seq(Request)
  BY <1>q
<1>c. queue[a] # <<>> => Head(queue[a]).sess \in Sessions
  BY <1>d DEF Request
<1> USE DEF TypeOK, redis, tables, logic, reader, cleanup, deaths, LogicPcs
<1>a. lpc[a] # "idle" => cur[a].sess \in Sessions /\ cur[a].uid \in Uids
  BY DEF Request, Uids
<1>b. Logic(a) \in Threads
  BY DEF Logic, LogicThreads, Threads
<1>1. CASE RefuseLogin(a)
  BY <1>1, <1>c, <1>d, SendType DEF RefuseLogin
<1>2. CASE StartLogin(a)
  BY <1>2, <1>d DEF StartLogin, Take
<1>3. CASE LoginAcquire(a)
  BY <1>3, <1>a, <1>b DEF LoginAcquire, AcquireLock
<1>4. CASE LoginTimeout(a)
  BY <1>4 DEF LoginTimeout
<1>5. CASE ReadIp(a)
  BY <1>5, <1>a DEF ReadIp, SessionBindingAssumption
<1>6. CASE LookupOld(a)
  <2>1. userSession[lip[a]][cur[a].uid] \in Sessions \cup {Nil}
    BY <1>6, <1>a DEF LookupOld
  <2>2. CASE userSession[lip[a]][cur[a].uid] = Nil
    <3>1. /\ lold' = [lold EXCEPT ![a] = Nil]
          /\ lpc' = [lpc EXCEPT ![a] = "setUid"]
          /\ UNCHANGED wr
      BY <1>6, <2>2 DEF LookupOld
    <3>2. QED
      BY <1>6, <3>1 DEF LookupOld
  <2>3. CASE userSession[lip[a]][cur[a].uid] # Nil
    <3>1. wr' \in [Sessions -> {"idle", "busy", "dead"}]
      BY <1>6, <2>1, <2>3, SendType DEF LookupOld
    <3>2. /\ lold' \in [Servers -> Sessions \cup {Nil}]
          /\ lpc' \in [Servers -> LogicPcs]
          /\ \A b \in Servers :
               /\ lpc'[b] # "idle" => cur[b] \in Request
               /\ lpc'[b] \in {"lookup", "clearOld"} => lip[b] \in Servers
               /\ lpc'[b] = "clearOld" => lold'[b] \in Sessions
      BY <1>6, <2>1, <2>3 DEF LookupOld
    <3>3. UNCHANGED <<uip, usession, lock, members, userSession, queue, cur,
                      lip, userUid, sock, rd, pend, sent, entering, epc, euid,
                      crashes, strays>>
      BY <1>6 DEF LookupOld
    <3>4. QED
      BY <3>1, <3>2, <3>3
  <2>4. QED
    BY <2>2, <2>3
<1>7. CASE KickFails(a)
  BY <1>7 DEF KickFails
<1>8. CASE ClearOld(a)
  BY <1>8, ClearSessionType DEF ClearOld
<1>9. CASE SetUserId(a)
  BY <1>9, <1>a DEF SetUserId
<1>10. CASE SetIp(a)
  BY <1>10 DEF SetIp
<1>11. CASE SetUserSession(a)
  BY <1>11, <1>a DEF SetUserSession
<1>12. CASE SetSessionKey(a)
  BY <1>12, <1>a DEF SetSessionKey
<1>13. CASE LoginRelease(a)
  BY <1>13 DEF LoginRelease, ReleaseLock
<1>14. CASE LoginReply(a)
  BY <1>14, <1>a, SendType DEF LoginReply
<1>15. QED
  BY <1>1, <1>2, <1>3, <1>4, <1>5, <1>6, <1>7, <1>8, <1>9, <1>10, <1>11,
     <1>12, <1>13, <1>14 DEF LogicStep

\* The steps of DealExceptionSession keep the types.
LEMMA CleanStepType ==
  ASSUME SessionBindingAssumption, TypeOK, AtHome',
         NEW h \in Cleaners, CleanStep(h)
  PROVE  TypeOK'
<1> USE DEF TypeOK, redis, tables, logic, reader, deaths, CleanPcs
<1>a. h \in Threads /\ h[2] \in Sessions /\ euid[h] \in Uids
  BY DEF Threads, Cleaners
<1>1. CASE CleanAcquire(h)
  BY <1>1, <1>a DEF CleanAcquire, AcquireLock
<1>2. CASE CleanTimeout(h)
  BY <1>2 DEF CleanTimeout
<1>3. CASE CheckSession(h)
  BY <1>3 DEF CheckSession
<1>4. CASE DelSession(h)
  BY <1>4 DEF DelSession
<1>5. CASE DelIp(h)
  BY <1>5 DEF DelIp
<1>6. CASE CleanClear(h)
  BY <1>6, <1>a, ClearSessionType DEF CleanClear
<1>7. CASE CleanRelease(h)
  BY <1>7 DEF CleanRelease, ReleaseLock, Uids
<1>8. QED
  BY <1>1, <1>2, <1>3, <1>4, <1>5, <1>6, <1>7 DEF CleanStep

\* The timer, a crash and the lock's time to live keep the types.
LEMMA OtherStepType ==
  ASSUME SessionBindingAssumption, TypeOK, AtHome',
         \/ \E s \in Sessions : StartTimerCleanup(s)
         \/ \E a \in Servers : Crash(a)
         \/ \E a \in Servers : \E E \in SUBSET SessionsOf(a) : OnTimer(a, E)
         \/ \E u \in Uids : LockExpire(u)
         \/ \E k \in strays : StrayStep(k)
  PROVE  TypeOK'
<1> USE DEF TypeOK, redis, tables, logic, reader, cleanup, deaths, CleanPcs, LogicPcs
<1>1. ASSUME NEW s \in Sessions, StartTimerCleanup(s)
      PROVE  TypeOK'
  BY <1>1 DEF StartTimerCleanup, TimerOf, Cleaners
<1>2. ASSUME NEW a \in Servers, Crash(a)
      PROVE  TypeOK'
  <2>1. /\ lpc' \in [Servers -> LogicPcs]
        /\ cur' \in [Servers -> Request \cup {Nil}]
        /\ lip' \in [Servers -> Servers \cup {Nil}]
        /\ lold' \in [Servers -> Sessions \cup {Nil}]
    BY <1>2 DEF Crash
  <2>2. /\ \A b \in Servers : lpc'[b] # "idle" => cur'[b] \in Request
        /\ \A b \in Servers :
             lpc'[b] \in {"lookup", "clearOld"} => lip'[b] \in Servers
        /\ \A b \in Servers : lpc'[b] = "clearOld" => lold'[b] \in Sessions
    BY <1>2 DEF Crash
  <2>3. /\ uip' \in [Uids -> Servers \cup {Nil}]
        /\ usession' \in [Uids -> Sessions \cup {Nil}]
        /\ lock' \in [Uids -> Threads \cup {Nil, Orphan}]
        /\ members' \subseteq Sessions /\ entering' \subseteq Sessions
        /\ userSession' \in [Servers -> [Uids -> Sessions \cup {Nil}]]
        /\ queue' \in [Servers -> Seq(Request)]
    BY <1>2 DEF Crash
  <2>4. /\ userUid' \in [Sessions -> Uids]
        /\ sock' \in [Sessions -> {"new", "open", "closed"}]
        /\ rd' \in [Sessions -> {"reading", "posting", "ended"}]
        /\ pend' \in [Sessions -> Uids]
        /\ \A s \in Sessions : rd'[s] = "posting" => pend'[s] \in Users
        /\ wr' \in [Sessions -> {"idle", "busy", "dead"}]
        /\ sent' \in [Sessions -> 0 .. MaxRequests]
    BY <1>2 DEF Crash, Uids
  <2>5. /\ epc' \in [Cleaners -> CleanPcs]
        /\ euid' \in [Cleaners -> Uids]
        /\ crashes' \in 0 .. MaxCrashes
    BY <1>2 DEF Crash, Uids, SessionBindingAssumption
  <2>6. strays' \subseteq Stray
    <3>1. KickAway(a) \subseteq Stray
      <4>1. crashes + 1 \in 1 .. MaxCrashes
        BY <1>2 DEF Crash, SessionBindingAssumption
      <4>2. lpc[a] \in {"lookup", "clearOld"} =>
              /\ lip[a] \in Servers /\ cur[a].uid \in Users
              /\ lpc[a] # "lookup" => lold[a] \in Sessions
        BY DEF Request
      <4>3. QED
        BY <4>1, <4>2 DEF KickAway, Stray
    <3>2. QED
      BY <1>2, <3>1 DEF Crash
  <2>7. QED
    BY <2>1, <2>2, <2>3, <2>4, <2>5, <2>6
<1>3. ASSUME NEW a \in Servers, NEW E \in SUBSET SessionsOf(a), OnTimer(a, E)
      PROVE  TypeOK'
  BY <1>3 DEF OnTimer
<1>4. ASSUME NEW u \in Uids, LockExpire(u)
      PROVE  TypeOK'
  BY <1>4 DEF LockExpire
<1>5. ASSUME NEW k \in strays, StrayStep(k)
      PROVE  TypeOK'
  <2>1. k \in Stray
    OBVIOUS
  <2>2. CASE StrayLookup(k)
    <3>1. userSession[k.at][k.uid] \in Sessions \cup {Nil}
      BY <2>1 DEF Stray, Uids
    <3>2. strays' \subseteq Stray
      <4>1. \A s \in Sessions : [k EXCEPT !.old = s] \in Stray
        BY <2>1 DEF Stray
      <4>2. QED
        BY <2>2, <3>1, <4>1 DEF StrayLookup
    <3>3. wr' \in [Sessions -> {"idle", "busy", "dead"}]
      BY <2>2, <3>1, SendType DEF StrayLookup
    <3>4. QED
      BY <2>2, <3>2, <3>3 DEF StrayLookup
  <2>3. CASE StrayClear(k)
    <3>1. k.old \in Sessions
      BY <2>1, <2>3 DEF StrayClear, Stray
    <3>2. QED
      BY <2>3, <3>1, ClearSessionType DEF StrayClear
  <2>4. QED
    BY <1>5, <2>2, <2>3 DEF StrayStep
<1>6. QED
  BY <1>1, <1>2, <1>3, <1>4, <1>5

\* Every step keeps the types.
LEMMA NextType ==
  ASSUME SessionBindingAssumption, TypeOK, [Next]_vars
  PROVE  TypeOK'
<1>1. CASE Next
  <2>1. AtHome'
    BY <1>1, NextAtHome
  <2>2. QED
    BY <1>1, <2>1, SessionStepType, LogicStepType, CleanStepType, OtherStepType
       DEF Next
<1>2. CASE UNCHANGED vars
  BY <1>2 DEF vars, TypeOK, AtHome, redis, tables, logic, reader, cleanup, deaths
<1>3. QED
  BY <1>1, <1>2

\* The type invariant holds in every behaviour of the chat servers: a program
\* counter inside LoginHandler always has a request, a kick always has a server
\* and a session to clear.
THEOREM TypeCorrect == ASSUME SessionBindingAssumption PROVE Spec => []TypeOK
<1>1. Init => TypeOK
  BY InitType
<1>2. TypeOK /\ [Next]_vars => TypeOK'
  BY NextType
<1>3. QED
  BY <1>1, <1>2, PTL DEF Spec
-----------------------------------------------------------------------------
(* The clean-up of an old connection never logs out a newer one, as long   *)
(* as LoginHandler gets the lock and nobody outstays the lock's TTL.       *)

Exclusive == ~LoginMayTimeOut /\ ~LockMayExpire

\* Everything a step of a session, of the logic thread or of a cleaner has to
\* leave alone for CleanupInv to be about other threads only.
LEMMA ThreadsDiffer ==
  ASSUME SessionBindingAssumption
  PROVE  /\ \A t \in Threads : t # Nil /\ t # Orphan
         /\ \A a \in Servers : Logic(a) \in Threads
         /\ \A a, b \in Servers : Logic(a) = Logic(b) => a = b
         /\ \A h \in Cleaners : h \in Threads /\ h[2] \in Sessions
         /\ \A h \in Cleaners, a \in Servers : h # Logic(a)
<1>1. \A h \in Cleaners : h[1] \in {"io", "timer"} /\ h[2] \in Sessions
  BY DEF Cleaners
<1>2. \A a \in Servers : Logic(a)[1] = "logic" /\ Logic(a)[2] = a
  BY DEF Logic
<1>3. QED
  BY <1>1, <1>2 DEF SessionBindingAssumption, Threads, LogicThreads, Logic

\* At the start nobody is in a critical section.
LEMMA InitCleanup == Init => CleanupInv
BY DEF Init, CleanupInv, LoginHoldsLock, CleanerHoldsLock, CleanedIsClosed,
       DeletesOwnSession, LoginCS

\* The read and write chains keep CleanupInv: a clean-up they start has just
\* closed its session, and a session is never reopened.
LEMMA SessionStepCleanup ==
  ASSUME SessionBindingAssumption, TypeOK, CleanupInv,
         NEW s \in Sessions, SessionStep(s)
  PROVE  CleanupInv'
<1> USE DEF TypeOK, CleanupInv, redis, tables, logic, reader, cleanup, deaths
<1>1. UNCHANGED <<lock, usession, lpc, cur>>
  BY DEF SessionStep, Accept, Insert, ReadMessage, PostMsgToQue, RejectMessage,
         BadHeader, ReadError, WriteDone, WriteError
<1>2. CASE UNCHANGED <<epc, euid>> /\ \A r \in Sessions :
                         sock[r] = "closed" => sock'[r] = "closed"
  BY <1>1, <1>2, ThreadsDiffer
     DEF LoginHoldsLock, CleanerHoldsLock, CleanedIsClosed, DeletesOwnSession
<1>3. CASE StartIoCleanup(s)
  <2>1. \A h \in Cleaners : h # IoOf(s) => epc'[h] = epc[h] /\ euid'[h] = euid[h]
    BY <1>3 DEF StartIoCleanup
  <2>2. IoOf(s) \in Cleaners /\ epc'[IoOf(s)] = "acquire" /\ IoOf(s)[2] = s
    BY <1>3 DEF StartIoCleanup, IoOf, Cleaners
  <2>3. \A r \in Sessions : sock[r] = "closed" \/ r = s => sock'[r] = "closed"
    BY <1>3 DEF StartIoCleanup
  <2>4. QED
    BY <1>1, <2>1, <2>2, <2>3, ThreadsDiffer
       DEF LoginHoldsLock, CleanerHoldsLock, CleanedIsClosed, DeletesOwnSession
<1>4. CASE Accept(s)
  BY <1>2, <1>4 DEF Accept
<1>5. CASE Insert(s)
  BY <1>2, <1>5 DEF Insert
<1>6. ASSUME NEW u \in Users, ReadMessage(s, u)
      PROVE  CleanupInv'
  BY <1>2, <1>6 DEF ReadMessage
<1>7. CASE PostMsgToQue(s)
  BY <1>2, <1>7 DEF PostMsgToQue
<1>8. CASE RejectMessage(s)
  BY <1>2, <1>8 DEF RejectMessage
<1>9. CASE BadHeader(s)
  BY <1>2, <1>9 DEF BadHeader
<1>10. CASE WriteDone(s)
  BY <1>2, <1>10 DEF WriteDone
<1>11. CASE ReadError(s) \/ WriteError(s)
  BY <1>3, <1>11 DEF ReadError, WriteError
<1>12. QED
  BY <1>4, <1>5, <1>6, <1>7, <1>8, <1>9, <1>10, <1>11 DEF SessionStep

\* LoginHandler keeps CleanupInv: it writes usession only with the user's lock,
\* so never while a clean-up of the same user is about to delete it.
LEMMA LogicStepCleanup ==
  ASSUME SessionBindingAssumption, Exclusive, TypeOK, CleanupInv,
         NEW a \in Servers, LogicStep(a)
  PROVE  CleanupInv'
<1> USE DEF TypeOK, redis, tables, logic, reader, cleanup, deaths
<1>1. UNCHANGED <<epc, euid, sock>>
  BY DEF LogicStep, RefuseLogin, StartLogin, Take, LoginAcquire, LoginTimeout,
         ReadIp, LookupOld, KickFails, ClearOld, SetUserId, SetIp,
         SetUserSession, SetSessionKey, LoginRelease, LoginReply
<1>2. CleanedIsClosed'
  BY <1>1 DEF CleanupInv, CleanedIsClosed
<1>a. lpc[a] # "idle" => cur[a].uid \in Uids /\ cur[a].sess \in Sessions
  BY DEF Request, Uids
\* Steps that touch neither the lock nor usession.
<1>3. CASE /\ UNCHANGED <<lock, usession>>
           /\ \A b \in Servers : b # a => lpc'[b] = lpc[b] /\ cur'[b] = cur[b]
           /\ lpc'[a] \in LoginCS => lpc[a] \in LoginCS /\ cur'[a] = cur[a]
  <2>1. LoginHoldsLock'
    <3>1. SUFFICES ASSUME NEW b \in Servers, lpc'[b] \in LoginCS
                   PROVE  lock'[cur'[b].uid] = Logic(b)
      BY DEF LoginHoldsLock
    <3>2. lpc[b] \in LoginCS /\ cur'[b] = cur[b]
      BY <1>3, <3>1
    <3>3. QED
      BY <1>3, <3>2 DEF CleanupInv, LoginHoldsLock
  <2>2. CleanerHoldsLock' /\ DeletesOwnSession'
    BY <1>1, <1>3 DEF CleanupInv, CleanerHoldsLock, DeletesOwnSession
  <2>3. QED
    BY <1>2, <2>1, <2>2 DEF CleanupInv
<1>4. CASE RefuseLogin(a)
  BY <1>3, <1>4 DEF RefuseLogin
<1>5. CASE StartLogin(a)
  BY <1>3, <1>5 DEF StartLogin, Take, LoginCS
<1>6. CASE LoginAcquire(a)
  <2>1. /\ lock[cur[a].uid] = Nil /\ lock'[cur[a].uid] = Logic(a)
        /\ \A u \in Uids : u # cur[a].uid => lock'[u] = lock[u]
        /\ UNCHANGED <<usession, cur>>
        /\ \A b \in Servers : b # a => lpc'[b] = lpc[b]
    BY <1>6, <1>a DEF LoginAcquire, AcquireLock
  <2>2. LoginHoldsLock'
    <3>1. SUFFICES ASSUME NEW b \in Servers, b # a, lpc[b] \in LoginCS
                   PROVE  lock'[cur[b].uid] = Logic(b)
      BY <2>1 DEF LoginHoldsLock
    <3>2. lock[cur[b].uid] = Logic(b) /\ cur[b].uid \in Uids
      BY <3>1 DEF CleanupInv, LoginHoldsLock, LoginCS, Request, Uids
    <3>3. QED
      BY <2>1, <3>2, ThreadsDiffer
  <2>3. CleanerHoldsLock' /\ DeletesOwnSession'
    BY <1>1, <2>1, ThreadsDiffer
       DEF CleanupInv, CleanerHoldsLock, DeletesOwnSession
  <2>4. QED
    BY <1>2, <2>2, <2>3 DEF CleanupInv
<1>7. CASE LoginTimeout(a)
  BY <1>7 DEF LoginTimeout, Exclusive
<1>8. CASE ReadIp(a)
  BY <1>3, <1>8 DEF ReadIp, LoginCS
<1>9. CASE LookupOld(a)
  BY <1>3, <1>9 DEF LookupOld, LoginCS
<1>10. CASE KickFails(a)
  BY <1>3, <1>10 DEF KickFails, LoginCS
<1>11. CASE ClearOld(a)
  BY <1>3, <1>11 DEF ClearOld, LoginCS
<1>12. CASE SetUserId(a)
  BY <1>3, <1>12 DEF SetUserId, LoginCS
<1>13. CASE SetIp(a)
  BY <1>3, <1>13 DEF SetIp, LoginCS
<1>14. CASE SetUserSession(a)
  BY <1>3, <1>14 DEF SetUserSession, LoginCS
<1>15. CASE SetSessionKey(a)
  <2>1. /\ UNCHANGED <<lock, cur>>
        /\ \A u \in Uids : u # cur[a].uid => usession'[u] = usession[u]
        /\ \A b \in Servers : b # a => lpc'[b] = lpc[b]
        /\ lpc[a] \in LoginCS
    BY <1>15, <1>a DEF SetSessionKey, LoginCS
  <2>2. lock[cur[a].uid] = Logic(a)
    BY <2>1 DEF CleanupInv, LoginHoldsLock
  <2>3. LoginHoldsLock' /\ CleanerHoldsLock'
    BY <1>1, <2>1, <2>2 DEF CleanupInv, LoginHoldsLock, CleanerHoldsLock
  <2>4. DeletesOwnSession'
    <3>1. SUFFICES ASSUME NEW h \in Cleaners, epc[h] = "delSession"
                   PROVE  usession'[euid[h]] = h[2]
      BY <1>1 DEF DeletesOwnSession
    <3>2. lock[euid[h]] = h /\ usession[euid[h]] = h[2]
      BY <3>1 DEF CleanupInv, CleanerHoldsLock, DeletesOwnSession
    <3>3. QED
      BY <2>1, <2>2, <3>2, ThreadsDiffer
  <2>5. QED
    BY <1>2, <2>3, <2>4 DEF CleanupInv
<1>16. CASE LoginRelease(a)
  <2>1. /\ UNCHANGED <<usession, cur>>
        /\ \A u \in Uids : lock[u] # Logic(a) => lock'[u] = lock[u]
        /\ \A b \in Servers : b # a => lpc'[b] = lpc[b]
        /\ lpc'[a] \notin LoginCS
    BY <1>16, <1>a DEF LoginRelease, ReleaseLock, LoginCS
  <2>2. LoginHoldsLock'
    <3>1. SUFFICES ASSUME NEW b \in Servers, b # a, lpc[b] \in LoginCS
                   PROVE  lock'[cur[b].uid] = Logic(b)
      BY <2>1 DEF LoginHoldsLock
    <3>2. lock[cur[b].uid] = Logic(b) /\ cur[b].uid \in Uids
      BY <3>1 DEF CleanupInv, LoginHoldsLock, LoginCS, Request, Uids
    <3>3. QED
      BY <2>1, <3>1, <3>2, ThreadsDiffer
  <2>3. CleanerHoldsLock' /\ DeletesOwnSession'
    BY <1>1, <2>1, ThreadsDiffer
       DEF CleanupInv, CleanerHoldsLock, DeletesOwnSession
  <2>4. QED
    BY <1>2, <2>2, <2>3 DEF CleanupInv
<1>17. CASE LoginReply(a)
  BY <1>3, <1>17 DEF LoginReply, LoginCS
<1>18. QED
  BY <1>4, <1>5, <1>6, <1>7, <1>8, <1>9, <1>10, <1>11, <1>12, <1>13, <1>14,
     <1>15, <1>16, <1>17 DEF LogicStep

\* DealExceptionSession keeps CleanupInv: it acts on Redis only with the lock,
\* and compares usession under it.
LEMMA CleanStepCleanup ==
  ASSUME SessionBindingAssumption, TypeOK, CleanupInv,
         NEW h \in Cleaners, CleanStep(h)
  PROVE  CleanupInv'
<1> USE DEF TypeOK, redis, tables, logic, reader
<1>1. UNCHANGED <<lpc, cur, sock>>
  BY DEF CleanStep, CleanAcquire, CleanTimeout, CheckSession, DelSession, DelIp,
         CleanClear, CleanRelease
<1>2. /\ \A g \in Cleaners : g # h => epc'[g] = epc[g] /\ euid'[g] = euid[g]
      /\ epc[h] # "idle"
      /\ euid[h] \in Uids
  BY DEF CleanStep, CleanAcquire, CleanTimeout, CheckSession, DelSession, DelIp,
         CleanClear, CleanRelease
<1>3. CleanedIsClosed'
  BY <1>1, <1>2 DEF CleanupInv, CleanedIsClosed
<1>4. \A a \in Servers : lpc[a] \in LoginCS => cur[a].uid \in Uids
  BY DEF LoginCS, Request, Uids
\* Steps that touch neither the lock nor usession.
<1>5. CASE /\ UNCHANGED <<lock, usession, euid>>
           /\ epc'[h] \notin {"check", "delSession", "delIp"}
  BY <1>1, <1>2, <1>3, <1>5
     DEF CleanupInv, LoginHoldsLock, CleanerHoldsLock, DeletesOwnSession
<1>6. CASE CleanAcquire(h)
  <2>1. /\ lock[euid[h]] = Nil /\ lock'[euid[h]] = h
        /\ \A u \in Uids : u # euid[h] => lock'[u] = lock[u]
        /\ UNCHANGED <<usession, euid>> /\ epc'[h] = "check"
    BY <1>6 DEF CleanAcquire, AcquireLock
  <2>2. LoginHoldsLock'
    <3>1. SUFFICES ASSUME NEW a \in Servers, lpc[a] \in LoginCS
                   PROVE  lock'[cur[a].uid] = Logic(a)
      BY <1>1 DEF LoginHoldsLock
    <3>2. lock[cur[a].uid] = Logic(a) /\ cur[a].uid \in Uids
      BY <1>4, <3>1 DEF CleanupInv, LoginHoldsLock
    <3>3. QED
      BY <2>1, <3>2, ThreadsDiffer
  <2>3. CleanerHoldsLock'
    <3>1. SUFFICES ASSUME NEW g \in Cleaners, g # h,
                          epc[g] \in {"check", "delSession", "delIp"}
                   PROVE  lock'[euid[g]] = g
      BY <1>2, <2>1 DEF CleanerHoldsLock
    <3>2. lock[euid[g]] = g /\ euid[g] \in Uids
      BY <3>1 DEF CleanupInv, CleanerHoldsLock
    <3>3. QED
      BY <2>1, <3>1, <3>2, ThreadsDiffer
  <2>4. DeletesOwnSession'
    BY <1>2, <2>1 DEF CleanupInv, DeletesOwnSession
  <2>5. QED
    BY <1>3, <2>2, <2>3, <2>4 DEF CleanupInv
<1>7. CASE CleanTimeout(h)
  BY <1>5, <1>7 DEF CleanTimeout
<1>8. CASE CheckSession(h)
  <2>1. /\ UNCHANGED <<lock, usession, euid>> /\ epc[h] = "check"
        /\ epc'[h] = "delSession" => usession[euid[h]] = h[2]
    BY <1>8 DEF CheckSession
  <2>2. QED
    BY <1>1, <1>2, <1>3, <2>1
       DEF CleanupInv, LoginHoldsLock, CleanerHoldsLock, DeletesOwnSession
<1>9. CASE DelSession(h)
  <2>1. /\ UNCHANGED <<lock, euid>>
        /\ epc[h] = "delSession" /\ epc'[h] = "delIp"
        /\ \A u \in Uids : u # euid[h] => usession'[u] = usession[u]
    BY <1>9 DEF DelSession
  <2>2. LoginHoldsLock' /\ CleanerHoldsLock'
    BY <1>1, <1>2, <2>1 DEF CleanupInv, LoginHoldsLock, CleanerHoldsLock
  <2>3. DeletesOwnSession'
    <3>1. SUFFICES ASSUME NEW g \in Cleaners, g # h, epc[g] = "delSession"
                   PROVE  usession'[euid[g]] = g[2]
      BY <1>2, <2>1 DEF DeletesOwnSession
    <3>2. lock[euid[g]] = g /\ lock[euid[h]] = h
      BY <2>1, <3>1 DEF CleanupInv, CleanerHoldsLock
    <3>3. QED
      BY <2>1, <3>1, <3>2 DEF CleanupInv, DeletesOwnSession
  <2>4. QED
    BY <1>3, <2>2, <2>3 DEF CleanupInv
<1>10. CASE DelIp(h)
  BY <1>5, <1>10 DEF DelIp
<1>11. CASE CleanClear(h)
  BY <1>5, <1>11 DEF CleanClear
<1>12. CASE CleanRelease(h)
  <2>1. /\ UNCHANGED usession /\ epc'[h] = "idle"
        /\ \A u \in Uids : lock[u] # h => lock'[u] = lock[u]
    BY <1>12 DEF CleanRelease, ReleaseLock
  <2>2. LoginHoldsLock'
    <3>1. SUFFICES ASSUME NEW a \in Servers, lpc[a] \in LoginCS
                   PROVE  lock'[cur[a].uid] = Logic(a)
      BY <1>1 DEF LoginHoldsLock
    <3>2. lock[cur[a].uid] = Logic(a) /\ cur[a].uid \in Uids
      BY <1>4, <3>1 DEF CleanupInv, LoginHoldsLock
    <3>3. QED
      BY <2>1, <3>2, ThreadsDiffer
  <2>3. CleanerHoldsLock'
    <3>1. SUFFICES ASSUME NEW g \in Cleaners, g # h,
                          epc[g] \in {"check", "delSession", "delIp"}
                   PROVE  lock'[euid[g]] = g
      BY <1>2, <2>1 DEF CleanerHoldsLock
    <3>2. lock[euid[g]] = g /\ euid[g] \in Uids
      BY <3>1 DEF CleanupInv, CleanerHoldsLock
    <3>3. QED
      BY <2>1, <3>1, <3>2, ThreadsDiffer
  <2>4. DeletesOwnSession'
    BY <1>2, <2>1 DEF CleanupInv, DeletesOwnSession
  <2>5. QED
    BY <1>3, <2>2, <2>3, <2>4 DEF CleanupInv
<1>13. QED
  BY <1>6, <1>7, <1>8, <1>9, <1>10, <1>11, <1>12 DEF CleanStep
\* A crash leaves every lock of the dead process to its TTL, and every other
\* thread with the lock it had.
LEMMA CrashCleanup ==
  ASSUME SessionBindingAssumption, TypeOK, CleanupInv,
         NEW a \in Servers, Crash(a)
  PROVE  CleanupInv'
<1> USE DEF TypeOK
<1>1. /\ \A b \in Servers : b # a => cur'[b] = cur[b]
      /\ lpc'[a] = "idle"
      /\ \A b \in Servers : lpc'[b] \in LoginCS => lpc[b] \in LoginCS
      /\ UNCHANGED usession
  BY DEF Crash, LoginCS
<1>2. \A u \in Uids : lock[u] \in Threads /\ ServerOf(lock[u]) # a
                        => lock'[u] = lock[u]
  BY DEF Crash
<1>3. LoginHoldsLock'
  <2>1. SUFFICES ASSUME NEW b \in Servers, b # a, lpc[b] \in LoginCS
                 PROVE  lock'[cur[b].uid] = Logic(b)
    BY <1>1 DEF LoginHoldsLock, LoginCS
  <2>2. lock[cur[b].uid] = Logic(b) /\ cur[b].uid \in Uids
    BY <2>1 DEF CleanupInv, LoginHoldsLock, LoginCS, Request, Uids
  <2>3. ServerOf(Logic(b)) = b
    BY DEF ServerOf, Logic, LogicThreads
  <2>4. QED
    BY <1>2, <2>1, <2>2, <2>3, ThreadsDiffer
<1>4. ASSUME NEW h \in Cleaners, epc'[h] # "idle"
      PROVE  /\ epc'[h] = epc[h] /\ euid'[h] = euid[h] /\ Home[h[2]] # a
             /\ sock[h[2]] = "closed" /\ sock'[h[2]] = "closed"
  <2>1. epc'[h] = epc[h] /\ euid'[h] = euid[h] /\ epc[h] # "idle"
    BY <1>4 DEF Crash
  <2>2. sock[h[2]] = "closed" /\ h[2] \in Sessions
    BY <2>1, ThreadsDiffer DEF CleanupInv, CleanedIsClosed
  <2>3. Home[h[2]] # a
    BY <1>4, <2>1, <2>2 DEF Crash
  <2>4. QED
    BY <2>1, <2>2, <2>3 DEF Crash
<1>5. CleanerHoldsLock'
  <2>1. SUFFICES ASSUME NEW h \in Cleaners,
                        epc'[h] \in {"check", "delSession", "delIp"}
                 PROVE  lock'[euid'[h]] = h
    BY DEF CleanerHoldsLock
  <2>2. /\ epc[h] \in {"check", "delSession", "delIp"}
        /\ euid'[h] = euid[h] /\ Home[h[2]] # a
    BY <1>4, <2>1
  <2>3. lock[euid[h]] = h /\ euid[h] \in Uids
    BY <2>2 DEF CleanupInv, CleanerHoldsLock
  <2>4. h \notin LogicThreads
    BY DEF Cleaners, LogicThreads
  <2>5. QED
    BY <1>2, <2>2, <2>3, <2>4, ThreadsDiffer DEF ServerOf
<1>6. CleanedIsClosed'
  BY <1>4 DEF CleanedIsClosed
<1>7. DeletesOwnSession'
  <2>1. SUFFICES ASSUME NEW h \in Cleaners, epc'[h] = "delSession"
                 PROVE  usession'[euid'[h]] = h[2]
    BY DEF DeletesOwnSession
  <2>2. epc[h] = "delSession" /\ euid'[h] = euid[h]
    BY <1>4, <2>1
  <2>3. QED
    BY <1>1, <2>2 DEF CleanupInv, DeletesOwnSession
<1>8. QED
  BY <1>3, <1>5, <1>6, <1>7 DEF CleanupInv

\* on_timer keeps CleanupInv: it closes a session before it cleans it up.
LEMMA TimerCleanup ==
  ASSUME SessionBindingAssumption, TypeOK, CleanupInv,
         \/ \E s \in Sessions : StartTimerCleanup(s)
         \/ \E a \in Servers : \E E \in SUBSET SessionsOf(a) : OnTimer(a, E)
  PROVE  CleanupInv'
<1> USE DEF TypeOK, CleanupInv, redis, tables, logic, reader
<1>1. ASSUME NEW s \in Sessions, StartTimerCleanup(s)
      PROVE  CleanupInv'
  <2>1. /\ UNCHANGED <<lock, usession, sock, lpc, cur>>
        /\ \A h \in Cleaners : epc'[h] # "acquire" =>
                                 epc'[h] = epc[h] /\ euid'[h] = euid[h]
        /\ \A h \in Cleaners : epc'[h] # "idle" => epc[h] # "idle"
    BY <1>1 DEF StartTimerCleanup
  <2>2. QED
    BY <2>1 DEF LoginHoldsLock, CleanerHoldsLock, CleanedIsClosed,
                DeletesOwnSession
<1>2. ASSUME NEW a \in Servers, NEW E \in SUBSET SessionsOf(a), OnTimer(a, E)
      PROVE  CleanupInv'
  <2>1. /\ UNCHANGED <<lock, usession, euid, lpc, cur>>
        /\ \A h \in Cleaners : epc'[h] # "pending" => epc'[h] = epc[h]
        /\ \A h \in Cleaners : epc'[h] # epc[h] => h[2] \in E
        /\ \A s \in Sessions : s \in E \/ sock[s] = "closed" =>
                                 sock'[s] = "closed"
    BY <1>2 DEF OnTimer
  <2>2. CleanedIsClosed'
    BY <2>1, ThreadsDiffer DEF CleanedIsClosed
  <2>3. QED
    BY <2>1, <2>2 DEF LoginHoldsLock, CleanerHoldsLock, DeletesOwnSession
<1>3. QED
  BY <1>1, <1>2

\* A lock that runs out keeps CleanupInv when only dead holders' locks do.
LEMMA ExpireCleanup ==
  ASSUME SessionBindingAssumption, Exclusive, TypeOK, CleanupInv,
         NEW v \in Uids, LockExpire(v)
  PROVE  CleanupInv'
<1> USE DEF TypeOK, redis, tables, logic, reader, cleanup, deaths
<1>1. /\ UNCHANGED <<usession, lpc, cur, epc, euid, sock>>
      /\ \A u \in Uids : lock[u] # Orphan => lock'[u] = lock[u]
  BY DEF LockExpire, Exclusive
<1>2. \A a \in Servers : lpc[a] \in LoginCS => cur[a].uid \in Uids
  BY DEF LoginCS, Request, Uids
<1>3. LoginHoldsLock'
  BY <1>1, <1>2, ThreadsDiffer DEF CleanupInv, LoginHoldsLock
<1>4. CleanerHoldsLock'
  <2>1. SUFFICES ASSUME NEW h \in Cleaners,
                        epc[h] \in {"check", "delSession", "delIp"}
                 PROVE  lock'[euid[h]] = h
    BY <1>1 DEF CleanerHoldsLock
  <2>2. lock[euid[h]] = h /\ euid[h] \in Uids
    BY <2>1 DEF CleanupInv, CleanerHoldsLock
  <2>3. QED
    BY <1>1, <2>2, ThreadsDiffer
<1>5. CleanedIsClosed' /\ DeletesOwnSession'
  BY <1>1 DEF CleanupInv, CleanedIsClosed, DeletesOwnSession
<1>6. QED
  BY <1>3, <1>4, <1>5 DEF CleanupInv

\* CleanupInv is inductive, given the types.
LEMMA NextCleanup ==
  ASSUME SessionBindingAssumption, Exclusive, TypeOK, CleanupInv, [Next]_vars
  PROVE  CleanupInv'
<1>1. CASE UNCHANGED vars
  BY <1>1 DEF vars, redis, logic, cleanup, CleanupInv, LoginHoldsLock,
              CleanerHoldsLock, CleanedIsClosed, DeletesOwnSession
<1>2. ASSUME NEW s \in Sessions, SessionStep(s)
      PROVE  CleanupInv'
  BY <1>2, SessionStepCleanup
<1>3. ASSUME NEW a \in Servers, LogicStep(a)
      PROVE  CleanupInv'
  BY <1>3, LogicStepCleanup
<1>4. ASSUME NEW h \in Cleaners, CleanStep(h)
      PROVE  CleanupInv'
  BY <1>4, CleanStepCleanup
<1>5. ASSUME NEW a \in Servers, Crash(a)
      PROVE  CleanupInv'
  BY <1>5, CrashCleanup
<1>6. ASSUME NEW u \in Uids, LockExpire(u)
      PROVE  CleanupInv'
  BY <1>6, ExpireCleanup
<1>7. ASSUME NEW k \in strays, StrayStep(k)
      PROVE  CleanupInv'
  BY <1>7, StrayFrame
     DEF redis, logic, cleanup, CleanupInv, LoginHoldsLock, CleanerHoldsLock,
         CleanedIsClosed, DeletesOwnSession
<1>8. QED
  BY <1>1, <1>2, <1>3, <1>4, <1>5, <1>6, <1>7, TimerCleanup DEF Next

\* Between acquireLock and releaseLock, LoginHandler and DealExceptionSession
\* own the user's lock, and a clean-up that is about to delete usession finds
\* its own, closed session there.
THEOREM CleanupInvHolds ==
  ASSUME SessionBindingAssumption, Exclusive
  PROVE  Spec => []CleanupInv
<1>1. Init => CleanupInv
  BY InitCleanup
<1>2. TypeOK /\ CleanupInv /\ [Next]_vars => CleanupInv'
  BY NextCleanup
<1>3. QED
  BY <1>1, <1>2, TypeCorrect, PTL DEF Spec

\* One step under the invariant: only a cleaner deletes usession, and the
\* session it deletes is its own.
LEMMA StealStep ==
  ASSUME SessionBindingAssumption, TypeOK, CleanupInv, [Next]_vars,
         NEW u \in Uids, usession[u] # Nil, usession'[u] = Nil
  PROVE  sock[usession[u]] = "closed"
<1> USE DEF TypeOK, redis, tables, logic, reader, cleanup, deaths
<1>1. ASSUME NEW s \in Sessions, SessionStep(s)
      PROVE  FALSE
  BY <1>1 DEF SessionStep, Accept, Insert, ReadMessage, PostMsgToQue,
     RejectMessage, BadHeader, ReadError, WriteDone, WriteError
<1>2. ASSUME NEW a \in Servers, LogicStep(a)
      PROVE  FALSE
  <2>1. CASE SetSessionKey(a)
    <3>1. cur[a].sess \in Sessions
      BY <2>1 DEF SetSessionKey, Request
    <3>2. QED
      BY <2>1, <3>1 DEF SetSessionKey, SessionBindingAssumption
  <2>2. CASE ~SetSessionKey(a)
    BY <1>2, <2>2 DEF LogicStep, RefuseLogin, StartLogin, Take, LoginAcquire,
       LoginTimeout, ReadIp, LookupOld, KickFails, ClearOld, SetUserId, SetIp,
       SetUserSession, LoginRelease, LoginReply
  <2>3. QED
    BY <2>1, <2>2
<1>3. ASSUME NEW h \in Cleaners, CleanStep(h)
      PROVE  sock[usession[u]] = "closed"
  <2>1. CASE DelSession(h)
    <3>1. u = euid[h] /\ epc[h] = "delSession"
      BY <2>1 DEF DelSession
    <3>2. QED
      BY <3>1 DEF CleanupInv, DeletesOwnSession, CleanedIsClosed
  <2>2. CASE ~DelSession(h)
    BY <1>3, <2>2 DEF CleanStep, CleanAcquire, CleanTimeout, CheckSession,
       DelIp, CleanClear, CleanRelease
  <2>3. QED
    BY <2>1, <2>2
<1>4. ASSUME \/ \E s \in Sessions : StartTimerCleanup(s)
             \/ \E a \in Servers : Crash(a)
             \/ \E a \in Servers : \E E \in SUBSET SessionsOf(a) : OnTimer(a, E)
             \/ \E v \in Uids : LockExpire(v)
      PROVE  FALSE
  BY <1>4 DEF StartTimerCleanup, Crash, OnTimer, LockExpire
<1>5. CASE UNCHANGED vars
  BY <1>5 DEF vars
<1>6. ASSUME NEW k \in strays, StrayStep(k)
      PROVE  FALSE
  BY <1>6, StrayFrame
<1>7. QED
  BY <1>1, <1>2, <1>3, <1>4, <1>5, <1>6 DEF Next

\* DealExceptionSession of an old connection never deletes the session key of a
\* newer login, provided logins get their lock and no holder outstays its TTL.
THEOREM NeverStealHolds ==
  ASSUME SessionBindingAssumption, Exclusive
  PROVE  Spec => NeverSteal
<1>1. TypeOK /\ CleanupInv /\ [Next]_vars =>
        [\A u \in Uids : usession[u] # Nil /\ usession'[u] = Nil =>
                           sock[usession[u]] = "closed"]_vars
  BY StealStep
<1>2. QED
  BY <1>1, TypeCorrect, CleanupInvHolds, PTL DEF Spec, NeverSteal

\* One step: who takes a living thread's lock away.  No assumption but types: a
\* thread whose lock ran out compares identifiers before it deletes.
LEMMA ReleaseStep ==
  ASSUME SessionBindingAssumption, TypeOK, [Next]_vars,
         NEW u \in Uids, NEW t \in Threads, lock[u] = t, lock'[u] # t
  PROVE  \/ Releasing(t) /\ ~Releasing(t)'
         \/ LockExpire(u)
         \/ \E a \in Servers : Crash(a)
<1>t. /\ lock \in [Uids -> Threads \cup {Nil, Orphan}]
      /\ lpc \in [Servers -> LogicPcs]
      /\ epc \in [Cleaners -> CleanPcs]
  BY DEF TypeOK
<1>1. ASSUME NEW s \in Sessions, SessionStep(s) \/ StartTimerCleanup(s)
      PROVE  FALSE
  BY <1>1 DEF SessionStep, Accept, Insert, ReadMessage, PostMsgToQue,
     RejectMessage, BadHeader, ReadError, WriteDone, WriteError,
     StartTimerCleanup, redis
<1>2. ASSUME NEW a \in Servers, LogicStep(a)
      PROVE  Releasing(t) /\ ~Releasing(t)'
  <2>1. CASE LoginRelease(a)
    <3>1. t = Logic(a) /\ lpc[a] = "release" /\ lpc'[a] = "reply"
      BY <1>t, <2>1 DEF LoginRelease, ReleaseLock
    <3>2. t \in LogicThreads /\ t[2] = a
      BY <3>1 DEF LogicThreads, Logic
    <3>3. QED
      BY <3>1, <3>2 DEF Releasing
  <2>2. CASE LoginAcquire(a)
    BY <1>t, <2>2, ThreadsDiffer DEF LoginAcquire, AcquireLock
  <2>3. CASE ~LoginRelease(a) /\ ~LoginAcquire(a)
    BY <1>2, <2>3 DEF LogicStep, RefuseLogin, StartLogin, LoginTimeout, ReadIp,
       LookupOld, KickFails, ClearOld, SetUserId, SetIp, SetUserSession,
       SetSessionKey, LoginReply, redis
  <2>4. QED
    BY <2>1, <2>2, <2>3
<1>3. ASSUME NEW h \in Cleaners, CleanStep(h)
      PROVE  Releasing(t) /\ ~Releasing(t)'
  <2>1. CASE CleanRelease(h)
    <3>1. t = h /\ epc[h] = "release" /\ epc'[h] = "idle"
      BY <1>t, <2>1 DEF CleanRelease, ReleaseLock
    <3>2. h[1] # "logic"
      BY DEF Cleaners
    <3>3. t \notin LogicThreads
      BY <3>1, <3>2 DEF LogicThreads
    <3>4. QED
      BY <3>1, <3>3 DEF Releasing
  <2>2. CASE CleanAcquire(h)
    BY <1>t, <2>2, ThreadsDiffer DEF CleanAcquire, AcquireLock
  <2>3. CASE ~CleanRelease(h) /\ ~CleanAcquire(h)
    BY <1>3, <2>3 DEF CleanStep, CleanTimeout, CheckSession, DelSession, DelIp,
       CleanClear, redis
  <2>4. QED
    BY <2>1, <2>2, <2>3
<1>4. ASSUME NEW a \in Servers, NEW E \in SUBSET SessionsOf(a), OnTimer(a, E)
      PROVE  FALSE
  BY <1>4 DEF OnTimer
<1>5. ASSUME NEW v \in Uids, LockExpire(v)
      PROVE  LockExpire(u)
  <2>1. u = v
    BY <1>t, <1>5 DEF LockExpire
  <2>2. QED
    BY <1>5, <2>1
<1>6. CASE UNCHANGED vars
  BY <1>6 DEF vars, redis
<1>7. ASSUME NEW k \in strays, StrayStep(k)
      PROVE  FALSE
  BY <1>7, StrayFrame DEF redis
<1>8. QED
  BY <1>1, <1>2, <1>3, <1>4, <1>5, <1>6, <1>7 DEF Next

\* A lock that names a living thread goes away only when that thread gives it
\* up, when its TTL runs out or with its process, whatever times out or runs out.
THEOREM ReleaseOnlyOwnHolds ==
  ASSUME SessionBindingAssumption
  PROVE  Spec => ReleaseOnlyOwn
<1>1. TypeOK /\ [Next]_vars =>
        [\A u \in Uids : \A t \in Threads : lock[u] = t /\ lock'[u] # t =>
           \/ Releasing(t) /\ ~Releasing(t)'
           \/ LockExpire(u)
           \/ \E a \in Servers : Crash(a)]_vars
  BY ReleaseStep
<1>2. QED
  BY <1>1, TypeCorrect, PTL DEF Spec, ReleaseOnlyOwn
-----------------------------------------------------------------------------
(* No living thread forgets a lock: again without any assumption on what    *)
(* times out, runs out or fails.                                            *)

\* What a step has to leave alone for HolderWorks: a lock is taken for the uid
\* its new holder is about to work on, and a holder stays in its critical
\* section unless the step gives its lock up.
LocksKept ==
  /\ \A u \in Uids : \A a \in Servers : lock'[u] = Logic(a) =>
       \/ lock[u] = Logic(a)
       \/ lpc'[a] \in LoginCS /\ cur'[a].uid = u
  /\ \A u \in Uids : \A h \in Cleaners : lock'[u] = h =>
       lock[u] = h \/ (epc'[h] \in CleanCS /\ euid'[h] = u)
HoldersKept ==
  /\ \A a \in Servers : lpc[a] \in LoginCS =>
       \/ lpc'[a] \in LoginCS /\ cur'[a] = cur[a]
       \/ \A u \in Uids : u = cur[a].uid => lock'[u] # Logic(a)
  /\ \A h \in Cleaners : epc[h] \in CleanCS =>
       \/ epc'[h] \in CleanCS /\ euid'[h] = euid[h]
       \/ \A u \in Uids : u = euid[h] => lock'[u] # h

LEMMA HolderKept ==
  ASSUME HolderWorks, LocksKept, HoldersKept
  PROVE  HolderWorks'
<1>1. ASSUME NEW u \in Uids, NEW a \in Servers, lock'[u] = Logic(a)
      PROVE  lpc'[a] \in LoginCS /\ cur'[a].uid = u
  BY <1>1 DEF HolderWorks, LocksKept, HoldersKept
<1>2. ASSUME NEW u \in Uids, NEW h \in Cleaners, lock'[u] = h
      PROVE  epc'[h] \in CleanCS /\ euid'[h] = u
  BY <1>2 DEF HolderWorks, LocksKept, HoldersKept
<1>3. QED
  BY <1>1, <1>2 DEF HolderWorks, Logic

\* The read and write chains and the timer start clean-ups only where none is
\* under way.
LEMMA SessionStepHolder ==
  ASSUME SessionBindingAssumption, TypeOK, HolderWorks,
         NEW s \in Sessions, SessionStep(s) \/ StartTimerCleanup(s)
  PROVE  HolderWorks'
<1> USE DEF TypeOK, redis, tables, logic, reader, cleanup, deaths
<1>1. UNCHANGED <<lock, lpc, cur>>
  BY DEF SessionStep, Accept, Insert, ReadMessage, PostMsgToQue, RejectMessage,
         BadHeader, ReadError, WriteDone, WriteError, StartTimerCleanup
<1>2. \A h \in Cleaners : epc[h] \in CleanCS =>
        epc'[h] = epc[h] /\ euid'[h] = euid[h]
  BY DEF SessionStep, Accept, Insert, ReadMessage, PostMsgToQue, RejectMessage,
         BadHeader, ReadError, WriteDone, WriteError, StartTimerCleanup,
         StartIoCleanup, IoIdle, CleanCS
<1>3. QED
  BY <1>1, <1>2, HolderKept DEF LocksKept, HoldersKept

\* LoginHandler takes its user's lock and gives it up; in between it works on
\* one request.
LEMMA LogicStepHolder ==
  ASSUME SessionBindingAssumption, TypeOK, HolderWorks,
         NEW a \in Servers, LogicStep(a)
  PROVE  HolderWorks'
<1> USE DEF TypeOK, redis, tables, logic, reader, cleanup, deaths
<1>1. UNCHANGED <<epc, euid>>
  BY DEF LogicStep, RefuseLogin, StartLogin, Take, LoginAcquire, LoginTimeout,
         ReadIp, LookupOld, KickFails, ClearOld, SetUserId, SetIp,
         SetUserSession, SetSessionKey, LoginRelease, LoginReply
<1>2. CASE LoginAcquire(a)
  <2>1. /\ lock' = [lock EXCEPT ![cur[a].uid] = Logic(a)]
        /\ lpc[a] = "acquire" /\ lpc' = [lpc EXCEPT ![a] = "readIp"]
        /\ cur' = cur
    BY <1>2 DEF LoginAcquire, AcquireLock
  <2>2. LocksKept
    BY <1>1, <2>1, ThreadsDiffer DEF LocksKept, LoginCS
  <2>3. HoldersKept
    BY <1>1, <2>1 DEF HoldersKept, LoginCS
  <2>4. QED
    BY <2>2, <2>3, HolderKept
<1>3. CASE LoginRelease(a)
  <2>1. /\ lock' = [lock EXCEPT ![cur[a].uid] = IF @ = Logic(a) THEN Nil ELSE @]
        /\ lpc[a] = "release" /\ lpc' = [lpc EXCEPT ![a] = "reply"]
        /\ cur' = cur
    BY <1>3 DEF LoginRelease, ReleaseLock
  <2>2. LocksKept
    BY <2>1, ThreadsDiffer DEF LocksKept
  <2>3. HoldersKept
    BY <1>1, <2>1, ThreadsDiffer DEF HoldersKept
  <2>4. QED
    BY <2>2, <2>3, HolderKept
<1>4. CASE ~LoginAcquire(a) /\ ~LoginRelease(a)
  <2>1. UNCHANGED lock
    BY <1>4 DEF LogicStep, RefuseLogin, StartLogin, Take, LoginTimeout, ReadIp,
       LookupOld, KickFails, ClearOld, SetUserId, SetIp, SetUserSession,
       SetSessionKey, LoginReply
  <2>2. \A b \in Servers : lpc[b] \in LoginCS =>
          lpc'[b] \in LoginCS /\ cur'[b] = cur[b]
    BY <1>4 DEF LogicStep, RefuseLogin, StartLogin, Take, LoginTimeout, ReadIp,
       LookupOld, KickFails, ClearOld, SetUserId, SetIp, SetUserSession,
       SetSessionKey, LoginReply, LoginCS
  <2>3. QED
    BY <1>1, <2>1, <2>2, HolderKept DEF LocksKept, HoldersKept
<1>5. QED
  BY <1>2, <1>3, <1>4

\* DealExceptionSession takes and gives up the lock of the uid it read first,
\* whatever uid the session has by then.
LEMMA CleanStepHolder ==
  ASSUME SessionBindingAssumption, TypeOK, HolderWorks,
         NEW h \in Cleaners, CleanStep(h)
  PROVE  HolderWorks'
<1> USE DEF TypeOK, redis, tables, logic, reader, cleanup, deaths
<1>1. UNCHANGED <<lpc, cur>>
  BY DEF CleanStep, CleanAcquire, CleanTimeout, CheckSession, DelSession, DelIp,
         CleanClear, CleanRelease
<1>2. CASE CleanAcquire(h)
  <2>1. /\ lock' = [lock EXCEPT ![euid[h]] = h]
        /\ epc[h] = "acquire" /\ epc' = [epc EXCEPT ![h] = "check"]
        /\ euid' = euid
    BY <1>2 DEF CleanAcquire, AcquireLock
  <2>2. LocksKept
    BY <1>1, <2>1, ThreadsDiffer DEF LocksKept, CleanCS
  <2>3. HoldersKept
    BY <1>1, <2>1 DEF HoldersKept, CleanCS
  <2>4. QED
    BY <2>2, <2>3, HolderKept
<1>3. CASE CleanRelease(h)
  <2>1. /\ lock' = [lock EXCEPT ![euid[h]] = IF @ = h THEN Nil ELSE @]
        /\ \A k \in Cleaners : k # h => epc'[k] = epc[k] /\ euid'[k] = euid[k]
    BY <1>3 DEF CleanRelease, ReleaseLock
  <2>2. LocksKept
    BY <2>1, ThreadsDiffer DEF LocksKept
  <2>3. HoldersKept
    BY <1>1, <2>1, ThreadsDiffer DEF HoldersKept
  <2>4. QED
    BY <2>2, <2>3, HolderKept
<1>4. CASE ~CleanAcquire(h) /\ ~CleanRelease(h)
  <2>1. UNCHANGED <<lock, euid>>
    BY <1>4 DEF CleanStep, CleanTimeout, CheckSession, DelSession, DelIp,
       CleanClear
  <2>2. \A k \in Cleaners : epc[k] \in CleanCS => epc'[k] \in CleanCS
    BY <1>4 DEF CleanStep, CleanTimeout, CheckSession, DelSession, DelIp,
       CleanClear, CleanCS
  <2>3. QED
    BY <1>1, <2>1, <2>2, HolderKept DEF LocksKept, HoldersKept
<1>5. QED
  BY <1>2, <1>3, <1>4

\* The locks of a process that dies name none of its threads any more.
LEMMA CrashHolder ==
  ASSUME SessionBindingAssumption, TypeOK, HolderWorks,
         NEW a \in Servers, Crash(a)
  PROVE  HolderWorks'
<1> USE DEF TypeOK
<1>1. lock' = [u \in Uids |-> IF lock[u] \in Threads /\ ServerOf(lock[u]) = a
                              THEN Orphan ELSE lock[u]]
  BY DEF Crash
<1>2. /\ ServerOf(Logic(a)) = a
      /\ \A h \in Cleaners : ServerOf(h) = Home[h[2]]
  <2>1. \A h \in Cleaners : h \notin LogicThreads
    BY DEF Cleaners, LogicThreads
  <2>2. QED
    BY <2>1 DEF ServerOf, Logic, LogicThreads
<1>3. \A u \in Uids : lock'[u] # Logic(a)
  BY <1>1, <1>2, ThreadsDiffer
<1>4. \A u \in Uids : \A h \in Cleaners : Home[h[2]] = a => lock'[u] # h
  BY <1>1, <1>2, ThreadsDiffer
<1>5. LocksKept
  BY <1>1, ThreadsDiffer DEF LocksKept
<1>6. HoldersKept
  <2>1. \A b \in Servers : b # a => /\ lpc[b] \in LoginCS => lpc'[b] \in LoginCS
                                    /\ cur'[b] = cur[b]
    BY DEF Crash, LoginCS
  <2>2. \A h \in Cleaners : Home[h[2]] # a =>
          epc'[h] = epc[h] /\ euid'[h] = euid[h]
    BY DEF Crash
  <2>3. QED
    BY <1>3, <1>4, <2>1, <2>2 DEF HoldersKept
<1>7. QED
  BY <1>5, <1>6, HolderKept

\* HolderWorks is inductive, given the types.
LEMMA NextHolder ==
  ASSUME SessionBindingAssumption, TypeOK, HolderWorks, [Next]_vars
  PROVE  HolderWorks'
<1>1. ASSUME NEW a \in Servers, NEW E \in SUBSET SessionsOf(a), OnTimer(a, E)
      PROVE  HolderWorks'
  <2>1. UNCHANGED <<lock, lpc, cur, euid>>
    BY <1>1 DEF OnTimer, logic
  <2>2. \A h \in Cleaners : epc[h] \in CleanCS => epc'[h] = epc[h]
    <3>1. SUFFICES ASSUME NEW h \in Cleaners, h[1] = "timer", h[2] \in E
                   PROVE  epc[h] = "idle"
      BY <1>1 DEF OnTimer, TypeOK, CleanCS
    <3>2. h = TimerOf(h[2]) /\ h[2] \in Sessions
      BY <3>1 DEF Cleaners, TimerOf
    <3>3. Home[h[2]] = a
      BY <3>1 DEF SessionsOf
    <3>4. QED
      BY <1>1, <3>2, <3>3 DEF OnTimer, MainIdle
  <2>3. QED
    BY <2>1, <2>2, HolderKept DEF LocksKept, HoldersKept
<1>2. ASSUME NEW u \in Uids, LockExpire(u)
      PROVE  HolderWorks'
  <2>1. /\ UNCHANGED <<lpc, cur, epc, euid>>
        /\ lock' = [lock EXCEPT ![u] = Nil]
    BY <1>2 DEF LockExpire, logic, cleanup
  <2>2. QED
    BY <2>1, ThreadsDiffer, HolderKept DEF LocksKept, HoldersKept, TypeOK
<1>3. CASE UNCHANGED vars
  BY <1>3 DEF vars, redis, logic, cleanup, HolderWorks
<1>4. ASSUME NEW k \in strays, StrayStep(k)
      PROVE  HolderWorks'
  BY <1>4, StrayFrame DEF redis, logic, cleanup, HolderWorks
<1>5. QED
  BY <1>1, <1>2, <1>3, <1>4, SessionStepHolder, LogicStepHolder,
     CleanStepHolder, CrashHolder DEF Next

\* A lock of a living thread belongs to one that is on its way to its release and
\* waits for no other lock, whatever times out, runs out, fails or dies: locks
\* are left behind by dead processes only, and threads that wait for locks cannot
\* wait for each other.
THEOREM HolderWorksHolds ==
  ASSUME SessionBindingAssumption
  PROVE  Spec => []HolderWorks
<1>1. Init => HolderWorks
  BY ThreadsDiffer DEF Init, HolderWorks
<1>2. TypeOK /\ HolderWorks /\ [Next]_vars => HolderWorks'
  BY NextHolder
<1>3. QED
  BY <1>1, <1>2, TypeCorrect, PTL DEF Spec
=============================================================================
