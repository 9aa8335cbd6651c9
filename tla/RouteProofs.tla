----------------------------- MODULE RouteProofs -----------------------------
(***************************************************************************)
(* A user has one live login, and the three lookups lead to it, for every  *)
(* cluster, every set of sessions and users, and any number of crashes, as *)
(* long as logins get their locks in time and kicks reach running servers. *)
(* Seen from outside, session binding then implements Presence.            *)
(***************************************************************************)
EXTENDS SessionBindingProofs

Reliable == Exclusive /\ ~RpcMayFail
-----------------------------------------------------------------------------
(* The invariant.                                                          *)

\* A session whose connection was not accepted yet, or that HandleAccept has
\* not inserted yet.
Fresh(s) == sock[s] = "new" \/ s \in entering

\* Login requests come from members, so that whoever logs in has been inserted:
\* nobody enters _sessions logged in.
RequestInv ==
  /\ \A a \in Servers : \A i \in 1 .. Len(queue[a]) :
       Home[queue[a][i].sess] = a /\ ~Fresh(queue[a][i].sess)
  /\ \A a \in Servers : cur[a] # Nil =>
       Home[cur[a].sess] = a /\ ~Fresh(cur[a].sess)
  /\ \A s \in Sessions : Fresh(s) => userUid[s] = NoUser /\ rd[s] # "posting"
  /\ \A s \in members : ~Fresh(s)
  /\ \A s \in entering : sock[s] # "new"

\* The logic thread of s's server is writing the login of s as u, and what it
\* has written so far.
LoggingIn(s, u) ==
  /\ lpc[Home[s]] \in {"setIp", "setMgr", "setKey", "release"}
  /\ cur[Home[s]].sess = s /\ cur[Home[s]].uid = u
Written(s, u) ==
  LET a == Home[s]
  IN /\ lpc[a] \in {"setMgr", "setKey", "release"} => uip[u] = a
     /\ lpc[a] \in {"setKey", "release"} => userSession[a][u] = s
     /\ lpc[a] = "release" => usession[u] = s

\* A clean-up of s has begun to delete the keys of u, with the lock of u.
Leaving(s, u) ==
  \E h \in Cleaners : /\ h[2] = s /\ euid[h] = u /\ lock[u] = h
                      /\ epc[h] \in {"delIp", "clear"}

\* The lookups lead to s, unless s is leaving; a login of u that is under way
\* follows them to s and has not got past its removal.
OnTheWayTo(b, s) ==
  \/ lpc[b] = "readIp"
  \/ lpc[b] = "lookup" /\ lip[b] = Home[s]
  \/ lpc[b] = "clearOld" /\ lip[b] = Home[s] /\ lold[b] = s
Routed(s, u) ==
  /\ userSession[Home[s]][u] = s
  /\ (usession[u] = s /\ uip[u] = Home[s]) \/ Leaving(s, u)
  /\ \A b \in Servers : lpc[b] \in LoginCS /\ cur[b].uid = u => OnTheWayTo(b, s)

Bound(s, u) == IF LoggingIn(s, u) THEN Written(s, u) ELSE Routed(s, u)
RouteInv == \A u \in Users : \A s \in Live(u) : Bound(s, u)

\* A clean-up that deletes uip has deleted usession, and it stays deleted.
KeyGone == \A h \in Cleaners : epc[h] = "delIp" => usession[euid[h]] = Nil
-----------------------------------------------------------------------------
(* Requests.                                                               *)

\* At the start there are none.
LEMMA InitRequest == SessionBindingAssumption /\ Init => RequestInv
<1> SUFFICES ASSUME SessionBindingAssumption, Init PROVE RequestInv
  OBVIOUS
<1>1. \A a \in Servers : Len(queue[a]) = 0
  BY DEF Init
<1>2. QED
  BY <1>1 DEF Init, RequestInv, Fresh

\* What a step has to keep for RequestInv: sessions do not become fresh again,
\* and the requests are those there were.
FreshKept ==
  /\ \A s \in Sessions : Fresh(s)' => Fresh(s)
  /\ \A s \in entering' : sock'[s] # "new"
  /\ members' \subseteq members
UidKept ==
  \A s \in Sessions : Fresh(s)' =>
    /\ userUid'[s] = userUid[s] \/ userUid'[s] = NoUser
    /\ rd'[s] = "posting" => rd[s] = "posting"

LEMMA RequestKept ==
  ASSUME TypeOK, RequestInv, FreshKept, QueueKept, CurKept, UidKept
  PROVE  RequestInv'
<1>1. \A a \in Servers : \A i \in 1 .. Len(queue'[a]) :
        \E j \in 1 .. Len(queue[a]) : queue'[a][i] = queue[a][j]
  BY RequestsRemain
<1>2. \A a \in Servers : \A i \in 1 .. Len(queue'[a]) :
        LET s == queue'[a][i].sess
        IN Home[s] = a /\ sock'[s] # "new" /\ s \notin entering'
  BY <1>1, RequestSessions DEF RequestInv, FreshKept, Fresh
<1>3. \A a \in Servers : cur'[a] # Nil =>
        LET s == cur'[a].sess
        IN Home[s] = a /\ sock'[s] # "new" /\ s \notin entering'
  BY RequestsRemain, RequestSessions DEF RequestInv, FreshKept, Fresh
<1>4. \A s \in Sessions : Fresh(s)' => userUid'[s] = NoUser /\ rd'[s] # "posting"
  BY DEF RequestInv, FreshKept, UidKept
<1>5. \A s \in members' : ~Fresh(s)'
  <2>1. members \subseteq Sessions
    BY DEF TypeOK
  <2>2. QED
    BY <2>1 DEF RequestInv, FreshKept
<1>6. QED
  BY <1>2, <1>3, <1>4, <1>5 DEF RequestInv, FreshKept, Fresh

\* The read and write chains keep RequestInv: CheckValid lets only members'
\* messages through.
LEMMA SessionStepRequest ==
  ASSUME SessionBindingAssumption, TypeOK, RequestInv,
         NEW s \in Sessions, SessionStep(s)
  PROVE  RequestInv'
<1>t. /\ sock \in [Sessions -> {"new", "open", "closed"}]
      /\ rd \in [Sessions -> {"reading", "posting", "ended"}]
      /\ queue \in [Servers -> Seq(Request)]
      /\ entering \subseteq Sessions
      /\ Home[s] \in Servers
  BY DEF TypeOK, SessionBindingAssumption
<1> USE <1>t DEF tables, logic, reader, FreshKept, QueueKept, CurKept, UidKept
<1>1. CASE Accept(s)
  <2>1. FreshKept /\ UidKept
    BY <1>1 DEF Accept, Fresh, RequestInv
  <2>2. QueueKept /\ CurKept
    BY <1>1 DEF Accept
  <2>3. QED
    BY <2>1, <2>2, RequestKept
<1>2. CASE Insert(s)
  <2>1. /\ UNCHANGED <<queue, cur, userUid, rd, sock>>
        /\ members' = members \cup {s} /\ entering' = entering \ {s}
        /\ s \in entering
    BY <1>2 DEF Insert
  <2>2. sock[s] # "new"
    BY <2>1 DEF RequestInv
  <2>3. \A r \in Sessions : Fresh(r)' => Fresh(r)
    BY <2>1 DEF Fresh
  <2>4. \A a \in Servers : \A i \in 1 .. Len(queue'[a]) :
          LET r == queue'[a][i].sess
          IN Home[r] = a /\ sock'[r] # "new" /\ r \notin entering'
    BY <2>1, RequestSessions DEF RequestInv, Fresh
  <2>5. \A a \in Servers : cur'[a] # Nil =>
          LET r == cur'[a].sess
          IN Home[r] = a /\ sock'[r] # "new" /\ r \notin entering'
    BY <2>1, RequestSessions DEF RequestInv, Fresh
  <2>6. /\ \A r \in Sessions : Fresh(r)' => userUid'[r] = NoUser /\ rd'[r] # "posting"
        /\ \A r \in entering' : sock'[r] # "new"
    BY <2>1, <2>3 DEF RequestInv
  <2>7. \A r \in members' : ~Fresh(r)'
    BY <2>1, <2>2 DEF RequestInv, Fresh
  <2>8. QED
    BY <2>4, <2>5, <2>6, <2>7 DEF RequestInv, Fresh
<1>3. ASSUME NEW u \in Users, ReadMessage(s, u)
      PROVE  RequestInv'
  <2>1. FreshKept /\ UidKept
    BY <1>3 DEF ReadMessage, Fresh, RequestInv
  <2>2. QueueKept /\ CurKept
    BY <1>3 DEF ReadMessage
  <2>3. QED
    BY <2>1, <2>2, RequestKept
<1>4. CASE PostMsgToQue(s)
  <2> DEFINE a == Home[s]
             r == [sess |-> s, uid |-> pend[s]]
  <2>1. /\ queue' = [queue EXCEPT ![a] = Append(@, r)]
        /\ UNCHANGED <<cur, userUid, members, sock, entering>>
        /\ \A q \in Sessions : rd'[q] = "posting" => rd[q] = "posting"
        /\ rd[s] = "posting"
    BY <1>4 DEF PostMsgToQue
  <2>2. ~Fresh(s)
    BY <2>1 DEF RequestInv
  <2>3. r \in Request /\ r.sess = s /\ queue[a] \in Seq(Request)
    BY <1>4, <1>t DEF PostMsgToQue, Request, TypeOK
  <2> HIDE DEF r
  <2>4. ASSUME NEW i \in 1 .. Len(Append(queue[a], r))
        PROVE  \/ i \in 1 .. Len(queue[a]) /\ Append(queue[a], r)[i] = queue[a][i]
               \/ Append(queue[a], r)[i] = r
    BY <2>3, <2>4
  <2>5. \A b \in Servers : \A i \in 1 .. Len(queue'[b]) :
          Home[queue'[b][i].sess] = b /\ ~Fresh(queue'[b][i].sess)
    BY <2>1, <2>2, <2>3, <2>4 DEF RequestInv
  <2>6. QED
    BY <2>1, <2>5 DEF RequestInv, Fresh
<1>5. CASE RejectMessage(s)
  <2>1. FreshKept /\ UidKept
    BY <1>5 DEF RejectMessage, Fresh, RequestInv
  <2>2. QueueKept /\ CurKept
    BY <1>5 DEF RejectMessage
  <2>3. QED
    BY <2>1, <2>2, RequestKept
<1>6. CASE BadHeader(s)
  <2>1. FreshKept /\ UidKept
    BY <1>6 DEF BadHeader, ClearSession, Fresh, RequestInv
  <2>2. QueueKept /\ CurKept
    BY <1>6 DEF BadHeader
  <2>3. QED
    BY <2>1, <2>2, RequestKept
<1>7. CASE ReadError(s) \/ WriteError(s)
  <2>1. FreshKept /\ UidKept
    BY <1>7 DEF ReadError, WriteError, StartIoCleanup, Fresh, RequestInv, tables
  <2>2. QueueKept /\ CurKept
    BY <1>7 DEF ReadError, WriteError
  <2>3. QED
    BY <2>1, <2>2, RequestKept
<1>8. CASE WriteDone(s)
  <2>1. FreshKept /\ UidKept /\ QueueKept /\ CurKept
    BY <1>8 DEF WriteDone, Fresh, RequestInv, tables
  <2>2. QED
    BY <2>1, RequestKept
<1>9. QED
  BY <1>1, <1>2, <1>3, <1>4, <1>5, <1>6, <1>7, <1>8 DEF SessionStep

\* The logic thread keeps RequestInv: it logs in only sessions that are in.
LEMMA LogicStepRequest ==
  ASSUME SessionBindingAssumption, TypeOK, RequestInv,
         NEW a \in Servers, LogicStep(a)
  PROVE  RequestInv'
<1>t. /\ userUid \in [Sessions -> Uids]
      /\ queue \in [Servers -> Seq(Request)]
      /\ cur \in [Servers -> Request \cup {Nil}]
      /\ members \subseteq Sessions
  BY DEF TypeOK
<1>1. FreshKept
  <2>1. UNCHANGED <<sock, entering>> /\ members' \subseteq members
    BY DEF LogicStep, RefuseLogin, StartLogin, LoginAcquire, LoginTimeout,
           ReadIp, LookupOld, KickFails, ClearOld, ClearSession, SetUserId,
           SetIp, SetUserSession, SetSessionKey, LoginRelease, LoginReply,
           tables
  <2>2. QED
    BY <2>1 DEF FreshKept, Fresh, RequestInv
<1>2. QueueKept
  BY <1>t DEF LogicStep, RefuseLogin, StartLogin, Take, LoginAcquire,
     LoginTimeout, ReadIp, LookupOld, KickFails, ClearOld, SetUserId, SetIp,
     SetUserSession, SetSessionKey, LoginRelease, LoginReply, QueueKept
<1>3. CurKept
  BY <1>t DEF LogicStep, RefuseLogin, StartLogin, Take, LoginAcquire,
     LoginTimeout, ReadIp, LookupOld, KickFails, ClearOld, SetUserId, SetIp,
     SetUserSession, SetSessionKey, LoginRelease, LoginReply, CurKept, logic
<1>4. UidKept
  <2>1. CASE SetUserId(a)
    <3>1. cur[a] # Nil
      BY <2>1 DEF SetUserId, TypeOK, SessionBindingAssumption
    <3>2. ~Fresh(cur[a].sess)
      BY <3>1 DEF RequestInv
    <3>3. UNCHANGED <<sock, entering, rd>>
          /\ \A s \in Sessions : s # cur[a].sess => userUid'[s] = userUid[s]
      BY <1>t, <2>1 DEF SetUserId, reader
    <3>4. QED
      BY <3>2, <3>3 DEF UidKept, Fresh
  <2>2. CASE ~SetUserId(a)
    BY <2>2 DEF LogicStep, RefuseLogin, StartLogin, LoginAcquire,
       LoginTimeout, ReadIp, LookupOld, KickFails, ClearOld, SetIp,
       SetUserSession, SetSessionKey, LoginRelease, LoginReply, UidKept, reader
  <2>3. QED
    BY <2>1, <2>2
<1>5. QED
  BY <1>1, <1>2, <1>3, <1>4, RequestKept

\* Clean-ups, the timer, crashes and the lock's time to live keep RequestInv.
LEMMA OtherStepRequest ==
  ASSUME SessionBindingAssumption, TypeOK, RequestInv,
         \/ \E h \in Cleaners : CleanStep(h)
         \/ \E s \in Sessions : StartTimerCleanup(s)
         \/ \E a \in Servers : Crash(a)
         \/ \E a \in Servers : \E E \in SUBSET SessionsOf(a) : OnTimer(a, E)
         \/ \E u \in Uids : LockExpire(u)
         \/ \E k \in strays : StrayStep(k)
  PROVE  RequestInv'
<1>t. /\ entering \subseteq Sessions
      /\ queue \in [Servers -> Seq(Request)]
      /\ cur \in [Servers -> Request \cup {Nil}]
  BY DEF TypeOK
<1> USE <1>t DEF tables, logic, reader, FreshKept, QueueKept, CurKept, UidKept
<1>1. ASSUME NEW h \in Cleaners, CleanStep(h)
      PROVE  RequestInv'
  <2>1. /\ UNCHANGED <<queue, cur, userUid, sock, rd, entering>>
        /\ members' \subseteq members
    BY <1>1 DEF CleanStep, CleanAcquire, CleanTimeout, CheckSession, DelSession,
       DelIp, CleanClear, ClearSession, CleanRelease, tables
  <2>2. QED
    BY <2>1, RequestKept DEF Fresh, RequestInv
<1>2. ASSUME NEW s \in Sessions, StartTimerCleanup(s)
      PROVE  RequestInv'
  <2>1. UNCHANGED <<queue, cur, userUid, sock, rd, entering, members>>
    BY <1>2 DEF StartTimerCleanup, tables
  <2>2. QED
    BY <2>1, RequestKept DEF Fresh, RequestInv
<1>3. ASSUME NEW a \in Servers, NEW E \in SUBSET SessionsOf(a), OnTimer(a, E)
      PROVE  RequestInv'
  <2>1. UNCHANGED <<queue, cur, userUid, rd, entering, members>>
        /\ \A s \in Sessions : sock'[s] = "new" => sock[s] = "new"
    BY <1>3 DEF OnTimer, tables
  <2>2. QED
    BY <2>1, RequestKept DEF Fresh, RequestInv
<1>4. ASSUME NEW u \in Uids, LockExpire(u)
      PROVE  RequestInv'
  <2>1. UNCHANGED <<queue, cur, userUid, sock, rd, entering, members>>
    BY <1>4 DEF LockExpire, tables
  <2>2. QED
    BY <2>1, RequestKept DEF Fresh, RequestInv
<1>5. ASSUME NEW a \in Servers, Crash(a)
      PROVE  RequestInv'
  <2>1. /\ \A s \in Sessions : sock'[s] = "new" => sock[s] = "new"
        /\ \A s \in Sessions : userUid'[s] = userUid[s] \/ userUid'[s] = NoUser
        /\ \A s \in Sessions : rd'[s] = "posting" => rd[s] = "posting"
        /\ entering' \subseteq entering /\ members' \subseteq members
    BY <1>5 DEF Crash
  <2>2. \A b \in Servers : /\ queue'[b] = queue[b] \/ queue'[b] = <<>>
                           /\ cur'[b] # Nil => cur'[b] = cur[b]
    BY <1>5 DEF Crash
  <2>3. FreshKept /\ UidKept
    BY <2>1 DEF Fresh, RequestInv
  <2>4. QueueKept /\ CurKept
    BY <2>2
  <2>5. QED
    BY <2>3, <2>4, RequestKept
<1>6. ASSUME NEW k \in strays, StrayStep(k)
      PROVE  RequestInv'
  <2>1. /\ UNCHANGED <<queue, cur, userUid, sock, rd, entering>>
        /\ members' \subseteq members
    BY <1>6, StrayFrame, ClearSessionMgr
  <2>2. QED
    BY <2>1, RequestKept DEF Fresh, RequestInv
<1>7. QED
  BY <1>1, <1>2, <1>3, <1>4, <1>5, <1>6

\* RequestInv is inductive, given the types.
LEMMA NextRequest ==
  ASSUME SessionBindingAssumption, TypeOK, RequestInv, [Next]_vars
  PROVE  RequestInv'
<1>1. CASE UNCHANGED vars
  BY <1>1 DEF vars, logic, reader, tables, RequestInv, Fresh
<1>2. CASE Next
  BY <1>2, SessionStepRequest, LogicStepRequest, OtherStepRequest DEF Next
<1>3. QED
  BY <1>1, <1>2
-----------------------------------------------------------------------------
(* The lookups.                                                            *)

\* Who has a user's lock has it alone.
LEMMA OneHolder ==
  ASSUME SessionBindingAssumption, CleanupInv
  PROVE  /\ \A a, b \in Servers :
              /\ lpc[a] \in LoginCS /\ lpc[b] \in LoginCS
              /\ cur[a].uid = cur[b].uid
              => a = b
         /\ \A a \in Servers : \A h \in Cleaners :
              lpc[a] \in LoginCS => lock[cur[a].uid] # h
         /\ \A h \in Cleaners :
              epc[h] \in {"delSession", "delIp"} => lock[euid[h]] = h
  BY ThreadsDiffer DEF CleanupInv, LoginHoldsLock, CleanerHoldsLock

\* A step that has nothing to do with the logins of u, or none with a login.
LogicKept(u) ==
  \A b \in Servers :
    \/ lpc'[b] = lpc[b] /\ cur'[b] = cur[b] /\ lip'[b] = lip[b] /\ lold'[b] = lold[b]
    \/ /\ lpc[b] \notin LoginCS \/ cur[b].uid # u
       /\ lpc'[b] \notin LoginCS \/ cur'[b].uid # u
\* Clean-ups of s that are deleting keys go on.
CleanersKept(s, u) ==
  \A h \in Cleaners :
    /\ h[2] = s /\ euid[h] = u /\ lock[u] = h /\ epc[h] \in {"delIp", "clear"}
    => euid'[h] = u /\ lock'[u] = h /\ epc'[h] \in {"delIp", "clear"}
KeysKept(s, u) ==
  /\ uip'[u] = uip[u] /\ usession'[u] = usession[u]
  /\ userSession[Home[s]][u] = s => userSession'[Home[s]][u] = s

LEMMA BoundKept ==
  ASSUME NEW u \in Users, NEW s \in Sessions, Home[s] \in Servers,
         Bound(s, u), LogicKept(u), CleanersKept(s, u), KeysKept(s, u)
  PROVE  Bound(s, u)'
<1>1. LoggingIn(s, u)' <=> LoggingIn(s, u)
  BY DEF LoggingIn, LogicKept, LoginCS
<1>2. CASE LoggingIn(s, u)
  <2>1. lpc'[Home[s]] = lpc[Home[s]]
    BY <1>2 DEF LoggingIn, LogicKept, LoginCS
  <2>2. Written(s, u)'
    BY <1>2, <2>1 DEF Bound, Written, KeysKept
  <2>3. QED
    BY <1>1, <1>2, <2>2 DEF Bound
<1>3. CASE ~LoggingIn(s, u)
  <2>1. Routed(s, u)
    BY <1>3 DEF Bound
  <2>2. Leaving(s, u) => Leaving(s, u)'
    BY DEF Leaving, CleanersKept
  <2>3. \A b \in Servers : lpc'[b] \in LoginCS /\ cur'[b].uid = u => OnTheWayTo(b, s)'
    BY <2>1 DEF Routed, LogicKept, OnTheWayTo
  <2>4. Routed(s, u)'
    BY <2>1, <2>2, <2>3 DEF Routed, KeysKept
  <2>5. QED
    BY <1>1, <1>3, <2>4 DEF Bound
<1>4. QED
  BY <1>2, <1>3

\* The same for all sessions and users.
LEMMA RouteKept ==
  ASSUME SessionBindingAssumption, TypeOK, RouteInv,
         \A u \in Users : /\ LogicKept(u)
                          /\ \A s \in members' : userUid'[s] = u =>
                               /\ s \in members /\ userUid[s] = u
                               /\ CleanersKept(s, u) /\ KeysKept(s, u)
  PROVE  RouteInv'
<1>1. SUFFICES ASSUME NEW u \in Users, NEW s \in Live(u)'
               PROVE  Bound(s, u)'
  BY DEF RouteInv
<1>2. s \in members' /\ userUid'[s] = u
  BY DEF Live
<1>3. s \in Live(u) /\ s \in Sessions /\ Home[s] \in Servers
  BY <1>2 DEF Live, TypeOK, SessionBindingAssumption
<1>4. QED
  BY <1>2, <1>3, BoundKept DEF RouteInv

\* ClearSession takes r, and only r, out of the tables.
LEMMA ClearOnly ==
  ASSUME TypeOK, NEW r \in Sessions, ClearSession(r)
  PROVE  /\ members' = members \ {r}
         /\ \A s \in Sessions : \A u \in Users : s # r /\ Home[s] \in Servers
              /\ userSession[Home[s]][u] = s => userSession'[Home[s]][u] = s
<1>1. userSession \in [Servers -> [Uids -> Sessions \cup {Nil}]]
  BY DEF TypeOK
<1>2. CASE UNCHANGED userSession
  BY <1>2 DEF ClearSession
<1>3. CASE /\ userSession[Home[r]][userUid[r]] = r
           /\ userSession' = [userSession EXCEPT ![Home[r]][userUid[r]] = Nil]
  <2>1. ASSUME NEW s \in Sessions, NEW u \in Users, s # r,
               Home[s] \in Servers, userSession[Home[s]][u] = s
        PROVE  userSession'[Home[s]][u] = s
    <3>1. Home[s] # Home[r] \/ u # userUid[r]
      BY <1>3, <2>1
    <3>2. u \in Uids
      BY DEF Uids
    <3>3. QED
      BY <1>1, <1>3, <2>1, <3>1, <3>2
  <2>2. QED
    BY <2>1 DEF ClearSession
<1>4. QED
  BY <1>2, <1>3 DEF ClearSession

\* The read and write chains lead nobody astray: they only take sessions out.
LEMMA SessionStepRoute ==
  ASSUME SessionBindingAssumption, TypeOK, RequestInv, RouteInv,
         NEW s \in Sessions, SessionStep(s)
  PROVE  RouteInv'
<1>t. /\ epc \in [Cleaners -> CleanPcs] /\ euid \in [Cleaners -> Uids]
      /\ members \subseteq Sessions
  BY DEF TypeOK
<1>1. /\ UNCHANGED <<uip, usession, lock, lpc, cur, lip, lold, userUid>>
      /\ \A h \in Cleaners : epc[h] # "idle" => epc'[h] = epc[h] /\ euid'[h] = euid[h]
  <2>1. CASE ReadError(s) \/ WriteError(s)
    <3>1. /\ UNCHANGED <<uip, usession, lock, lpc, cur, lip, lold, userUid>>
          /\ epc[IoOf(s)] = "idle" /\ StartIoCleanup(s)
      BY <2>1 DEF ReadError, WriteError, IoIdle, redis, logic
    <3>2. QED
      BY <1>t, <3>1 DEF StartIoCleanup
  <2>2. CASE ~(ReadError(s) \/ WriteError(s))
    BY <2>2 DEF SessionStep, Accept, Insert, ReadMessage, PostMsgToQue,
       RejectMessage, BadHeader, WriteDone, redis, logic, cleanup
  <2>3. QED
    BY <2>1, <2>2
<1>2. \A u \in Users : LogicKept(u)
  BY <1>1 DEF LogicKept
<1>3. \A u \in Users : \A r \in Sessions : CleanersKept(r, u)
  BY <1>1 DEF CleanersKept
<1>4. CASE BadHeader(s)
  <2>1. ClearSession(s)
    BY <1>4 DEF BadHeader
  <2>2. \A u \in Users : \A r \in members' : r \in members /\ KeysKept(r, u)
    BY <1>t, <1>1, <2>1, ClearOnly DEF KeysKept, SessionBindingAssumption
  <2>3. QED
    BY <1>t, <1>1, <1>2, <1>3, <2>2, RouteKept
<1>5. CASE Insert(s)
  <2>1. /\ userUid[s] = NoUser /\ members' = members \cup {s}
        /\ UNCHANGED userSession
    BY <1>5 DEF Insert, RequestInv, Fresh
  <2>2. \A u \in Users : u # NoUser
    BY DEF SessionBindingAssumption
  <2>3. \A u \in Users : \A r \in Sessions : KeysKept(r, u)
    BY <1>1, <2>1 DEF KeysKept
  <2>4. QED
    BY <1>t, <1>1, <1>2, <1>3, <2>1, <2>2, <2>3, RouteKept
<1>6. CASE UNCHANGED <<members, userSession>>
  <2>1. \A u \in Users : \A r \in Sessions : KeysKept(r, u)
    BY <1>1, <1>6 DEF KeysKept
  <2>2. QED
    BY <1>t, <1>1, <1>2, <1>3, <1>6, <2>1, RouteKept
<1>7. QED
  BY <1>4, <1>5, <1>6 DEF SessionStep, Accept, ReadMessage, PostMsgToQue,
     RejectMessage, ReadError, WriteDone, WriteError, tables

\* A login in its critical section: either it is writing itself, and is the
\* user's only live session, or it is on its way to the one there is.
LEMMA InProgress ==
  ASSUME SessionBindingAssumption, TypeOK, CleanupInv, RouteInv,
         NEW a \in Servers, lpc[a] \in LoginCS,
         NEW s \in Live(cur[a].uid)
  PROVE  \/ /\ lpc[a] \in {"setIp", "setMgr", "setKey", "release"}
            /\ Home[s] = a /\ s = cur[a].sess
            /\ LoggingIn(s, cur[a].uid) /\ Written(s, cur[a].uid)
         \/ /\ lpc[a] \in {"readIp", "lookup", "clearOld"}
            /\ OnTheWayTo(a, s)
            /\ usession[cur[a].uid] = s /\ uip[cur[a].uid] = Home[s]
            /\ userSession[Home[s]][cur[a].uid] = s
<1> DEFINE u == cur[a].uid
<1>1. u \in Users
  BY DEF TypeOK, LoginCS, Request
<1>2. Bound(s, u) /\ s \in Sessions /\ Home[s] \in Servers
  BY <1>1 DEF RouteInv, Live, TypeOK, SessionBindingAssumption
<1>3. CASE LoggingIn(s, u)
  <2>1. lpc[Home[s]] \in LoginCS /\ cur[Home[s]].uid = u
    BY <1>3 DEF LoggingIn, LoginCS
  <2>2. Home[s] = a
    BY <1>2, <2>1, OneHolder
  <2>3. QED
    BY <1>2, <1>3, <2>2 DEF LoggingIn, Bound
<1>4. CASE ~LoggingIn(s, u)
  <2>1. Routed(s, u)
    BY <1>2, <1>4 DEF Bound
  <2>2. ~Leaving(s, u)
    BY OneHolder DEF Leaving
  <2>3. OnTheWayTo(a, s)
    BY <2>1 DEF Routed
  <2>4. QED
    BY <2>1, <2>2, <2>3 DEF Routed, OnTheWayTo
<1>5. QED
  BY <1>3, <1>4

\* Steps of LoginHandler with the lock, and what they do to other users: nothing.
Locked(a) ==
  \/ LoginAcquire(a) \/ ReadIp(a) \/ LookupOld(a) \/ ClearOld(a) \/ SetUserId(a)
  \/ SetIp(a) \/ SetUserSession(a) \/ SetSessionKey(a) \/ LoginRelease(a)

LEMMA LockedFrame ==
  ASSUME SessionBindingAssumption, TypeOK, NEW a \in Servers, Locked(a)
  PROVE  /\ cur[a].uid \in Users /\ cur[a].sess \in Sessions
         /\ UNCHANGED <<cur, epc, euid>>
         /\ \A b \in Servers : b # a => /\ lpc'[b] = lpc[b] /\ lip'[b] = lip[b]
                                        /\ lold'[b] = lold[b]
         /\ \A u \in Uids : u # cur[a].uid =>
              uip'[u] = uip[u] /\ usession'[u] = usession[u] /\ lock'[u] = lock[u]
         /\ members' \subseteq members
         /\ \A s \in members' : userUid'[s] # userUid[s] => userUid'[s] = cur[a].uid
         /\ \A u \in Uids : \A s \in members' :
              /\ u # cur[a].uid /\ u \in Users /\ userSession[Home[s]][u] = s
              => userSession'[Home[s]][u] = s
<1>t. /\ uip \in [Uids -> Servers \cup {Nil}]
      /\ usession \in [Uids -> Sessions \cup {Nil}]
      /\ lock \in [Uids -> Threads \cup {Nil, Orphan}]
      /\ userSession \in [Servers -> [Uids -> Sessions \cup {Nil}]]
      /\ lpc \in [Servers -> LogicPcs]
      /\ lip \in [Servers -> Servers \cup {Nil}]
      /\ lold \in [Servers -> Sessions \cup {Nil}]
      /\ userUid \in [Sessions -> Uids]
      /\ members \subseteq Sessions
      /\ Home \in [Sessions -> Servers]
  BY DEF TypeOK, SessionBindingAssumption
<1>1. cur[a].uid \in Users /\ cur[a].sess \in Sessions
  BY DEF TypeOK, Request, Locked, LoginAcquire, ReadIp, LookupOld, ClearOld,
         SetUserId, SetIp, SetUserSession, SetSessionKey, LoginRelease
<1>2. UNCHANGED <<cur, epc, euid>>
  BY DEF Locked, LoginAcquire, ReadIp, LookupOld, ClearOld, SetUserId, SetIp,
         SetUserSession, SetSessionKey, LoginRelease, cleanup
<1>3. \A b \in Servers : b # a => lpc'[b] = lpc[b] /\ lip'[b] = lip[b]
                                    /\ lold'[b] = lold[b]
  BY <1>t DEF Locked, LoginAcquire, ReadIp, LookupOld, ClearOld, SetUserId,
     SetIp, SetUserSession, SetSessionKey, LoginRelease
<1>4. \A u \in Uids : u # cur[a].uid =>
         uip'[u] = uip[u] /\ usession'[u] = usession[u] /\ lock'[u] = lock[u]
  BY <1>t DEF Locked, LoginAcquire, AcquireLock, ReadIp, LookupOld, ClearOld,
     SetUserId, SetIp, SetUserSession, SetSessionKey, LoginRelease, ReleaseLock,
     redis
<1>5. members' \subseteq members
  BY DEF Locked, LoginAcquire, ReadIp, LookupOld, ClearOld, ClearSession,
     SetUserId, SetIp, SetUserSession, SetSessionKey, LoginRelease, tables
<1>6. \A s \in members' : userUid'[s] # userUid[s] => userUid'[s] = cur[a].uid
  BY <1>t, <1>5 DEF Locked, LoginAcquire, ReadIp, LookupOld, ClearOld,
     SetUserId, SetIp, SetUserSession, SetSessionKey, LoginRelease
<1>7. ASSUME NEW u \in Users, NEW s \in members', u # cur[a].uid,
             userSession[Home[s]][u] = s
      PROVE  userSession'[Home[s]][u] = s
  <2>1. s \in Sessions /\ Home[s] \in Servers /\ u \in Uids
    BY <1>t, <1>5 DEF Uids
  <2>2. CASE ClearOld(a)
    <3>1. lold[a] \in Sessions /\ ClearSession(lold[a])
      BY <2>2 DEF ClearOld, TypeOK
    <3>2. s # lold[a]
      BY <1>7, <3>1, ClearOnly
    <3>3. QED
      BY <1>7, <2>1, <3>1, <3>2, ClearOnly
  <2>3. CASE SetUserSession(a)
    BY <1>t, <1>7, <2>1, <2>3 DEF SetUserSession
  <2>4. CASE ~ClearOld(a) /\ ~SetUserSession(a)
    BY <1>7, <2>4 DEF Locked, LoginAcquire, ReadIp, LookupOld, SetUserId, SetIp,
       SetSessionKey, LoginRelease, tables
  <2>5. QED
    BY <2>2, <2>3, <2>4
<1>8. QED
  BY <1>1, <1>2, <1>3, <1>4, <1>5, <1>6, <1>7

LEMMA OtherUsers ==
  ASSUME SessionBindingAssumption, TypeOK, RouteInv, NEW a \in Servers, Locked(a),
         NEW u \in Users, u # cur[a].uid, NEW s \in Live(u)'
  PROVE  Bound(s, u)'
<1>1. /\ s \in members /\ s \in members' /\ userUid[s] = u
      /\ s \in Sessions /\ Home[s] \in Servers /\ u \in Uids
  BY LockedFrame DEF Live, TypeOK, SessionBindingAssumption, Uids
<1>2. LogicKept(u)
  BY LockedFrame DEF LogicKept
<1>3. CleanersKept(s, u)
  BY <1>1, LockedFrame DEF CleanersKept
<1>4. KeysKept(s, u)
  BY <1>1, LockedFrame DEF KeysKept
<1>5. Bound(s, u)
  BY <1>1 DEF RouteInv, Live
<1>6. QED
  BY <1>1, <1>2, <1>3, <1>4, <1>5, BoundKept

\* What a step of LoginHandler has to do for its own user: the four writes one
\* after the other, or one step closer to the old session.
LEMMA OwnUser ==
  ASSUME SessionBindingAssumption, TypeOK, CleanupInv, RequestInv, RouteInv,
         NEW a \in Servers, Locked(a), NEW s \in Live(cur[a].uid)'
  PROVE  Bound(s, cur[a].uid)'
<1> DEFINE u == cur[a].uid
<1>t. /\ uip \in [Uids -> Servers \cup {Nil}]
      /\ usession \in [Uids -> Sessions \cup {Nil}]
      /\ lock \in [Uids -> Threads \cup {Nil, Orphan}]
      /\ userSession \in [Servers -> [Uids -> Sessions \cup {Nil}]]
      /\ lpc \in [Servers -> LogicPcs]
      /\ lip \in [Servers -> Servers \cup {Nil}]
      /\ lold \in [Servers -> Sessions \cup {Nil}]
      /\ userUid \in [Sessions -> Uids]
      /\ Nil \notin Servers /\ Nil \notin Sessions
  BY DEF TypeOK, SessionBindingAssumption
<1>0. /\ UNCHANGED <<cur, epc, euid>> /\ u \in Uids
      /\ s \in members /\ s \in members' /\ userUid'[s] = u
      /\ s \in Sessions /\ Home[s] \in Servers /\ cur[a].sess \in Sessions
      /\ \A b \in Servers : b # a => lpc'[b] = lpc[b]
  BY LockedFrame DEF Live, TypeOK, SessionBindingAssumption, Uids
\* Nobody else is in the section.
<1>a. ASSUME lpc[a] \in LoginCS, NEW b \in Servers, b # a, lpc[b] \in LoginCS
      PROVE  cur[b].uid # u
  BY <1>a, OneHolder
<1>1. CASE LoginAcquire(a)
  <2>1. /\ lock[u] = Nil /\ lpc'[a] = "readIp" /\ s \in Live(u)
        /\ UNCHANGED <<uip, usession, userSession>>
    BY <1>t, <1>0, <1>1 DEF LoginAcquire, AcquireLock, Live, tables
  <2>2. \A b \in Servers : lpc[b] \in LoginCS => cur[b].uid # u
    BY <2>1, ThreadsDiffer DEF CleanupInv, LoginHoldsLock
  <2>3. ~LoggingIn(s, u) /\ ~LoggingIn(s, u)'
    BY <1>0, <2>1, <2>2 DEF LoggingIn, LoginCS
  <2>4. Routed(s, u) /\ ~Leaving(s, u)
    BY <2>1, <2>3, LockedFrame, ThreadsDiffer DEF RouteInv, Bound, Leaving
  <2>5. Routed(s, u)'
    BY <1>0, <2>1, <2>2, <2>4 DEF Routed, OnTheWayTo
  <2>6. QED
    BY <2>3, <2>5, <1>0 DEF Bound
<1>2. CASE ReadIp(a)
  <2>1. /\ lpc[a] = "readIp" /\ s \in Live(u)
        /\ UNCHANGED <<uip, usession, userSession>>
        /\ lpc'[a] = IF uip[u] = Nil THEN "setUid" ELSE "lookup"
        /\ lip'[a] = uip[u]
    BY <1>t, <1>0, <1>2 DEF ReadIp, Live, tables, redis
  <2>2. usession[u] = s /\ uip[u] = Home[s] /\ userSession[Home[s]][u] = s
    BY <2>1, InProgress DEF LoginCS
  <2>3. lpc'[a] = "lookup" /\ lip'[a] = Home[s]
    BY <1>t, <1>0, <2>1, <2>2
  <2>4. ~LoggingIn(s, u)'
    BY <1>0, <1>a, <2>1, <2>3 DEF LoggingIn, LoginCS
  <2>5. Routed(s, u)'
    BY <1>0, <1>a, <2>1, <2>2, <2>3 DEF Routed, OnTheWayTo, LoginCS
  <2>6. QED
    BY <2>4, <2>5, <1>0 DEF Bound
<1>3. CASE LookupOld(a)
  <2>1. /\ lpc[a] = "lookup" /\ s \in Live(u)
        /\ UNCHANGED <<uip, usession, userSession, lip>>
    BY <1>0, <1>3 DEF LookupOld, Live, tables, redis
  <2>2. /\ usession[u] = s /\ uip[u] = Home[s] /\ userSession[Home[s]][u] = s
        /\ lip[a] = Home[s]
    BY <2>1, InProgress DEF LoginCS, OnTheWayTo
  <2>3. lpc'[a] = "clearOld" /\ lold'[a] = s
    BY <1>t, <1>0, <1>3, <2>2 DEF LookupOld
  <2>4. ~LoggingIn(s, u)'
    BY <1>0, <1>a, <2>1, <2>3 DEF LoggingIn, LoginCS
  <2>5. Routed(s, u)'
    BY <1>0, <1>a, <2>1, <2>2, <2>3 DEF Routed, OnTheWayTo, LoginCS
  <2>6. QED
    BY <2>4, <2>5, <1>0 DEF Bound
<1>4. CASE ClearOld(a)
  <2>1. /\ lpc[a] = "clearOld" /\ s \in Live(u) /\ lold[a] \in Sessions
        /\ ClearSession(lold[a])
    BY <1>0, <1>4 DEF ClearOld, Live, TypeOK
  <2>2. lold[a] = s
    BY <2>1, InProgress DEF LoginCS, OnTheWayTo
  <2>3. QED
    BY <1>0, <2>1, <2>2, ClearOnly
<1>5. CASE SetUserId(a)
  <2>1. /\ lpc[a] = "setUid" /\ lpc'[a] = "setIp"
        /\ s = cur[a].sess \/ s \in Live(u)
    BY <1>t, <1>0, <1>5 DEF SetUserId, Live
  <2>2. s = cur[a].sess
    BY <2>1, InProgress DEF LoginCS
  <2>3. Home[s] = a
    <3>1. cur[a] # Nil
      BY <2>1 DEF TypeOK, SessionBindingAssumption
    <3>2. QED
      BY <2>2, <3>1 DEF RequestInv
  <2>4. QED
    BY <1>0, <2>1, <2>2, <2>3 DEF Bound, LoggingIn, Written
<1>6. CASE SetIp(a) \/ SetUserSession(a) \/ SetSessionKey(a)
  <2>1. /\ lpc[a] \in {"setIp", "setMgr", "setKey"} /\ s \in Live(u)
    BY <1>0, <1>6 DEF SetIp, SetUserSession, SetSessionKey, Live
  <2>2. Home[s] = a /\ s = cur[a].sess /\ Written(s, u)
    BY <2>1, InProgress DEF LoginCS
  <2>3. /\ lpc[a] = "setIp" => lpc'[a] = "setMgr" /\ uip'[u] = a
        /\ lpc[a] = "setMgr" => /\ lpc'[a] = "setKey" /\ userSession'[a][u] = s
                                /\ uip' = uip
        /\ lpc[a] = "setKey" => /\ lpc'[a] = "release" /\ usession'[u] = s
                                /\ uip' = uip /\ userSession' = userSession
    BY <1>t, <1>0, <1>6, <2>2
       DEF SetIp, SetUserSession, SetSessionKey, redis, tables
  <2>4. Written(s, u)' /\ LoggingIn(s, u)'
    BY <1>0, <2>1, <2>2, <2>3 DEF Written, LoggingIn
  <2>5. QED
    BY <1>0, <2>4 DEF Bound
<1>7. CASE LoginRelease(a)
  <2>1. /\ lpc[a] = "release" /\ lpc'[a] = "reply" /\ s \in Live(u)
        /\ UNCHANGED <<uip, usession, userSession>>
    BY <1>t, <1>0, <1>7 DEF LoginRelease, Live, tables
  <2>2. Home[s] = a /\ s = cur[a].sess /\ Written(s, u)
    BY <2>1, InProgress DEF LoginCS
  <2>3. ~LoggingIn(s, u)'
    BY <2>1, <2>2 DEF LoggingIn
  <2>4. Routed(s, u)'
    BY <1>0, <1>a, <2>1, <2>2 DEF Written, Routed, LoginCS
  <2>5. QED
    BY <1>0, <2>3, <2>4 DEF Bound
<1>8. QED
  BY <1>1, <1>2, <1>3, <1>4, <1>5, <1>6, <1>7 DEF Locked

\* The logic thread keeps RouteInv.
LEMMA LogicStepRoute ==
  ASSUME SessionBindingAssumption, Reliable, TypeOK, CleanupInv, RequestInv,
         RouteInv, NEW a \in Servers, LogicStep(a)
  PROVE  RouteInv'
<1>1. CASE Locked(a)
  <2>1. SUFFICES ASSUME NEW u \in Users, NEW s \in Live(u)'
                 PROVE  Bound(s, u)'
    BY DEF RouteInv
  <2>2. CASE u = cur[a].uid
    <3>1. u = cur'[a].uid
      BY <1>1, <2>2, LockedFrame
    <3>2. QED
      BY <1>1, <2>2, <3>1, OwnUser
  <2>3. CASE u # cur[a].uid
    BY <1>1, <2>3, OtherUsers
  <2>4. QED
    BY <2>2, <2>3
<1>2. CASE RefuseLogin(a) \/ StartLogin(a) \/ LoginReply(a)
  <2>1. /\ UNCHANGED <<uip, usession, lock, members, userSession, lip, lold,
                       userUid, epc, euid>>
        /\ lpc[a] \notin LoginCS /\ lpc'[a] \notin LoginCS
        /\ \A b \in Servers : b # a => lpc'[b] = lpc[b] /\ cur'[b] = cur[b]
    BY <1>2 DEF RefuseLogin, StartLogin, Take, LoginReply, TypeOK, LoginCS,
       redis, tables, logic, cleanup
  <2>2. \A u \in Users : LogicKept(u)
    BY <2>1 DEF LogicKept
  <2>3. \A u \in Users : \A s \in members' : CleanersKept(s, u) /\ KeysKept(s, u)
    BY <2>1 DEF CleanersKept, KeysKept
  <2>4. QED
    BY <2>1, <2>2, <2>3, RouteKept
<1>3. CASE LoginTimeout(a) \/ KickFails(a)
  BY <1>3 DEF LoginTimeout, KickFails, Reliable, Exclusive
<1>4. QED
  BY <1>1, <1>2, <1>3 DEF LogicStep, Locked

\* DealExceptionSession keeps RouteInv: what it deletes of a user with a live
\* session is only what that session, its own, was found by.
LEMMA CleanStepRoute ==
  ASSUME SessionBindingAssumption, TypeOK, CleanupInv, RouteInv, KeyGone,
         NEW h \in Cleaners, CleanStep(h)
  PROVE  RouteInv'
<1>t. /\ uip \in [Uids -> Servers \cup {Nil}]
      /\ usession \in [Uids -> Sessions \cup {Nil}]
      /\ lock \in [Uids -> Threads \cup {Nil, Orphan}]
      /\ epc \in [Cleaners -> CleanPcs] /\ euid \in [Cleaners -> Uids]
      /\ members \subseteq Sessions /\ h[2] \in Sessions /\ euid[h] \in Uids
      /\ Nil \notin Sessions /\ Home \in [Sessions -> Servers]
  BY ThreadsDiffer DEF TypeOK, SessionBindingAssumption
<1>1. /\ UNCHANGED <<lpc, cur, lip, lold, userUid>>
      /\ \A g \in Cleaners : g # h => epc'[g] = epc[g] /\ euid'[g] = euid[g]
      /\ members' \subseteq members
  BY <1>t DEF CleanStep, CleanAcquire, CleanTimeout, CheckSession, DelSession,
     DelIp, CleanClear, ClearSession, CleanRelease, logic, tables
<1>2. \A u \in Users : LogicKept(u)
  BY <1>1 DEF LogicKept
\* A step that is not yet, or no longer, about keys.
<1>3. CASE CleanAcquire(h) \/ CleanTimeout(h) \/ CheckSession(h)
             \/ CleanRelease(h)
  <2>1. /\ UNCHANGED <<uip, usession, members, userSession>>
        /\ epc[h] \notin {"delIp", "clear"}
        /\ \A u \in Uids : \A g \in Cleaners : g # h /\ lock[u] = g => lock'[u] = g
    BY <1>t, <1>3, ThreadsDiffer DEF CleanAcquire, AcquireLock, CleanTimeout,
       CheckSession, CleanRelease, ReleaseLock, redis, tables
  <2>2. \A u \in Users : \A s \in members' : CleanersKept(s, u) /\ KeysKept(s, u)
    BY <1>1, <2>1 DEF CleanersKept, KeysKept, Uids
  <2>3. QED
    BY <1>1, <1>2, <2>2, RouteKept
<1>4. CASE CleanClear(h)
  <2>1. UNCHANGED <<uip, usession, lock>> /\ ClearSession(h[2])
    BY <1>4 DEF CleanClear, redis
  <2>2. \A s \in members' : s # h[2] /\ s \in members /\ s \in Sessions
    BY <1>t, <2>1, ClearOnly
  <2>3. \A u \in Users : \A s \in members' : CleanersKept(s, u)
    BY <1>1, <2>1, <2>2 DEF CleanersKept
  <2>4. \A u \in Users : \A s \in members' : KeysKept(s, u)
    BY <1>t, <2>1, <2>2, ClearOnly DEF KeysKept
  <2>5. QED
    BY <1>1, <1>2, <2>2, <2>3, <2>4, RouteKept
<1>5. CASE DelSession(h) \/ DelIp(h)
  <2>1. /\ UNCHANGED <<lock, members, userSession>> /\ euid'[h] = euid[h]
        /\ epc[h] \in {"delSession", "delIp"}
        /\ epc[h] = "delSession" => UNCHANGED uip /\ epc'[h] = "delIp"
        /\ epc[h] = "delIp" => UNCHANGED usession /\ epc'[h] = "clear"
        /\ \A u \in Uids : u # euid[h] =>
             uip'[u] = uip[u] /\ usession'[u] = usession[u]
    BY <1>t, <1>5 DEF DelSession, DelIp, tables
  <2>2. lock[euid[h]] = h
    BY <2>1, OneHolder
  <2>3. SUFFICES ASSUME NEW u \in Users, NEW s \in Live(u)'
                 PROVE  Bound(s, u)'
    BY DEF RouteInv
  <2>4. /\ s \in members /\ s \in Live(u) /\ s \in Sessions
        /\ Home[s] \in Servers /\ u \in Uids
    BY <1>t, <1>1 DEF Live, Uids
  <2>5. Bound(s, u)
    BY <2>4 DEF RouteInv
  <2>6. CASE u # euid[h]
    <3>1. CleanersKept(s, u) /\ KeysKept(s, u)
      BY <1>1, <2>1, <2>4, <2>6 DEF CleanersKept, KeysKept
    <3>2. QED
      BY <1>2, <2>4, <2>5, <3>1, BoundKept
  <2>7. CASE u = euid[h]
    <3>1. \A b \in Servers : lpc[b] \in LoginCS => cur[b].uid # u
      BY <2>2, <2>7, OneHolder
    <3>2. ~LoggingIn(s, u) /\ ~LoggingIn(s, u)'
      BY <1>1, <2>4, <3>1 DEF LoggingIn, LoginCS
    <3>3. Routed(s, u)
      BY <2>5, <3>2 DEF Bound
    <3>4. h[2] = s
      <4>1. CASE Leaving(s, u)
        BY <2>2, <2>7, <4>1 DEF Leaving
      <4>2. CASE usession[u] = s /\ epc[h] = "delSession"
        BY <2>7, <4>2 DEF CleanupInv, DeletesOwnSession
      <4>3. CASE usession[u] = s /\ epc[h] = "delIp"
        BY <1>t, <2>4, <2>7, <4>3 DEF KeyGone
      <4>4. QED
        BY <2>1, <3>3, <4>1, <4>2, <4>3 DEF Routed
    <3>5. Leaving(s, u)'
      BY <2>1, <2>2, <2>7, <3>4 DEF Leaving
    <3>6. Routed(s, u)'
      BY <1>1, <2>1, <3>1, <3>3, <3>5 DEF Routed
    <3>7. QED
      BY <3>2, <3>6 DEF Bound
  <2>8. QED
    BY <2>6, <2>7
<1>6. QED
  BY <1>3, <1>4, <1>5 DEF CleanStep

\* A kick that goes on without its caller only takes sessions out.
LEMMA StrayStepRoute ==
  ASSUME SessionBindingAssumption, TypeOK, RouteInv,
         NEW k \in strays, StrayStep(k)
  PROVE  RouteInv'
<1>1. UNCHANGED <<uip, usession, lock, lpc, cur, lip, lold, userUid, epc, euid>>
  BY StrayFrame DEF redis, logic, cleanup
<1>2. /\ \A u \in Users : LogicKept(u)
      /\ \A u \in Users : \A s \in Sessions : CleanersKept(s, u)
  BY <1>1 DEF LogicKept, CleanersKept
<1>3. CASE UNCHANGED tables
  BY <1>1, <1>3 DEF tables, RouteInv, Live, Bound, LoggingIn, Written, Routed,
     Leaving, OnTheWayTo
<1>4. ASSUME NEW r \in Sessions, ClearSession(r)
      PROVE  RouteInv'
  <2>1. \A u \in Users : \A s \in members' : s \in members /\ KeysKept(s, u)
    BY <1>1, <1>4, ClearOnly DEF KeysKept, TypeOK, SessionBindingAssumption
  <2>2. members \subseteq Sessions
    BY DEF TypeOK
  <2>3. QED
    BY <1>1, <1>2, <2>1, <2>2, RouteKept
<1>5. QED
  BY <1>3, <1>4, StrayFrame

\* A crash keeps RouteInv: the sessions of the dead server are gone, and a
\* login elsewhere that was about to clear one of them finds nothing.
LEMMA CrashRoute ==
  ASSUME SessionBindingAssumption, TypeOK, RequestInv, RouteInv,
         NEW a \in Servers, Crash(a)
  PROVE  RouteInv'
<1>t. /\ lpc \in [Servers -> LogicPcs]
      /\ lip \in [Servers -> Servers \cup {Nil}]
      /\ lold \in [Servers -> Sessions \cup {Nil}]
      /\ lock \in [Uids -> Threads \cup {Nil, Orphan}]
      /\ userUid \in [Sessions -> Uids]
      /\ members \subseteq Sessions /\ Home \in [Sessions -> Servers]
      /\ userSession \in [Servers -> [Uids -> Sessions \cup {Nil}]]
  BY DEF TypeOK, SessionBindingAssumption
<1>1. SUFFICES ASSUME NEW u \in Users, NEW s \in Live(u)'
               PROVE  Bound(s, u)'
  BY DEF RouteInv
<1>2. s \in members /\ s \in members' /\ s \in Sessions /\ Home[s] \in Servers
  BY <1>t DEF Live, Crash
<1>3. sock[s] # "new"
  BY <1>2 DEF RequestInv, Fresh
<1>4. Home[s] # a
  BY <1>2, <1>3 DEF Crash
<1>5. userUid'[s] = userUid[s] /\ userUid'[s] = u /\ u \in Uids
  BY <1>2, <1>4 DEF Crash, Live, Uids
<1>6. Bound(s, u)
  BY <1>2, <1>5 DEF RouteInv, Live
<1>7. /\ UNCHANGED <<uip, usession>>
      /\ userSession'[Home[s]] = userSession[Home[s]]
      /\ \A b \in Servers : b # a => cur'[b] = cur[b] /\ lip'[b] = lip[b]
      /\ \A b \in Servers : b # a =>
           lpc'[b] = IF lpc[b] = "clearOld" /\ lip[b] = a THEN "setUid" ELSE lpc[b]
      /\ \A b \in Servers : b # a =>
           lold'[b] = IF lip[b] = a THEN Nil ELSE lold[b]
      /\ lpc'[a] = "idle"
  BY <1>t, <1>2, <1>4 DEF Crash
<1>8. LoggingIn(s, u)' <=> LoggingIn(s, u)
  BY <1>2, <1>4, <1>7 DEF LoggingIn
<1>9. CASE LoggingIn(s, u)
  <2>1. lpc'[Home[s]] = lpc[Home[s]]
    BY <1>2, <1>4, <1>7, <1>9 DEF LoggingIn
  <2>2. QED
    BY <1>6, <1>7, <1>8, <1>9, <2>1 DEF Bound, Written
<1>10. CASE ~LoggingIn(s, u)
  <2>1. Routed(s, u)
    BY <1>6, <1>10 DEF Bound
  <2>2. Leaving(s, u) => Leaving(s, u)'
    <3>1. SUFFICES ASSUME NEW h \in Cleaners, h[2] = s, euid[h] = u,
                          lock[u] = h, epc[h] \in {"delIp", "clear"}
                   PROVE  Leaving(s, u)'
      BY DEF Leaving
    <3>2. epc'[h] = epc[h] /\ euid'[h] = euid[h]
      BY <1>4, <3>1 DEF Crash
    <3>3. ServerOf(h) # a /\ h \notin {Nil, Orphan}
      BY <1>4, <3>1, ThreadsDiffer DEF ServerOf, Cleaners, LogicThreads
    <3>4. lock'[u] = h
      BY <1>5, <3>1, <3>3 DEF Crash
    <3>5. QED
      BY <3>1, <3>2, <3>4 DEF Leaving
  <2>3. ASSUME NEW b \in Servers, lpc'[b] \in LoginCS, cur'[b].uid = u
        PROVE  OnTheWayTo(b, s)'
    <3>1. b # a
      BY <1>7, <2>3 DEF LoginCS
    <3>2. lpc[b] \in LoginCS /\ cur[b].uid = u
      BY <1>7, <2>3, <3>1 DEF LoginCS
    <3>3. OnTheWayTo(b, s)
      BY <2>1, <3>2 DEF Routed
    <3>4. QED
      BY <1>4, <1>7, <3>1, <3>3 DEF OnTheWayTo
  <2>4. Routed(s, u)'
    BY <1>7, <2>1, <2>2, <2>3 DEF Routed
  <2>5. QED
    BY <1>8, <1>10, <2>4 DEF Bound
<1>11. QED
  BY <1>9, <1>10

\* The timer and the lock's time to live touch no clean-up that has begun, and
\* no lock that names a living thread.
LEMMA OtherFrame ==
  ASSUME SessionBindingAssumption, Exclusive, TypeOK,
         \/ \E s \in Sessions : StartTimerCleanup(s)
         \/ \E a \in Servers : \E E \in SUBSET SessionsOf(a) : OnTimer(a, E)
         \/ \E v \in Uids : LockExpire(v)
  PROVE  /\ UNCHANGED <<uip, usession, members, userSession, lpc, cur, lip, lold,
                        userUid>>
         /\ \A h \in Cleaners : epc[h] \notin {"idle", "pending"} =>
              epc'[h] = epc[h] /\ euid'[h] = euid[h]
         /\ \A h \in Cleaners : epc'[h] = "delIp" => epc[h] = "delIp"
         /\ \A u \in Uids : lock[u] \in Threads => lock'[u] = lock[u]
<1>t. /\ epc \in [Cleaners -> CleanPcs] /\ euid \in [Cleaners -> Uids]
      /\ lock \in [Uids -> Threads \cup {Nil, Orphan}]
      /\ members \subseteq Sessions
      /\ Orphan \notin Threads
  BY DEF TypeOK, SessionBindingAssumption
<1>1. ASSUME NEW s \in Sessions, StartTimerCleanup(s)
      PROVE  /\ UNCHANGED lock
             /\ \A h \in Cleaners : epc[h] # "pending" =>
                  epc'[h] = epc[h] /\ euid'[h] = euid[h]
             /\ \A h \in Cleaners : epc[h] = "pending" => epc'[h] # "delIp"
  BY <1>t, <1>1 DEF StartTimerCleanup, redis
<1>2. ASSUME NEW a \in Servers, NEW E \in SUBSET SessionsOf(a), OnTimer(a, E)
      PROVE  /\ UNCHANGED <<lock, euid>>
             /\ \A h \in Cleaners : epc[h] # "idle" => epc'[h] = epc[h]
             /\ \A h \in Cleaners : epc[h] = "idle" => epc'[h] # "delIp"
  <2>1. ASSUME NEW h \in Cleaners, h[1] = "timer", h[2] \in E
        PROVE  epc[h] = "idle"
    <3>1. h = TimerOf(h[2]) /\ h[2] \in Sessions /\ Home[h[2]] = a
      BY <1>t, <2>1 DEF Cleaners, TimerOf, SessionsOf
    <3>2. QED
      BY <1>2, <3>1 DEF OnTimer, MainIdle
  <2>2. UNCHANGED <<lock, euid>> /\ \A h \in Cleaners :
          epc'[h] = IF h[1] = "timer" /\ h[2] \in E THEN "pending" ELSE epc[h]
    BY <1>2 DEF OnTimer
  <2>3. QED
    BY <2>1, <2>2
<1>3. ASSUME NEW v \in Uids, LockExpire(v)
      PROVE  /\ UNCHANGED <<epc, euid>>
             /\ \A u \in Uids : lock[u] \in Threads => lock'[u] = lock[u]
  BY <1>t, <1>3 DEF LockExpire, Exclusive, cleanup
<1>4. UNCHANGED <<uip, usession, members, userSession, lpc, cur, lip, lold,
                  userUid>>
  BY DEF StartTimerCleanup, OnTimer, LockExpire, redis, tables, logic
<1>5. QED
  BY <1>1, <1>2, <1>3, <1>4

\* They keep RouteInv.
LEMMA OtherStepRoute ==
  ASSUME SessionBindingAssumption, Exclusive, TypeOK, RouteInv,
         \/ \E s \in Sessions : StartTimerCleanup(s)
         \/ \E a \in Servers : \E E \in SUBSET SessionsOf(a) : OnTimer(a, E)
         \/ \E v \in Uids : LockExpire(v)
  PROVE  RouteInv'
<1>1. \A u \in Users : LogicKept(u)
  BY OtherFrame DEF LogicKept
<1>2. \A u \in Users : \A s \in members' : CleanersKept(s, u)
  BY OtherFrame, ThreadsDiffer DEF CleanersKept, Uids
<1>3. \A u \in Users : \A s \in members' : KeysKept(s, u)
  BY OtherFrame DEF KeysKept
<1>4. UNCHANGED <<members, userUid>>
  BY OtherFrame
<1>5. QED
  BY <1>1, <1>2, <1>3, <1>4, RouteKept

\* KeyGone is inductive: who writes usession has the lock of the user, and so
\* has the clean-up that deleted it.
LEMMA NextKeyGone ==
  ASSUME SessionBindingAssumption, Exclusive, TypeOK, CleanupInv, KeyGone,
         [Next]_vars
  PROVE  KeyGone'
<1>t. /\ usession \in [Uids -> Sessions \cup {Nil}]
      /\ epc \in [Cleaners -> CleanPcs] /\ euid \in [Cleaners -> Uids]
      /\ lpc \in [Servers -> LogicPcs]
  BY DEF TypeOK
<1> DEFINE Gone(h) == epc'[h] = "delIp" => usession'[euid'[h]] = Nil
           CleanerStays(h) == epc'[h] = "delIp" => epc[h] = "delIp" /\ euid'[h] = euid[h]
<1>1. ASSUME UNCHANGED usession, \A h \in Cleaners : CleanerStays(h)
      PROVE  KeyGone'
  BY <1>1 DEF KeyGone
<1>2. CASE UNCHANGED vars
  BY <1>1, <1>2 DEF vars, redis, cleanup
<1>3. ASSUME NEW s \in Sessions, SessionStep(s)
      PROVE  KeyGone'
  <2>1. CASE ReadError(s) \/ WriteError(s)
    <3>1. UNCHANGED usession /\ StartIoCleanup(s)
      BY <2>1 DEF ReadError, WriteError, redis
    <3>2. QED
      BY <1>t, <1>1, <3>1 DEF StartIoCleanup
  <2>2. CASE ~(ReadError(s) \/ WriteError(s))
    <3>1. UNCHANGED <<usession, epc, euid>>
      BY <1>3, <2>2 DEF SessionStep, Accept, Insert, ReadMessage, PostMsgToQue,
         RejectMessage, BadHeader, WriteDone, redis, cleanup
    <3>2. QED
      BY <1>1, <3>1
  <2>3. QED
    BY <2>1, <2>2
<1>4. ASSUME NEW a \in Servers, LogicStep(a)
      PROVE  KeyGone'
  <2>1. UNCHANGED <<epc, euid>>
    BY <1>4 DEF LogicStep, RefuseLogin, StartLogin, LoginAcquire, LoginTimeout,
       ReadIp, LookupOld, KickFails, ClearOld, SetUserId, SetIp, SetUserSession,
       SetSessionKey, LoginRelease, LoginReply, cleanup
  <2>2. CASE SetSessionKey(a)
    <3>1. /\ lpc[a] \in LoginCS
          /\ \A u \in Uids : u # cur[a].uid => usession'[u] = usession[u]
      BY <1>t, <2>2 DEF SetSessionKey, LoginCS
    <3>2. \A h \in Cleaners : epc[h] = "delIp" => euid[h] # cur[a].uid
      BY <3>1, OneHolder
    <3>3. QED
      BY <1>t, <2>1, <3>1, <3>2 DEF KeyGone
  <2>3. CASE ~SetSessionKey(a)
    <3>1. UNCHANGED usession
      BY <1>4, <2>3 DEF LogicStep, RefuseLogin, StartLogin, LoginAcquire,
         LoginTimeout, ReadIp, LookupOld, KickFails, ClearOld, SetUserId, SetIp,
         SetUserSession, LoginRelease, LoginReply, redis
    <3>2. QED
      BY <1>1, <2>1, <3>1
  <2>4. QED
    BY <2>2, <2>3
<1>5. ASSUME NEW g \in Cleaners, CleanStep(g)
      PROVE  KeyGone'
  <2>1. \A h \in Cleaners : h # g => epc'[h] = epc[h] /\ euid'[h] = euid[h]
    BY <1>t, <1>5 DEF CleanStep, CleanAcquire, CleanTimeout, CheckSession,
       DelSession, DelIp, CleanClear, CleanRelease
  <2>2. CASE DelSession(g)
    BY <1>t, <2>1, <2>2 DEF DelSession, KeyGone
  <2>3. CASE ~DelSession(g)
    <3>1. UNCHANGED usession /\ epc'[g] # "delIp"
      BY <1>t, <1>5, <2>3 DEF CleanStep, CleanAcquire, CleanTimeout,
         CheckSession, DelIp, CleanClear, CleanRelease, redis
    <3>2. QED
      BY <1>1, <2>1, <3>1
  <2>4. QED
    BY <2>2, <2>3
<1>6. CASE \/ \E s \in Sessions : StartTimerCleanup(s)
           \/ \E a \in Servers : \E E \in SUBSET SessionsOf(a) : OnTimer(a, E)
           \/ \E v \in Uids : LockExpire(v)
  <2>1. UNCHANGED usession /\ \A h \in Cleaners : CleanerStays(h)
    BY <1>6, OtherFrame
  <2>2. QED
    BY <1>1, <2>1
<1>7. ASSUME NEW a \in Servers, Crash(a)
      PROVE  KeyGone'
  <2>1. UNCHANGED usession /\ \A h \in Cleaners : CleanerStays(h)
    BY <1>7 DEF Crash
  <2>2. QED
    BY <1>1, <2>1
<1>8. ASSUME NEW k \in strays, StrayStep(k)
      PROVE  KeyGone'
  BY <1>8, StrayFrame DEF redis, cleanup, KeyGone
<1>9. QED
  BY <1>2, <1>3, <1>4, <1>5, <1>6, <1>7, <1>8 DEF Next
-----------------------------------------------------------------------------
(* The theorems.                                                           *)

\* At the start nobody is live and nobody cleans up.
LEMMA InitRoute == SessionBindingAssumption /\ Init => RouteInv /\ KeyGone
  BY DEF Init, RouteInv, Live, KeyGone

\* RouteInv is inductive, given the others.
LEMMA NextRoute ==
  ASSUME SessionBindingAssumption, Reliable, TypeOK, CleanupInv, RequestInv,
         RouteInv, KeyGone, [Next]_vars
  PROVE  RouteInv'
<1>1. CASE UNCHANGED vars
  BY <1>1 DEF vars, redis, tables, logic, cleanup, RouteInv, Live, Bound,
     LoggingIn, Written, Routed, Leaving, OnTheWayTo
<1>2. CASE Next
  BY <1>2, SessionStepRoute, LogicStepRoute, CleanStepRoute, CrashRoute,
     OtherStepRoute, StrayStepRoute DEF Next, Reliable
<1>3. QED
  BY <1>1, <1>2

LEMMA RouteInvHolds ==
  ASSUME SessionBindingAssumption, Reliable
  PROVE  Spec => []RequestInv /\ []RouteInv /\ []KeyGone
<1>1. Exclusive
  BY DEF Reliable
<1>2. Init => RequestInv /\ RouteInv /\ KeyGone
  BY InitRequest, InitRoute
<1>3. TypeOK /\ CleanupInv /\ RequestInv /\ RouteInv /\ KeyGone /\ [Next]_vars
        => (RequestInv /\ RouteInv /\ KeyGone)'
  BY <1>1, NextRequest, NextRoute, NextKeyGone
<1>4. Spec => []TypeOK
  BY TypeCorrect
<1>5. Spec => []CleanupInv
  BY <1>1, CleanupInvHolds
<1>6. QED
  BY <1>2, <1>3, <1>4, <1>5, PTL DEF Spec

\* While nobody holds the user's lock, no login is being written and no
\* clean-up is between its deletions: every live session has all lookups.
LEMMA FreeLockRouted ==
  ASSUME SessionBindingAssumption, CleanupInv, RouteInv,
         NEW u \in Users, lock[u] = Nil, NEW s \in Live(u), Home[s] \in Servers
  PROVE  /\ uip[u] = Home[s] /\ usession[u] = s
         /\ userSession[Home[s]][u] = s
<1>1. ~LoggingIn(s, u)
  BY ThreadsDiffer DEF LoggingIn, CleanupInv, LoginHoldsLock, LoginCS
<1>2. ~Leaving(s, u)
  BY ThreadsDiffer DEF Leaving
<1>3. Routed(s, u)
  BY <1>1 DEF RouteInv, Bound
<1>4. QED
  BY <1>2, <1>3 DEF Routed

\* Whenever a user's lock is free, uip, usession and UserMgr lead to every live
\* session of the user: what LoginHandler, DealExceptionSession and the kick
\* write and delete under the lock never leaves a login that messages miss.
THEOREM RouteConsistentHolds ==
  ASSUME SessionBindingAssumption, Reliable
  PROVE  Spec => []RouteConsistent
<1>1. TypeOK /\ CleanupInv /\ RouteInv => RouteConsistent
  <2>1. SUFFICES ASSUME TypeOK, CleanupInv, RouteInv, NEW u \in Users,
                        NEW s \in Live(u), lock[u] = Nil
                 PROVE  /\ uip[u] = Home[s] /\ usession[u] = s
                        /\ userSession[Home[s]][u] = s
    BY DEF RouteConsistent
  <2>2. Home[s] \in Servers
    BY <2>1 DEF Live, TypeOK, SessionBindingAssumption
  <2>3. QED
    BY <2>1, <2>2, FreeLockRouted
<1>2. Spec => []TypeOK /\ []CleanupInv /\ []RouteInv
  BY TypeCorrect, CleanupInvHolds, RouteInvHolds DEF Reliable
<1>3. QED
  BY <1>1, <1>2, PTL

\* Whenever a user's lock is free, the user has at most one live session in the
\* whole cluster: a login elsewhere has cleared the old one before it lets go.
THEOREM SingleLoginHolds ==
  ASSUME SessionBindingAssumption, Reliable
  PROVE  Spec => []SingleLogin
<1>1. RouteConsistent => SingleLogin
  BY DEF RouteConsistent, SingleLogin
<1>2. Spec => []RouteConsistent
  BY RouteConsistentHolds
<1>3. QED
  BY <1>1, <1>2, PTL
-----------------------------------------------------------------------------
(* Session binding implements Presence: whatever threads, kicks, clean-ups *)
(* and crashes do in between, a session takes a user over only from one    *)
(* that has no seat, and only a closed session gives a user up.            *)
(*                                                                         *)
(* The invariant is about owners, live or not (a connection that logged in *)
(* as somebody else still owns its first user).                            *)

\* uip and UserMgr lead to the owner s of u, and a login of u that is under way
\* follows them and has not got past the owner's removal.
Owned(s, u) ==
  /\ uip[u] = Home[s] /\ userSession[Home[s]][u] = s
  /\ \A b \in Servers : lpc[b] \in LoginCS /\ cur[b].uid = u =>
       OnTheWayTo(b, s) \/ lpc[b] = "release"
OwnerInv == \A u \in Users : \A s \in members : usession[u] = s => Owned(s, u)

\* Only a session that has been inserted owns a user.
FreshOwnsNot == \A u \in Uids : \A s \in Sessions : Fresh(s) => usession[u] # s

\* A login that writes has written _user_uid first.
UidInv ==
  \A a \in Servers : lpc[a] \in {"setIp", "setMgr", "setKey", "release"} =>
                       userUid[cur[a].sess] = cur[a].uid
-----------------------------------------------------------------------------
(* Sessions that are not in yet, and the uid of the session being logged in. *)

\* No session becomes fresh again.
LEMMA FreshStays ==
  ASSUME SessionBindingAssumption, TypeOK, [Next]_vars, NEW s \in Sessions, Fresh(s)'
  PROVE  Fresh(s)
<1>t. /\ sock \in [Sessions -> {"new", "open", "closed"}]
      /\ entering \subseteq Sessions
  BY DEF TypeOK
<1>1. CASE sock'[s] = sock[s] /\ entering' \subseteq entering
  BY <1>1 DEF Fresh
<1>2. CASE UNCHANGED vars
  BY <1>1, <1>2 DEF vars
<1>3. ASSUME NEW r \in Sessions, SessionStep(r)
      PROVE  Fresh(s)
  BY <1>t, <1>3 DEF SessionStep, Accept, Insert, ReadMessage, PostMsgToQue,
     RejectMessage, BadHeader, ReadError, WriteDone, WriteError, StartIoCleanup,
     Fresh
<1>4. ASSUME NEW a \in Servers, LogicStep(a)
      PROVE  Fresh(s)
  BY <1>1, <1>4 DEF LogicStep, RefuseLogin, StartLogin, LoginAcquire,
     LoginTimeout, ReadIp, LookupOld, KickFails, ClearOld, SetUserId, SetIp,
     SetUserSession, SetSessionKey, LoginRelease, LoginReply
<1>5. ASSUME NEW h \in Cleaners, CleanStep(h)
      PROVE  Fresh(s)
  BY <1>1, <1>5 DEF CleanStep, CleanAcquire, CleanTimeout, CheckSession,
     DelSession, DelIp, CleanClear, CleanRelease
<1>6. ASSUME NEW r \in Sessions, StartTimerCleanup(r)
      PROVE  Fresh(s)
  BY <1>1, <1>6 DEF StartTimerCleanup
<1>7. ASSUME NEW a \in Servers, NEW E \in SUBSET SessionsOf(a), OnTimer(a, E)
      PROVE  Fresh(s)
  BY <1>7 DEF OnTimer, Fresh
<1>8. ASSUME NEW a \in Servers, Crash(a)
      PROVE  Fresh(s)
  BY <1>8 DEF Crash, Fresh
<1>9. ASSUME NEW u \in Uids, LockExpire(u)
      PROVE  Fresh(s)
  BY <1>1, <1>9 DEF LockExpire
<1>10. ASSUME NEW k \in strays, StrayStep(k)
       PROVE  Fresh(s)
  BY <1>1, <1>10, StrayFrame
<1>11. QED
  BY <1>2, <1>3, <1>4, <1>5, <1>6, <1>7, <1>8, <1>9, <1>10 DEF Next

\* Who writes usession, and what.
LEMMA SessionKeyWrites ==
  ASSUME SessionBindingAssumption, TypeOK, [Next]_vars
  PROVE  \/ UNCHANGED usession
         \/ \E h \in Cleaners : DelSession(h)
         \/ \E a \in Servers : SetSessionKey(a)
<1>1. ASSUME NEW s \in Sessions, SessionStep(s) \/ StartTimerCleanup(s)
      PROVE  UNCHANGED usession
  BY <1>1 DEF SessionStep, Accept, Insert, ReadMessage, PostMsgToQue,
     RejectMessage, BadHeader, ReadError, WriteDone, WriteError,
     StartTimerCleanup, redis
<1>2. ASSUME NEW a \in Servers, LogicStep(a), ~SetSessionKey(a)
      PROVE  UNCHANGED usession
  BY <1>2 DEF LogicStep, RefuseLogin, StartLogin, LoginAcquire, LoginTimeout,
     ReadIp, LookupOld, KickFails, ClearOld, SetUserId, SetIp, SetUserSession,
     LoginRelease, LoginReply, redis
<1>3. ASSUME NEW h \in Cleaners, CleanStep(h), ~DelSession(h)
      PROVE  UNCHANGED usession
  BY <1>3 DEF CleanStep, CleanAcquire, CleanTimeout, CheckSession, DelIp,
     CleanClear, CleanRelease, redis
<1>4. CASE \/ \E a \in Servers : Crash(a)
           \/ \E a \in Servers : \E E \in SUBSET SessionsOf(a) : OnTimer(a, E)
           \/ \E v \in Uids : LockExpire(v)
           \/ UNCHANGED vars
  BY <1>4 DEF Crash, OnTimer, LockExpire, vars, redis
<1>5. ASSUME NEW k \in strays, StrayStep(k)
      PROVE  UNCHANGED usession
  BY <1>5, StrayFrame DEF redis
<1>6. QED
  BY <1>1, <1>2, <1>3, <1>4, <1>5 DEF Next

\* FreshOwnsNot is inductive.
LEMMA NextFreshOwnsNot ==
  ASSUME SessionBindingAssumption, TypeOK, RequestInv, FreshOwnsNot, [Next]_vars
  PROVE  FreshOwnsNot'
<1>t. usession \in [Uids -> Sessions \cup {Nil}] /\ Nil \notin Sessions
  BY DEF TypeOK, SessionBindingAssumption
<1>1. SUFFICES ASSUME NEW u \in Uids, NEW s \in Sessions, Fresh(s)'
               PROVE  usession'[u] # s
  BY DEF FreshOwnsNot
<1>2. Fresh(s) /\ usession[u] # s
  BY <1>1, FreshStays DEF FreshOwnsNot
<1>3. ASSUME NEW h \in Cleaners, DelSession(h)
      PROVE  usession'[u] # s
  BY <1>t, <1>2, <1>3 DEF DelSession
<1>4. ASSUME NEW a \in Servers, SetSessionKey(a)
      PROVE  usession'[u] # s
  <2>1. cur[a] # Nil
    BY <1>4 DEF SetSessionKey, TypeOK, SessionBindingAssumption
  <2>2. cur[a].sess # s
    BY <1>2, <2>1 DEF RequestInv
  <2>3. QED
    BY <1>t, <1>2, <1>4, <2>2 DEF SetSessionKey
<1>5. QED
  BY <1>2, <1>3, <1>4, SessionKeyWrites

\* UidInv is inductive: a server's logic thread alone writes the _user_uid of
\* the server's sessions.
LEMMA NextUidInv ==
  ASSUME SessionBindingAssumption, TypeOK, RequestInv, UidInv, [Next]_vars
  PROVE  UidInv'
<1>t. /\ userUid \in [Sessions -> Uids] /\ lpc \in [Servers -> LogicPcs]
      /\ cur \in [Servers -> Request \cup {Nil}]
      /\ \A a \in Servers : lpc[a] # "idle" => cur[a] \in Request
      /\ Nil \notin Request
  BY DEF TypeOK, SessionBindingAssumption
<1>0. \A a \in Servers : lpc[a] # "idle" =>
        cur[a].sess \in Sessions /\ cur[a].uid \in Users /\ Home[cur[a].sess] = a
  BY <1>t DEF RequestInv, Request
<1>1. CASE UNCHANGED <<userUid, lpc, cur>>
  BY <1>1 DEF UidInv
<1>2. CASE UNCHANGED vars
  BY <1>1, <1>2 DEF vars, logic
<1>3. ASSUME NEW s \in Sessions, SessionStep(s) \/ StartTimerCleanup(s)
      PROVE  UidInv'
  BY <1>1, <1>3 DEF SessionStep, Accept, Insert, ReadMessage, PostMsgToQue,
     RejectMessage, BadHeader, ReadError, WriteDone, WriteError,
     StartTimerCleanup, logic
<1>4. ASSUME NEW a \in Servers, LogicStep(a)
      PROVE  UidInv'
  <2>1. \A b \in Servers : b # a => lpc'[b] = lpc[b] /\ cur'[b] = cur[b]
    BY <1>t, <1>4 DEF LogicStep, RefuseLogin, StartLogin, Take, LoginAcquire,
       LoginTimeout, ReadIp, LookupOld, KickFails, ClearOld, SetUserId, SetIp,
       SetUserSession, SetSessionKey, LoginRelease, LoginReply, logic
  <2>2. CASE SetUserId(a)
    <3>1. /\ lpc[a] = "setUid" /\ cur' = cur
          /\ userUid' = [userUid EXCEPT ![cur[a].sess] = cur[a].uid]
      BY <2>2 DEF SetUserId
    <3>2. \A b \in Servers : b # a /\ lpc[b] # "idle" => cur[b].sess # cur[a].sess
      BY <1>0, <3>1
    <3>3. QED
      BY <1>t, <1>0, <2>1, <3>1, <3>2 DEF UidInv
  <2>3. CASE ~SetUserId(a)
    <3>1. /\ UNCHANGED userUid
          /\ lpc'[a] \in {"setIp", "setMgr", "setKey", "release"} =>
               /\ lpc[a] \in {"setIp", "setMgr", "setKey"}
               /\ cur'[a] = cur[a]
      BY <1>t, <1>4, <2>3 DEF LogicStep, RefuseLogin, StartLogin, Take,
         LoginAcquire, LoginTimeout, ReadIp, LookupOld, KickFails, ClearOld,
         SetIp, SetUserSession, SetSessionKey, LoginRelease, LoginReply, logic
    <3>2. QED
      BY <2>1, <3>1 DEF UidInv
  <2>4. QED
    BY <2>2, <2>3
<1>5. ASSUME NEW h \in Cleaners, CleanStep(h)
      PROVE  UidInv'
  BY <1>1, <1>5 DEF CleanStep, CleanAcquire, CleanTimeout, CheckSession,
     DelSession, DelIp, CleanClear, CleanRelease, logic
<1>6. ASSUME NEW a \in Servers, NEW E \in SUBSET SessionsOf(a), OnTimer(a, E)
      PROVE  UidInv'
  BY <1>1, <1>6 DEF OnTimer, logic
<1>7. ASSUME NEW u \in Uids, LockExpire(u)
      PROVE  UidInv'
  BY <1>1, <1>7 DEF LockExpire, logic
<1>8. ASSUME NEW a \in Servers, Crash(a)
      PROVE  UidInv'
  <2>1. lpc'[a] = "idle"
    BY <1>8 DEF Crash
  <2>2. ASSUME NEW b \in Servers, b # a,
               lpc'[b] \in {"setIp", "setMgr", "setKey", "release"}
        PROVE  userUid'[cur'[b].sess] = cur'[b].uid
    <3>1. /\ lpc[b] \in {"setIp", "setMgr", "setKey", "release"}
          /\ cur'[b] = cur[b]
      BY <1>t, <1>8, <2>2 DEF Crash
    <3>2. cur[b].sess \in Sessions /\ Home[cur[b].sess] # a
      BY <1>0, <2>2, <3>1
    <3>3. userUid'[cur[b].sess] = userUid[cur[b].sess]
      BY <1>8, <3>2 DEF Crash
    <3>4. QED
      BY <3>1, <3>3 DEF UidInv
  <2>3. QED
    BY <2>1, <2>2 DEF UidInv
<1>9. ASSUME NEW k \in strays, StrayStep(k)
      PROVE  UidInv'
  BY <1>1, <1>9, StrayFrame DEF logic
<1>10. QED
  BY <1>2, <1>3, <1>4, <1>5, <1>6, <1>7, <1>8, <1>9 DEF Next
-----------------------------------------------------------------------------
(* Owners.                                                                 *)

\* What a step has to keep for the owner s of u.
OwnerLookupsKept(s, u) ==
  /\ uip'[u] = uip[u]
  /\ userSession[Home[s]][u] = s => userSession'[Home[s]][u] = s

LEMMA OwnedKept ==
  ASSUME NEW u \in Users, NEW s \in Sessions, Home[s] \in Servers,
         Owned(s, u), LogicKept(u), OwnerLookupsKept(s, u)
  PROVE  Owned(s, u)'
<1>1. \A b \in Servers : lpc'[b] \in LoginCS /\ cur'[b].uid = u =>
        OnTheWayTo(b, s)' \/ lpc'[b] = "release"
  BY DEF Owned, LogicKept, OnTheWayTo
<1>2. QED
  BY <1>1 DEF Owned, OwnerLookupsKept

\* The same for all owners and users, when nobody becomes one.
LEMMA OwnersKept ==
  ASSUME SessionBindingAssumption, TypeOK, OwnerInv,
         \A u \in Users : \A s \in members' : usession'[u] = s =>
           /\ s \in members /\ usession[u] = s
           /\ LogicKept(u) /\ OwnerLookupsKept(s, u)
  PROVE  OwnerInv'
<1>1. SUFFICES ASSUME NEW u \in Users, NEW s \in members', usession'[u] = s
               PROVE  Owned(s, u)'
  BY DEF OwnerInv
<1>2. s \in members /\ s \in Sessions /\ Home[s] \in Servers
  BY <1>1 DEF TypeOK, SessionBindingAssumption
<1>3. Owned(s, u)
  BY <1>1, <1>2 DEF OwnerInv
<1>4. QED
  BY <1>1, <1>2, <1>3, OwnedKept

\* The read and write chains: who enters _sessions owns nobody.
LEMMA SessionStepOwner ==
  ASSUME SessionBindingAssumption, TypeOK, OwnerInv, FreshOwnsNot,
         NEW s \in Sessions, SessionStep(s)
  PROVE  OwnerInv'
<1>t. members \subseteq Sessions /\ Home \in [Sessions -> Servers]
  BY DEF TypeOK, SessionBindingAssumption
<1>1. UNCHANGED <<uip, usession, lpc, cur, lip, lold>>
  BY DEF SessionStep, Accept, Insert, ReadMessage, PostMsgToQue, RejectMessage,
     BadHeader, ReadError, WriteDone, WriteError, redis, logic
<1>2. \A u \in Users : LogicKept(u)
  BY <1>1 DEF LogicKept
<1>3. CASE BadHeader(s)
  <2>1. ClearSession(s)
    BY <1>3 DEF BadHeader
  <2>2. \A r \in members' : r # s /\ r \in members
    BY <1>t, <2>1, ClearOnly
  <2>3. \A u \in Users : \A r \in members' : OwnerLookupsKept(r, u)
    BY <1>t, <1>1, <2>1, <2>2, ClearOnly DEF OwnerLookupsKept
  <2>4. QED
    BY <1>1, <1>2, <2>2, <2>3, OwnersKept
<1>4. CASE Insert(s)
  <2>1. /\ members' = members \cup {s} /\ UNCHANGED userSession
        /\ Fresh(s)
    BY <1>4 DEF Insert, Fresh
  <2>2. \A u \in Users : usession[u] # s
    BY <2>1 DEF FreshOwnsNot, Uids
  <2>3. \A u \in Users : \A r \in members' : OwnerLookupsKept(r, u)
    BY <1>1, <2>1 DEF OwnerLookupsKept
  <2>4. QED
    BY <1>1, <1>2, <2>1, <2>2, <2>3, OwnersKept
<1>5. CASE UNCHANGED <<members, userSession>>
  <2>1. \A u \in Users : \A r \in members' : OwnerLookupsKept(r, u)
    BY <1>1, <1>5 DEF OwnerLookupsKept
  <2>2. QED
    BY <1>1, <1>2, <1>5, <2>1, OwnersKept
<1>6. QED
  BY <1>3, <1>4, <1>5 DEF SessionStep, Accept, ReadMessage, PostMsgToQue,
     RejectMessage, ReadError, WriteDone, WriteError, tables

\* A login and the owner of its user.
LEMMA LoginStepOwner ==
  ASSUME SessionBindingAssumption, TypeOK, CleanupInv, RequestInv, RouteInv,
         UidInv, OwnerInv, NEW a \in Servers, Locked(a),
         NEW s \in members', usession'[cur[a].uid] = s
  PROVE  Owned(s, cur[a].uid)'
<1> DEFINE u == cur[a].uid
<1>t. /\ usession \in [Uids -> Sessions \cup {Nil}]
      /\ userSession \in [Servers -> [Uids -> Sessions \cup {Nil}]]
      /\ lpc \in [Servers -> LogicPcs]
      /\ lip \in [Servers -> Servers \cup {Nil}]
      /\ lold \in [Servers -> Sessions \cup {Nil}]
      /\ Nil \notin Servers /\ Nil \notin Sessions
  BY DEF TypeOK, SessionBindingAssumption
<1>0. /\ UNCHANGED cur /\ u \in Users /\ u \in Uids
      /\ s \in members /\ s \in Sessions /\ Home[s] \in Servers
      /\ cur[a].sess \in Sessions
      /\ \A b \in Servers : b # a => /\ lpc'[b] = lpc[b] /\ lip'[b] = lip[b]
                                     /\ lold'[b] = lold[b]
  BY LockedFrame DEF TypeOK, SessionBindingAssumption, Uids
<1>1. ASSUME usession[u] = s, UNCHANGED <<uip, userSession>>,
             lpc'[a] \in LoginCS => OnTheWayTo(a, s)' \/ lpc'[a] = "release"
      PROVE  Owned(s, u)'
  <2>1. Owned(s, u)
    BY <1>0, <1>1 DEF OwnerInv
  <2>2. \A b \in Servers : lpc'[b] \in LoginCS /\ cur'[b].uid = u =>
          OnTheWayTo(b, s)' \/ lpc'[b] = "release"
    BY <1>0, <1>1, <2>1 DEF Owned, OnTheWayTo
  <2>3. QED
    BY <1>0, <1>1, <2>1, <2>2 DEF Owned
<1>2. ASSUME usession[u] = s, lpc[a] \in LoginCS
      PROVE  /\ uip[u] = Home[s] /\ userSession[Home[s]][u] = s
             /\ OnTheWayTo(a, s) \/ lpc[a] = "release"
  BY <1>0, <1>2 DEF OwnerInv, Owned
<1>3. CASE LoginAcquire(a)
  <2>1. /\ lpc'[a] = "readIp" /\ UNCHANGED <<uip, usession, userSession>>
    BY <1>t, <1>3 DEF LoginAcquire, tables
  <2>2. QED
    BY <1>1, <2>1 DEF OnTheWayTo
<1>4. CASE ReadIp(a)
  <2>1. /\ lpc[a] = "readIp" /\ UNCHANGED <<uip, usession, userSession>>
        /\ lpc'[a] = IF uip[u] = Nil THEN "setUid" ELSE "lookup"
        /\ lip'[a] = uip[u]
    BY <1>t, <1>4 DEF ReadIp, tables, redis
  <2>2. lpc'[a] = "lookup" /\ lip'[a] = Home[s]
    BY <1>t, <1>0, <1>2, <2>1 DEF LoginCS
  <2>3. QED
    BY <1>1, <2>1, <2>2 DEF OnTheWayTo
<1>5. CASE LookupOld(a)
  <2>1. /\ lpc[a] = "lookup" /\ UNCHANGED <<uip, usession, userSession, lip>>
    BY <1>5 DEF LookupOld, tables, redis
  <2>2. userSession[lip[a]][u] = s /\ lip[a] = Home[s]
    BY <1>2, <2>1 DEF LoginCS, OnTheWayTo
  <2>3. lpc'[a] = "clearOld" /\ lold'[a] = s
    BY <1>t, <1>0, <1>5, <2>2 DEF LookupOld
  <2>4. QED
    BY <1>1, <2>1, <2>2, <2>3 DEF OnTheWayTo
<1>6. CASE ClearOld(a)
  <2>1. /\ lpc[a] = "clearOld" /\ lold[a] \in Sessions /\ UNCHANGED usession
        /\ ClearSession(lold[a])
    BY <1>6 DEF ClearOld, TypeOK, redis
  <2>2. lold[a] = s
    BY <1>2, <2>1 DEF LoginCS, OnTheWayTo
  <2>3. QED
    BY <2>1, <2>2, ClearOnly
<1>7. CASE SetUserId(a) \/ SetIp(a) \/ SetUserSession(a)
  <2>1. lpc[a] \in {"setUid", "setIp", "setMgr"} /\ UNCHANGED usession
    BY <1>7 DEF SetUserId, SetIp, SetUserSession, redis
  <2>2. QED
    BY <1>2, <2>1 DEF LoginCS, OnTheWayTo
<1>8. CASE SetSessionKey(a)
  <2>1. /\ lpc[a] = "setKey" /\ lpc'[a] = "release" /\ s = cur[a].sess
        /\ UNCHANGED <<uip, userSession>>
    BY <1>t, <1>0, <1>8 DEF SetSessionKey, tables
  <2>2. s \in Live(u)
    BY <1>0, <2>1 DEF UidInv, Live
  <2>3. Home[s] = a /\ Written(s, u)
    BY <2>1, <2>2, InProgress DEF LoginCS
  <2>4. uip[u] = a /\ userSession[a][u] = s
    BY <2>1, <2>3 DEF Written
  <2>5. \A b \in Servers : b # a /\ lpc[b] \in LoginCS => cur[b].uid # u
    BY <2>1, OneHolder DEF LoginCS
  <2>6. QED
    BY <1>0, <2>1, <2>3, <2>4, <2>5 DEF Owned
<1>9. CASE LoginRelease(a)
  <2>1. /\ lpc'[a] = "reply" /\ UNCHANGED <<uip, usession, userSession>>
    BY <1>t, <1>9 DEF LoginRelease, tables
  <2>2. QED
    BY <1>1, <2>1 DEF LoginCS
<1>10. QED
  BY <1>3, <1>4, <1>5, <1>6, <1>7, <1>8, <1>9 DEF Locked

LEMMA LogicStepOwner ==
  ASSUME SessionBindingAssumption, Reliable, TypeOK, CleanupInv, RequestInv,
         RouteInv, UidInv, OwnerInv, NEW a \in Servers, LogicStep(a)
  PROVE  OwnerInv'
<1>1. CASE Locked(a)
  <2>1. SUFFICES ASSUME NEW u \in Users, NEW s \in members', usession'[u] = s
                 PROVE  Owned(s, u)'
    BY DEF OwnerInv
  <2>2. CASE u = cur[a].uid
    <3>1. u = cur'[a].uid
      BY <1>1, <2>2, LockedFrame
    <3>2. Owned(s, cur[a].uid)'
      BY <1>1, <2>1, <2>2, LoginStepOwner
    <3>3. QED
      BY <3>1, <3>2
  <2>3. CASE u # cur[a].uid
    <3>1. /\ s \in members /\ s \in Sessions /\ Home[s] \in Servers
          /\ u \in Uids
      BY <1>1, LockedFrame DEF TypeOK, SessionBindingAssumption, Uids
    <3>2. usession[u] = s /\ LogicKept(u) /\ OwnerLookupsKept(s, u)
      BY <1>1, <2>1, <2>3, <3>1, LockedFrame DEF LogicKept, OwnerLookupsKept
    <3>3. Owned(s, u)
      BY <3>1, <3>2 DEF OwnerInv
    <3>4. QED
      BY <3>1, <3>2, <3>3, OwnedKept
  <2>4. QED
    BY <2>2, <2>3
<1>2. CASE RefuseLogin(a) \/ StartLogin(a) \/ LoginReply(a)
  <2>1. /\ UNCHANGED <<uip, usession, members, userSession, lip, lold>>
        /\ lpc[a] \notin LoginCS /\ lpc'[a] \notin LoginCS
        /\ \A b \in Servers : b # a => lpc'[b] = lpc[b] /\ cur'[b] = cur[b]
    BY <1>2 DEF RefuseLogin, StartLogin, Take, LoginReply, TypeOK, LoginCS,
       redis, tables, logic
  <2>2. \A u \in Users : LogicKept(u)
    BY <2>1 DEF LogicKept
  <2>3. \A u \in Users : \A s \in members' : OwnerLookupsKept(s, u)
    BY <2>1 DEF OwnerLookupsKept
  <2>4. QED
    BY <2>1, <2>2, <2>3, OwnersKept
<1>3. CASE LoginTimeout(a) \/ KickFails(a)
  BY <1>3 DEF LoginTimeout, KickFails, Reliable, Exclusive
<1>4. QED
  BY <1>1, <1>2, <1>3 DEF LogicStep, Locked

\* A clean-up takes uip away only from a user without an owner.
LEMMA CleanStepOwner ==
  ASSUME SessionBindingAssumption, TypeOK, KeyGone, OwnerInv,
         NEW h \in Cleaners, CleanStep(h)
  PROVE  OwnerInv'
<1>t. /\ uip \in [Uids -> Servers \cup {Nil}]
      /\ usession \in [Uids -> Sessions \cup {Nil}]
      /\ members \subseteq Sessions /\ h[2] \in Sessions /\ euid[h] \in Uids
      /\ Nil \notin Sessions /\ Home \in [Sessions -> Servers]
  BY ThreadsDiffer DEF TypeOK, SessionBindingAssumption
<1>1. UNCHANGED <<lpc, cur, lip, lold>> /\ \A u \in Users : LogicKept(u)
  BY DEF CleanStep, CleanAcquire, CleanTimeout, CheckSession, DelSession,
     DelIp, CleanClear, CleanRelease, logic, LogicKept
<1>2. CASE CleanClear(h)
  <2>1. UNCHANGED <<uip, usession>> /\ ClearSession(h[2])
    BY <1>2 DEF CleanClear, redis
  <2>2. \A s \in members' : s # h[2] /\ s \in members
    BY <1>t, <2>1, ClearOnly
  <2>3. \A u \in Users : \A s \in members' : OwnerLookupsKept(s, u)
    BY <1>t, <2>1, <2>2, ClearOnly DEF OwnerLookupsKept
  <2>4. QED
    BY <1>1, <2>1, <2>2, <2>3, OwnersKept
<1>3. CASE DelSession(h)
  <2>1. /\ UNCHANGED <<uip, members, userSession>>
        /\ \A u \in Uids : usession'[u] \in {usession[u], Nil}
    BY <1>t, <1>3 DEF DelSession, tables
  <2>2. \A u \in Users : \A s \in members' : OwnerLookupsKept(s, u)
    BY <2>1 DEF OwnerLookupsKept
  <2>3. QED
    BY <1>t, <1>1, <2>1, <2>2, OwnersKept DEF Uids
<1>4. CASE DelIp(h)
  <2>1. /\ UNCHANGED <<usession, members, userSession>>
        /\ usession[euid[h]] = Nil
        /\ \A u \in Uids : u # euid[h] => uip'[u] = uip[u]
    BY <1>t, <1>4 DEF DelIp, KeyGone, tables
  <2>2. \A u \in Users : \A s \in members' : usession'[u] = s =>
          OwnerLookupsKept(s, u)
    BY <1>t, <2>1 DEF OwnerLookupsKept, Uids
  <2>3. QED
    BY <1>1, <2>1, <2>2, OwnersKept
<1>5. CASE CleanAcquire(h) \/ CleanTimeout(h) \/ CheckSession(h)
             \/ CleanRelease(h)
  <2>1. UNCHANGED <<uip, usession, members, userSession>>
    BY <1>5 DEF CleanAcquire, CleanTimeout, CheckSession, CleanRelease, redis,
       tables
  <2>2. \A u \in Users : \A s \in members' : OwnerLookupsKept(s, u)
    BY <2>1 DEF OwnerLookupsKept
  <2>3. QED
    BY <1>1, <2>1, <2>2, OwnersKept
<1>6. QED
  BY <1>2, <1>3, <1>4, <1>5 DEF CleanStep

\* A crash takes the owners it touches out of _sessions.
LEMMA CrashOwner ==
  ASSUME SessionBindingAssumption, TypeOK, RequestInv, OwnerInv,
         NEW a \in Servers, Crash(a)
  PROVE  OwnerInv'
<1>t. /\ lpc \in [Servers -> LogicPcs]
      /\ lip \in [Servers -> Servers \cup {Nil}]
      /\ lold \in [Servers -> Sessions \cup {Nil}]
      /\ members \subseteq Sessions /\ Home \in [Sessions -> Servers]
      /\ userSession \in [Servers -> [Uids -> Sessions \cup {Nil}]]
  BY DEF TypeOK, SessionBindingAssumption
<1>1. SUFFICES ASSUME NEW u \in Users, NEW s \in members', usession'[u] = s
               PROVE  Owned(s, u)'
  BY DEF OwnerInv
<1>2. s \in members /\ s \in Sessions /\ Home[s] \in Servers /\ usession[u] = s
  BY <1>t, <1>1 DEF Crash
<1>3. sock[s] # "new"
  BY <1>2 DEF RequestInv, Fresh
<1>4. Home[s] # a
  BY <1>1, <1>2, <1>3 DEF Crash
<1>5. Owned(s, u)
  BY <1>2 DEF OwnerInv
<1>6. /\ UNCHANGED uip
      /\ userSession'[Home[s]] = userSession[Home[s]]
      /\ \A b \in Servers : b # a => cur'[b] = cur[b] /\ lip'[b] = lip[b]
      /\ \A b \in Servers : b # a =>
           lpc'[b] = IF lpc[b] = "clearOld" /\ lip[b] = a THEN "setUid" ELSE lpc[b]
      /\ \A b \in Servers : b # a =>
           lold'[b] = IF lip[b] = a THEN Nil ELSE lold[b]
      /\ lpc'[a] = "idle"
  BY <1>t, <1>2, <1>4 DEF Crash
<1>7. ASSUME NEW b \in Servers, lpc'[b] \in LoginCS, cur'[b].uid = u
      PROVE  OnTheWayTo(b, s)' \/ lpc'[b] = "release"
  <2>1. b # a
    BY <1>6, <1>7 DEF LoginCS
  <2>2. lpc[b] \in LoginCS /\ cur[b].uid = u
    BY <1>6, <1>7, <2>1 DEF LoginCS
  <2>3. OnTheWayTo(b, s) \/ lpc[b] = "release"
    BY <1>5, <2>2 DEF Owned
  <2>4. QED
    BY <1>4, <1>6, <2>1, <2>3 DEF OnTheWayTo
<1>8. QED
  BY <1>5, <1>6, <1>7 DEF Owned

\* OwnerInv is inductive, given the others.
LEMMA NextOwner ==
  ASSUME SessionBindingAssumption, Reliable, TypeOK, CleanupInv, RequestInv,
         RouteInv, KeyGone, UidInv, FreshOwnsNot, OwnerInv, [Next]_vars
  PROVE  OwnerInv'
<1>1. CASE UNCHANGED vars
  BY <1>1 DEF vars, redis, tables, logic, OwnerInv, Owned, OnTheWayTo
<1>2. ASSUME \/ \E s \in Sessions : StartTimerCleanup(s)
             \/ \E a \in Servers : \E E \in SUBSET SessionsOf(a) : OnTimer(a, E)
             \/ \E v \in Uids : LockExpire(v)
      PROVE  OwnerInv'
  <2>1. UNCHANGED <<uip, usession, members, userSession, lpc, cur, lip, lold>>
    BY <1>2, OtherFrame DEF Reliable
  <2>2. QED
    BY <2>1 DEF OwnerInv, Owned, OnTheWayTo
<1>3. ASSUME NEW k \in strays, StrayStep(k)
      PROVE  OwnerInv'
  <2>1. UNCHANGED <<uip, usession, lpc, cur, lip, lold>>
    BY <1>3, StrayFrame DEF redis, logic
  <2>2. \A u \in Users : \A s \in members' :
          s \in members /\ LogicKept(u) /\ OwnerLookupsKept(s, u)
    <3>1. CASE UNCHANGED tables
      BY <2>1, <3>1 DEF tables, LogicKept, OwnerLookupsKept
    <3>2. ASSUME NEW r \in Sessions, ClearSession(r)
          PROVE  \A u \in Users : \A s \in members' :
                   s \in members /\ LogicKept(u) /\ OwnerLookupsKept(s, u)
      BY <2>1, <3>2, ClearOnly
         DEF TypeOK, SessionBindingAssumption, LogicKept, OwnerLookupsKept
    <3>3. QED
      BY <1>3, <3>1, <3>2, StrayFrame
  <2>3. QED
    BY <2>1, <2>2, OwnersKept
<1>4. QED
  BY <1>1, <1>2, <1>3, SessionStepOwner, LogicStepOwner, CleanStepOwner,
     CrashOwner DEF Next
-----------------------------------------------------------------------------
(* The refinement.                                                         *)

\* ClearSession is Unseat.
LEMMA ClearIsUnseat ==
  ASSUME NEW s \in Sessions, ClearSession(s), UNCHANGED <<usession, sock>>
  PROVE  P!Next
<1>1. P!Unseat(s)
  BY DEF ClearSession, P!Unseat
<1>2. QED
  BY <1>1 DEF P!Next

\* Closing the connection of one session is Disconnect.
LEMMA CloseIsDisconnect ==
  ASSUME TypeOK, NEW s \in Sessions, sock[s] # "new",
         sock' = [sock EXCEPT ![s] = "closed"], UNCHANGED <<usession, members>>
  PROVE  P!Next
<1>1. sock' = [r \in Sessions |-> IF r \in {s} THEN "closed" ELSE sock[r]]
  BY DEF TypeOK
<1>2. P!Disconnect({s})
  BY <1>1 DEF P!Disconnect
<1>3. QED
  BY <1>2 DEF P!Next

LEMMA SessionStepPresence ==
  ASSUME SessionBindingAssumption, TypeOK, RequestInv,
         NEW s \in Sessions, SessionStep(s)
  PROVE  [P!Next]_<<usession, members, sock>>
<1>1. CASE Accept(s)
  <2>1. P!Connect(s)
    BY <1>1 DEF Accept, P!Connect, redis, tables
  <2>2. QED
    BY <2>1 DEF P!Next
<1>2. CASE Insert(s)
  <2>1. sock[s] # "new"
    BY <1>2 DEF Insert, RequestInv
  <2>2. P!Seat(s)
    BY <1>2, <2>1 DEF Insert, P!Seat, redis
  <2>3. QED
    BY <2>2 DEF P!Next
<1>3. CASE RejectMessage(s)
  <2>1. /\ sock[s] = "open" /\ sock' = [sock EXCEPT ![s] = "closed"]
        /\ UNCHANGED <<usession, members>>
    BY <1>3 DEF RejectMessage, redis, tables
  <2>2. QED
    BY <2>1, CloseIsDisconnect
<1>4. CASE BadHeader(s)
  <2>1. ClearSession(s) /\ UNCHANGED <<usession, sock>>
    BY <1>4 DEF BadHeader, redis
  <2>2. QED
    BY <2>1, ClearIsUnseat
<1>5. CASE ReadError(s) \/ WriteError(s)
  <2>1. /\ sock[s] # "new" /\ sock' = [sock EXCEPT ![s] = "closed"]
        /\ UNCHANGED <<usession, members>>
    BY <1>5 DEF ReadError, WriteError, IoFails, StartIoCleanup, redis, tables
  <2>2. QED
    BY <2>1, CloseIsDisconnect
<1>6. CASE (\E u \in Users : ReadMessage(s, u)) \/ PostMsgToQue(s) \/ WriteDone(s)
  BY <1>6 DEF ReadMessage, PostMsgToQue, WriteDone, redis, tables
<1>7. QED
  BY <1>1, <1>2, <1>3, <1>4, <1>5, <1>6 DEF SessionStep

\* SetSessionKey is TakeOver: the login that gets there has unseated the owner.
LEMMA LogicStepPresence ==
  ASSUME SessionBindingAssumption, TypeOK, RequestInv, OwnerInv,
         NEW a \in Servers, LogicStep(a)
  PROVE  [P!Next]_<<usession, members, sock>>
<1>1. CASE SetSessionKey(a)
  <2> DEFINE u == cur[a].uid
             s == cur[a].sess
  <2>1. /\ lpc[a] = "setKey" /\ cur[a] # Nil
        /\ u \in Users /\ u \in Uids /\ s \in Sessions
    BY <1>1 DEF SetSessionKey, TypeOK, Request, Uids, SessionBindingAssumption
  <2>2. sock[s] # "new"
    BY <2>1 DEF RequestInv, Fresh
  <2>3. usession[u] \notin members
    BY <2>1 DEF OwnerInv, Owned, OnTheWayTo, LoginCS
  <2>4. P!TakeOver(u, s)
    BY <1>1, <2>2, <2>3 DEF SetSessionKey, P!TakeOver, tables
  <2>5. QED
    BY <2>1, <2>4 DEF P!Next
<1>2. CASE ClearOld(a)
  <2>1. /\ lold[a] \in Sessions /\ ClearSession(lold[a])
        /\ UNCHANGED <<usession, sock>>
    BY <1>2 DEF ClearOld, TypeOK, redis
  <2>2. QED
    BY <2>1, ClearIsUnseat
<1>3. CASE ~SetSessionKey(a) /\ ~ClearOld(a)
  BY <1>3 DEF LogicStep, RefuseLogin, StartLogin, LoginAcquire, LoginTimeout,
     ReadIp, LookupOld, KickFails, SetUserId, SetIp, SetUserSession,
     LoginRelease, LoginReply, redis, tables
<1>4. QED
  BY <1>1, <1>2, <1>3

\* DelSession is GiveUp: the clean-up deletes the key of its own, closed session.
LEMMA CleanStepPresence ==
  ASSUME SessionBindingAssumption, TypeOK, CleanupInv,
         NEW h \in Cleaners, CleanStep(h)
  PROVE  [P!Next]_<<usession, members, sock>>
<1>t. h[2] \in Sessions /\ Nil \notin Sessions /\ euid[h] \in Uids
  BY ThreadsDiffer DEF TypeOK, SessionBindingAssumption
<1>1. CASE DelSession(h)
  <2>1. usession[euid[h]] = h[2] /\ sock[h[2]] = "closed"
    BY <1>1 DEF DelSession, CleanupInv, DeletesOwnSession, CleanedIsClosed
  <2>2. P!GiveUp(euid[h])
    BY <1>t, <1>1, <2>1 DEF DelSession, P!GiveUp, tables
  <2>3. QED
    BY <1>t, <2>2 DEF P!Next
<1>2. CASE CleanClear(h)
  <2>1. ClearSession(h[2]) /\ UNCHANGED <<usession, sock>>
    BY <1>2 DEF CleanClear, redis
  <2>2. QED
    BY <1>t, <2>1, ClearIsUnseat
<1>3. CASE ~DelSession(h) /\ ~CleanClear(h)
  BY <1>3 DEF CleanStep, CleanAcquire, CleanTimeout, CheckSession, DelIp,
     CleanRelease, redis, tables
<1>4. QED
  BY <1>1, <1>2, <1>3

\* on_timer closes some sessions at once, a crash takes their seats as well.
LEMMA ManyPresence ==
  ASSUME SessionBindingAssumption, TypeOK, RequestInv, NEW a \in Servers,
         Crash(a) \/ \E E \in SUBSET SessionsOf(a) : OnTimer(a, E)
  PROVE  P!Next
<1>1. ASSUME NEW E \in SUBSET SessionsOf(a), OnTimer(a, E)
      PROVE  P!Next
  <2>1. E \in SUBSET Sessions /\ \A s \in E : sock[s] # "new"
    BY DEF SessionsOf, TypeOK, RequestInv, Fresh
  <2>2. P!Disconnect(E)
    BY <1>1, <2>1 DEF OnTimer, P!Disconnect, tables
  <2>3. QED
    BY <2>1, <2>2 DEF P!Next
<1>2. CASE Crash(a)
  <2> DEFINE dead == {s \in Sessions : Home[s] = a /\ sock[s] # "new"}
  <2>1. P!Fail(dead)
    BY <1>2 DEF Crash, P!Fail
  <2>2. QED
    BY <2>1 DEF P!Next
<1>3. QED
  BY <1>1, <1>2

LEMMA PresenceStep ==
  ASSUME SessionBindingAssumption, TypeOK, CleanupInv, RequestInv, OwnerInv,
         [Next]_vars
  PROVE  [P!Next]_<<usession, members, sock>>
<1>1. CASE UNCHANGED vars
  BY <1>1 DEF vars, redis, tables
<1>2. CASE (\E s \in Sessions : StartTimerCleanup(s)) \/ \E u \in Uids : LockExpire(u)
  BY <1>2 DEF StartTimerCleanup, LockExpire, redis, tables
<1>3. ASSUME NEW k \in strays, StrayStep(k)
      PROVE  [P!Next]_<<usession, members, sock>>
  BY <1>3, StrayFrame, ClearIsUnseat DEF redis, tables
<1>4. QED
  BY <1>1, <1>2, <1>3, SessionStepPresence, LogicStepPresence,
     CleanStepPresence, ManyPresence DEF Next

\* The session binding of the chat servers implements Presence, when logins get
\* their locks in time and kicks reach running servers: usession names a user's
\* owner, _sessions who has a seat, and only a closed session gives a user up.
THEOREM PresenceRefined ==
  ASSUME SessionBindingAssumption, Reliable
  PROVE  Spec => PresenceSpec
<1>1. Exclusive
  BY DEF Reliable
<1>2. Init => UidInv /\ FreshOwnsNot /\ OwnerInv /\ P!Init
  <2>1. Init => UidInv /\ OwnerInv /\ P!Init
    BY DEF Init, UidInv, OwnerInv, P!Init
  <2>2. Init => FreshOwnsNot
    BY DEF Init, FreshOwnsNot, SessionBindingAssumption
  <2>3. QED
    BY <2>1, <2>2
<1>3. TypeOK /\ CleanupInv /\ RequestInv /\ RouteInv /\ KeyGone /\ UidInv
        /\ FreshOwnsNot /\ OwnerInv /\ [Next]_vars
          => (UidInv /\ FreshOwnsNot /\ OwnerInv)'
  BY NextUidInv, NextFreshOwnsNot, NextOwner
<1>4. TypeOK /\ CleanupInv /\ RequestInv /\ OwnerInv /\ [Next]_vars
        => [P!Next]_<<usession, members, sock>>
  BY PresenceStep
<1>5. Spec => []TypeOK /\ []CleanupInv
  BY <1>1, TypeCorrect, CleanupInvHolds
<1>6. Spec => []RequestInv /\ []RouteInv /\ []KeyGone
  BY RouteInvHolds
<1>7. QED
  BY <1>2, <1>3, <1>4, <1>5, <1>6, PTL DEF Spec, PresenceSpec, P!Spec, P!vars
-----------------------------------------------------------------------------
(* Kicks that fail.  A login whose kick fails leaves the session it should *)
(* have cleared behind, live and in its server's UserMgr: SingleLogin,     *)
(* RouteConsistent and Presence are lost.  What the login has written is   *)
(* still the user's, whatever becomes of that session.                     *)

\* The keys that a login has written, the later ones with the earlier ones.
KeysWritten ==
  \A a \in Servers :
    LET u == cur[a].uid
        s == cur[a].sess
    IN /\ lpc[a] \in {"setMgr", "setKey", "release"} => uip[u] = a
       /\ lpc[a] \in {"setKey", "release"} /\ s \in members =>
            userSession[a][u] = s

\* UserMgr leads to the session that usession names, or to the one that is about
\* to be named there.
Served(s, u) ==
  \/ userSession[Home[s]][u] = s
  \/ lpc[Home[s]] = "setKey" /\ cur[Home[s]].uid = u
ServedInv == \A u \in Users : \A s \in members : usession[u] = s => Served(s, u)

\* A logic thread is moved by itself, or by a crash.
LEMMA LogicMoves ==
  ASSUME SessionBindingAssumption, TypeOK, [Next]_vars, NEW a \in Servers
  PROVE  \/ lpc'[a] = lpc[a] /\ cur'[a] = cur[a]
         \/ LogicStep(a)
         \/ \E b \in Servers : Crash(b)
<1>t. lpc \in [Servers -> LogicPcs] /\ cur \in [Servers -> Request \cup {Nil}]
  BY DEF TypeOK
<1>1. ASSUME NEW b \in Servers, LogicStep(b), b # a
      PROVE  lpc'[a] = lpc[a] /\ cur'[a] = cur[a]
  BY <1>t, <1>1 DEF LogicStep, RefuseLogin, StartLogin, Take, LoginAcquire,
     LoginTimeout, ReadIp, LookupOld, KickFails, ClearOld, SetUserId, SetIp,
     SetUserSession, SetSessionKey, LoginRelease, LoginReply, logic
<1>2. ASSUME NEW s \in Sessions, SessionStep(s) \/ StartTimerCleanup(s)
      PROVE  UNCHANGED <<lpc, cur>>
  BY <1>2 DEF SessionStep, Accept, Insert, ReadMessage, PostMsgToQue,
     RejectMessage, BadHeader, ReadError, WriteDone, WriteError,
     StartTimerCleanup, logic
<1>3. ASSUME NEW h \in Cleaners, CleanStep(h)
      PROVE  UNCHANGED <<lpc, cur>>
  BY <1>3 DEF CleanStep, CleanAcquire, CleanTimeout, CheckSession, DelSession,
     DelIp, CleanClear, CleanRelease, logic
<1>4. CASE \/ \E b \in Servers : \E E \in SUBSET SessionsOf(b) : OnTimer(b, E)
           \/ \E v \in Uids : LockExpire(v)
           \/ UNCHANGED vars
  BY <1>4 DEF OnTimer, LockExpire, vars, logic
<1>5. ASSUME NEW k \in strays, StrayStep(k)
      PROVE  UNCHANGED <<lpc, cur>>
  BY <1>5, StrayFrame DEF logic
<1>6. QED
  BY <1>1, <1>2, <1>3, <1>4, <1>5 DEF Next

\* The last part of a login goes one way.
LEMMA LoginMoves ==
  ASSUME SessionBindingAssumption, TypeOK, [Next]_vars, NEW a \in Servers
  PROVE  /\ lpc'[a] \in {"setMgr", "setKey", "release"} =>
              /\ cur'[a] = cur[a]
              /\ \/ lpc'[a] = lpc[a]
                 \/ SetIp(a) /\ lpc'[a] = "setMgr"
                 \/ SetUserSession(a) /\ lpc'[a] = "setKey"
                 \/ SetSessionKey(a) /\ lpc'[a] = "release"
         /\ lpc[a] = "setKey" =>
              \/ lpc'[a] = "setKey" /\ cur'[a] = cur[a]
              \/ SetSessionKey(a)
              \/ Crash(a)
<1>t. lpc \in [Servers -> LogicPcs]
  BY DEF TypeOK
<1>1. CASE lpc'[a] = lpc[a] /\ cur'[a] = cur[a]
  BY <1>1
<1>2. CASE LogicStep(a)
  <2>1. CASE RefuseLogin(a)
    BY <1>1, <2>1 DEF RefuseLogin, logic
  <2>2. CASE StartLogin(a)
    BY <1>t, <2>2 DEF StartLogin, Take
  <2>3. CASE \/ LoginAcquire(a) \/ LoginTimeout(a) \/ ReadIp(a) \/ LookupOld(a)
             \/ KickFails(a) \/ ClearOld(a) \/ SetUserId(a) \/ LoginReply(a)
    BY <1>t, <2>3 DEF LoginAcquire, LoginTimeout, ReadIp, LookupOld, KickFails,
       ClearOld, SetUserId, LoginReply
  <2>4. CASE SetIp(a) \/ SetUserSession(a) \/ SetSessionKey(a) \/ LoginRelease(a)
    BY <1>t, <2>4 DEF SetIp, SetUserSession, SetSessionKey, LoginRelease
  <2>5. QED
    BY <1>2, <2>1, <2>2, <2>3, <2>4 DEF LogicStep
<1>3. ASSUME NEW b \in Servers, Crash(b)
      PROVE  /\ b = a => Crash(a) /\ lpc'[a] = "idle"
             /\ b # a => /\ cur'[a] = cur[a]
                         /\ \/ lpc'[a] = lpc[a]
                            \/ lpc[a] = "clearOld" /\ lpc'[a] = "setUid"
  <2>1. CASE b = a
    BY <1>t, <1>3, <2>1 DEF Crash
  <2>2. CASE b # a
    BY <1>t, <1>3, <2>2 DEF Crash, TypeOK
  <2>3. QED
    BY <2>1, <2>2
<1>4. CASE \E b \in Servers : Crash(b)
  BY <1>3, <1>4
<1>5. QED
  BY <1>1, <1>2, <1>4, LogicMoves

\* Who writes uip.
LEMMA IpWrites ==
  ASSUME [Next]_vars
  PROVE  \/ UNCHANGED uip
         \/ \E h \in Cleaners : DelIp(h)
         \/ \E a \in Servers : SetIp(a)
<1>1. ASSUME NEW s \in Sessions, SessionStep(s) \/ StartTimerCleanup(s)
      PROVE  UNCHANGED uip
  BY <1>1 DEF SessionStep, Accept, Insert, ReadMessage, PostMsgToQue,
     RejectMessage, BadHeader, ReadError, WriteDone, WriteError,
     StartTimerCleanup, redis
<1>2. ASSUME NEW a \in Servers, LogicStep(a), ~SetIp(a)
      PROVE  UNCHANGED uip
  BY <1>2 DEF LogicStep, RefuseLogin, StartLogin, LoginAcquire, LoginTimeout,
     ReadIp, LookupOld, KickFails, ClearOld, SetUserId, SetUserSession,
     SetSessionKey, LoginRelease, LoginReply, redis
<1>3. ASSUME NEW h \in Cleaners, CleanStep(h), ~DelIp(h)
      PROVE  UNCHANGED uip
  BY <1>3 DEF CleanStep, CleanAcquire, CleanTimeout, CheckSession, DelSession,
     CleanClear, CleanRelease, redis
<1>4. CASE \/ \E a \in Servers : Crash(a)
           \/ \E a \in Servers : \E E \in SUBSET SessionsOf(a) : OnTimer(a, E)
           \/ \E v \in Uids : LockExpire(v)
           \/ UNCHANGED vars
  BY <1>4 DEF Crash, OnTimer, LockExpire, vars, redis
<1>5. ASSUME NEW k \in strays, StrayStep(k)
      PROVE  UNCHANGED uip
  BY <1>5 DEF StrayStep, StrayLookup, StrayClear, redis
<1>6. QED
  BY <1>1, <1>2, <1>3, <1>4, <1>5 DEF Next

\* Whoever is in _sessions was there, or comes in; and as long as he stays,
\* only a login of the same user on his server takes him out of UserMgr.
LEMMA TablesMove ==
  ASSUME SessionBindingAssumption, TypeOK, RequestInv, [Next]_vars,
         NEW s \in members', NEW u \in Users
  PROVE  /\ s \in Sessions /\ Home[s] \in Servers
         /\ s \in members \/ Fresh(s)
         /\ userSession[Home[s]][u] = s =>
              \/ userSession'[Home[s]][u] = s
              \/ SetUserSession(Home[s]) /\ cur[Home[s]].uid = u
<1>t. /\ userSession \in [Servers -> [Uids -> Sessions \cup {Nil}]]
      /\ members \subseteq Sessions /\ entering \subseteq Sessions
      /\ Home \in [Sessions -> Servers] /\ u \in Uids
  BY DEF TypeOK, SessionBindingAssumption, Uids
<1>1. CASE UNCHANGED <<members, userSession>>
  BY <1>t, <1>1
<1>2. ASSUME NEW r \in Sessions, Insert(r)
      PROVE  /\ s \in Sessions /\ (s \in members \/ Fresh(s))
             /\ UNCHANGED userSession
  BY <1>t, <1>2 DEF Insert, Fresh
<1>3. ASSUME NEW r \in Sessions, ClearSession(r)
      PROVE  /\ s \in Sessions /\ s \in members
             /\ userSession[Home[s]][u] = s => userSession'[Home[s]][u] = s
  BY <1>t, <1>3, ClearOnly
<1>4. ASSUME NEW a \in Servers, SetUserSession(a)
      PROVE  /\ UNCHANGED members
             /\ \A b \in Servers, v \in Uids : b # a \/ v # cur[a].uid =>
                  userSession'[b][v] = userSession[b][v]
  BY <1>t, <1>4 DEF SetUserSession
<1>5. ASSUME NEW a \in Servers, Crash(a)
      PROVE  /\ s \in Sessions /\ s \in members
             /\ userSession'[Home[s]] = userSession[Home[s]]
  <2>1. s \in members
    BY <1>5 DEF Crash
  <2>2. sock[s] # "new"
    BY <2>1 DEF RequestInv, Fresh
  <2>3. Home[s] # a
    BY <1>t, <1>5, <2>1, <2>2 DEF Crash
  <2>4. QED
    BY <1>t, <1>5, <2>1, <2>3 DEF Crash
<1>6. ASSUME NEW r \in Sessions, SessionStep(r) \/ StartTimerCleanup(r)
      PROVE  UNCHANGED <<members, userSession>> \/ Insert(r) \/ ClearSession(r)
  BY <1>6 DEF SessionStep, Accept, ReadMessage, PostMsgToQue, RejectMessage,
     BadHeader, ReadError, WriteDone, WriteError, StartTimerCleanup, tables
<1>7. ASSUME NEW a \in Servers, LogicStep(a)
      PROVE  \/ UNCHANGED <<members, userSession>>
             \/ lold[a] \in Sessions /\ ClearSession(lold[a])
             \/ SetUserSession(a)
  BY <1>7 DEF LogicStep, RefuseLogin, StartLogin, LoginAcquire, LoginTimeout,
     ReadIp, LookupOld, KickFails, ClearOld, SetUserId, SetIp, SetSessionKey,
     LoginRelease, LoginReply, tables, TypeOK
<1>8. ASSUME NEW h \in Cleaners, CleanStep(h)
      PROVE  \/ UNCHANGED <<members, userSession>>
             \/ h[2] \in Sessions /\ ClearSession(h[2])
  BY <1>8 DEF CleanStep, CleanAcquire, CleanTimeout, CheckSession, DelSession,
     DelIp, CleanClear, CleanRelease, tables, Cleaners
<1>9. CASE \/ \E a \in Servers : \E E \in SUBSET SessionsOf(a) : OnTimer(a, E)
           \/ \E v \in Uids : LockExpire(v)
           \/ UNCHANGED vars
  BY <1>1, <1>9 DEF OnTimer, LockExpire, vars, tables
<1>10. ASSUME NEW a \in Servers, SetUserSession(a)
       PROVE  /\ s \in Sessions /\ s \in members
              /\ userSession[Home[s]][u] = s =>
                   \/ userSession'[Home[s]][u] = s
                   \/ SetUserSession(Home[s]) /\ cur[Home[s]].uid = u
  <2>1. s \in Sessions /\ s \in members
    BY <1>t, <1>4, <1>10
  <2>2. CASE Home[s] # a \/ u # cur[a].uid
    BY <1>t, <1>4, <1>10, <2>1, <2>2
  <2>3. CASE Home[s] = a /\ u = cur[a].uid
    BY <1>10, <2>1, <2>3
  <2>4. QED
    BY <2>1, <2>2, <2>3
<1>11. ASSUME NEW k \in strays, StrayStep(k)
       PROVE  \/ UNCHANGED <<members, userSession>>
              \/ \E r \in Sessions : ClearSession(r)
  BY <1>11, StrayFrame DEF tables
<1>12. QED
  BY <1>t, <1>1, <1>2, <1>3, <1>5, <1>6, <1>7, <1>8, <1>9, <1>10, <1>11 DEF Next

LEMMA InitServed ==
  SessionBindingAssumption /\ Init => FreshOwnsNot /\ KeysWritten /\ ServedInv
BY DEF Init, FreshOwnsNot, KeysWritten, ServedInv, SessionBindingAssumption

\* KeysWritten is inductive: the lock of the user keeps clean-ups and other
\* logins from uip, and a server's logic thread alone writes its UserMgr.
LEMMA NextKeysWritten ==
  ASSUME SessionBindingAssumption, TypeOK, CleanupInv, RequestInv, KeysWritten,
         [Next]_vars
  PROVE  KeysWritten'
<1>t. /\ uip \in [Uids -> Servers \cup {Nil}]
      /\ userSession \in [Servers -> [Uids -> Sessions \cup {Nil}]]
      /\ euid \in [Cleaners -> Uids]
  BY DEF TypeOK
<1> SUFFICES ASSUME NEW a \in Servers,
                    lpc'[a] \in {"setMgr", "setKey", "release"}
             PROVE  /\ uip'[cur'[a].uid] = a
                    /\ lpc'[a] \in {"setKey", "release"} /\ cur'[a].sess \in members'
                         => userSession'[a][cur'[a].uid] = cur'[a].sess
  BY DEF KeysWritten
<1> DEFINE u == cur[a].uid
           s == cur[a].sess
<1>1. cur'[a] = cur[a]
  BY LoginMoves
<1>2. lpc[a] \in LoginCS
  BY LoginMoves DEF LoginCS, SetIp, SetUserSession, SetSessionKey
<1>3. /\ cur[a] # Nil /\ u \in Users /\ u \in Uids /\ s \in Sessions
      /\ Home[s] = a /\ ~Fresh(s)
  <2>1. cur[a] # Nil
    BY <1>2 DEF LoginCS, TypeOK, SessionBindingAssumption
  <2>2. QED
    BY <2>1, RequestSessions DEF RequestInv, Uids
<1>4. CASE SetIp(a)
  BY <1>t, <1>1, <1>3, <1>4 DEF SetIp, TypeOK
<1>5. CASE ~SetIp(a)
  <2>1. lpc[a] \in {"setMgr", "setKey", "release"} /\ uip[u] = a
    BY <1>5, LoginMoves DEF SetUserSession, SetSessionKey, KeysWritten
  <2>2. uip'[u] = uip[u]
    <3>1. ASSUME NEW h \in Cleaners, DelIp(h)
          PROVE  uip'[u] = uip[u]
      BY <1>t, <1>2, <1>3, <3>1, OneHolder DEF DelIp
    <3>2. ASSUME NEW b \in Servers, SetIp(b)
          PROVE  uip'[u] = uip[u]
      <4>1. cur[b].uid # u
        BY <1>2, <1>5, <3>2, OneHolder DEF SetIp, LoginCS
      <4>2. QED
        BY <1>t, <1>3, <3>2, <4>1 DEF SetIp
    <3>3. QED
      BY <3>1, <3>2, IpWrites
  <2>3. ASSUME lpc'[a] \in {"setKey", "release"}, s \in members'
        PROVE  userSession'[a][u] = s
    <3>1. CASE SetUserSession(a)
      BY <1>t, <1>3, <3>1 DEF SetUserSession
    <3>2. CASE ~SetUserSession(a)
      <4>1. lpc[a] \in {"setKey", "release"} /\ s \in members
        BY <1>3, <1>5, <2>3, <3>2, LoginMoves, TablesMove DEF SetSessionKey
      <4>2. userSession[a][u] = s
        BY <4>1 DEF KeysWritten
      <4>3. QED
        BY <1>3, <2>3, <3>2, <4>2, TablesMove
    <3>3. QED
      BY <3>1, <3>2
  <2>4. QED
    BY <1>1, <2>1, <2>2, <2>3
<1>6. QED
  BY <1>4, <1>5

\* ServedInv is inductive, given the others.
LEMMA NextServed ==
  ASSUME SessionBindingAssumption, TypeOK, CleanupInv, RequestInv, FreshOwnsNot,
         KeysWritten, ServedInv, [Next]_vars
  PROVE  ServedInv'
<1>t. /\ usession \in [Uids -> Sessions \cup {Nil}] /\ Nil \notin Sessions
      /\ lpc \in [Servers -> LogicPcs] /\ euid \in [Cleaners -> Uids]
  BY DEF TypeOK, SessionBindingAssumption
<1> SUFFICES ASSUME NEW u \in Users, NEW s \in members', usession'[u] = s
             PROVE  Served(s, u)'
  BY DEF ServedInv
<1>1. s \in Sessions /\ Home[s] \in Servers /\ u \in Uids
  BY TablesMove DEF Uids
<1> DEFINE a == Home[s]
<1>2. ASSUME NEW b \in Servers, SetSessionKey(b), cur[b].uid = u
      PROVE  Served(s, u)'
  <2>1. /\ lpc[b] = "setKey" /\ s = cur[b].sess
        /\ UNCHANGED <<members, userSession>>
    BY <1>t, <1>1, <1>2 DEF SetSessionKey, tables
  <2>2. Home[s] = b
    BY <1>t, <2>1 DEF RequestInv, TypeOK, SessionBindingAssumption
  <2>3. userSession[b][u] = s
    BY <1>2, <2>1 DEF KeysWritten
  <2>4. QED
    BY <2>1, <2>2, <2>3 DEF Served
<1>3. ASSUME usession[u] = s, \A b \in Servers : SetSessionKey(b) => cur[b].uid # u
      PROVE  Served(s, u)'
  <2>1. s \in members
    BY <1>1, <1>3, TablesMove DEF FreshOwnsNot
  <2>2. Served(s, u)
    BY <1>3, <2>1 DEF ServedInv
  <2>3. CASE userSession[a][u] = s
    <3>1. CASE userSession'[a][u] = s
      BY <3>1 DEF Served
    <3>2. CASE SetUserSession(a) /\ cur[a].uid = u
      BY <1>t, <1>1, <3>2 DEF SetUserSession, Served
    <3>3. QED
      BY <2>3, <3>1, <3>2, TablesMove
  <2>4. CASE lpc[a] = "setKey" /\ cur[a].uid = u
    <3>1. ~Crash(a)
      <4>1. sock[s] # "new"
        BY <2>1 DEF RequestInv, Fresh
      <4>2. QED
        BY <1>1, <4>1 DEF Crash
    <3>2. lpc'[a] = "setKey" /\ cur'[a] = cur[a]
      BY <1>1, <1>3, <2>4, <3>1, LoginMoves
    <3>3. QED
      BY <2>4, <3>2 DEF Served
  <2>5. QED
    BY <2>2, <2>3, <2>4 DEF Served
<1>4. ASSUME NEW h \in Cleaners, DelSession(h)
      PROVE  usession[u] = s
  BY <1>t, <1>1, <1>4 DEF DelSession
<1>5. ASSUME NEW b \in Servers, SetSessionKey(b), cur[b].uid # u
      PROVE  usession[u] = s
  BY <1>t, <1>1, <1>5 DEF SetSessionKey
<1>6. QED
  <2>1. CASE \E b \in Servers : SetSessionKey(b) /\ cur[b].uid = u
    BY <1>2, <2>1
  <2>2. CASE ~\E b \in Servers : SetSessionKey(b) /\ cur[b].uid = u
    <3>1. usession[u] = s
      BY <1>4, <1>5, <2>2, SessionKeyWrites
    <3>2. QED
      BY <1>3, <2>2, <3>1
  <2>3. QED
    BY <2>1, <2>2

\* Whenever a user's lock is free and usession names a session that its server
\* still serves, that server's UserMgr leads to this session: also when kicks
\* fail, and whatever becomes of the sessions they have not reached.
OwnerServed ==
  \A u \in Users : \A s \in members :
    lock[u] = Nil /\ usession[u] = s => userSession[Home[s]][u] = s

THEOREM OwnerServedHolds ==
  ASSUME SessionBindingAssumption, Exclusive
  PROVE  Spec => []OwnerServed
<1>1. Init => RequestInv /\ FreshOwnsNot /\ KeysWritten /\ ServedInv
  BY InitRequest, InitServed
<1>2. TypeOK /\ CleanupInv /\ RequestInv /\ FreshOwnsNot /\ KeysWritten
        /\ ServedInv /\ [Next]_vars
          => (RequestInv /\ FreshOwnsNot /\ KeysWritten /\ ServedInv)'
  BY NextRequest, NextFreshOwnsNot, NextKeysWritten, NextServed
<1>3. TypeOK /\ CleanupInv /\ ServedInv => OwnerServed
  <2>1. SUFFICES ASSUME TypeOK, CleanupInv, ServedInv, NEW u \in Users,
                        NEW s \in members, lock[u] = Nil, usession[u] = s
                 PROVE  userSession[Home[s]][u] = s
    BY DEF OwnerServed
  <2>2. Home[s] \in Servers
    BY <2>1 DEF TypeOK, SessionBindingAssumption
  <2>3. ~(lpc[Home[s]] = "setKey" /\ cur[Home[s]].uid = u)
    BY <2>1, <2>2, ThreadsDiffer DEF CleanupInv, LoginHoldsLock, LoginCS
  <2>4. QED
    BY <2>1, <2>3 DEF ServedInv, Served
<1>4. Spec => []TypeOK /\ []CleanupInv
  BY TypeCorrect, CleanupInvHolds
<1>5. QED
  BY <1>1, <1>2, <1>3, <1>4, PTL DEF Spec
=============================================================================
