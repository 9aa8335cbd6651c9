--------------------------- MODULE SessionBinding ---------------------------
(***************************************************************************)
(* How the chat servers bind a user to one TCP session.                    *)
(*                                                                         *)
(* A login writes four places: CSession::_user_uid, the Redis keys         *)
(* uip_<uid> and usession_<uid>, and UserMgr::_uid_to_session.  A broken   *)
(* connection, a missed heartbeat or a login elsewhere takes them back.    *)
(* The writers are the logic thread of every server (LoginHandler), the io *)
(* thread of every session and the timer of every server (both run         *)
(* DealExceptionSession), and the gRPC threads (NotifyKickUser).  What     *)
(* orders them is the Redis lock lock_<uid>.                               *)
(*                                                                         *)
(* One action is one stretch of code between two calls other threads can   *)
(* observe: a Redis command, a section under CServer::_mutex or            *)
(* UserMgr::_session_mtx, or a write of a field another thread reads.      *)
(***************************************************************************)
EXTENDS Naturals, Sequences

CONSTANTS
  Servers,          \* the chat server processes
  Sessions,         \* every CSession (a random UUID each) made in a behaviour
  Users,            \* uids that can log in
  NoUser,           \* uid 0, the _user_uid of a session nobody logged in on
  Nil,              \* "no value": a missing Redis key or map entry
  Orphan,           \* a lock identifier whose process died
  Home,             \* the server that accepts each session
  Wants,            \* the uids the client of each session asks to log in as
  Faults,           \* bound: what may go wrong with each session's connection
  MaxRequests,      \* bound: login requests per session
  MaxCrashes,       \* bound: server crashes in a behaviour
  LoginMayTimeOut,  \* may LoginHandler's acquireLock give up after 5 s?
  LockMayExpire,    \* may the 10 s TTL run out while the holder is alive?
  RpcMayFail        \* may NotifyKickUser fail against a running server?

Uids == Users \cup {NoUser}
LogicThreads == {"logic"} \X Servers
Cleaners == {"io", "timer"} \X Sessions
Threads == LogicThreads \cup Cleaners
Logic(a) == <<"logic", a>>
IoOf(s) == <<"io", s>>
TimerOf(s) == <<"timer", s>>
Request == [sess : Sessions, uid : Users]
Stray == [n : 1 .. MaxCrashes, at : Servers, uid : Users,
          old : Sessions \cup {Nil}]

ASSUME SessionBindingAssumption ==
  /\ NoUser \notin Users
  /\ Nil \notin Servers \cup Sessions \cup Threads \cup Request
  /\ Orphan \notin Threads \cup {Nil}
  /\ Home \in [Sessions -> Servers]
  /\ Wants \in [Sessions -> SUBSET Users]
  /\ Faults \in [Sessions -> SUBSET {"gone", "silent", "badHeader"}]
  /\ MaxRequests \in Nat /\ MaxCrashes \in Nat
  /\ {LoginMayTimeOut, LockMayExpire, RpcMayFail} \subseteq BOOLEAN

VARIABLES
  uip,          \* Redis uip_<uid>: name of the server the user is on
  usession,     \* Redis usession_<uid>: id of the session the user is on
  lock,         \* Redis lock_<uid>: the thread whose identifier it holds
  members,      \* union of the servers' CServer::_sessions
  userSession,  \* UserMgr::_uid_to_session of every server
  queue,        \* LogicSystem::_msg_que of every server
  cur,          \* the request a server's logic thread is handling
  lpc,          \* where LoginHandler is, per server
  lip,          \* its uid_ip_value
  lold,         \* its (or the kicked server's) old session
  userUid,      \* CSession::_user_uid
  sock,         \* CSession::_socket
  rd,           \* the read chain: reading, posting a message, or ended
  pend,         \* uid of the login message being posted, else NoUser
  wr,           \* the write chain: idle, busy, or dead after an error
  sent,         \* login messages received per session (bound)
  entering,     \* sessions between Start() and _sessions.insert
  epc,          \* where each run of DealExceptionSession is
  euid,         \* the uid it read when it started
  crashes,      \* crashes so far (bound)
  strays        \* kicks under way for a caller that died: the server they run
                \* on, the user, and the session found, if that far

redis == <<uip, usession, lock>>
tables == <<members, userSession>>
logic == <<cur, lpc, lip, lold>>
reader == <<rd, pend, sent>>
cleanup == <<epc, euid>>
deaths == <<crashes, strays>>
vars == <<redis, tables, queue, logic, userUid, sock, reader, wr, entering,
          cleanup, deaths>>

LogicPcs == {"idle", "acquire", "readIp", "lookup", "clearOld", "setUid",
             "setIp", "setMgr", "setKey", "release", "reply"}
CleanPcs == {"idle", "pending", "acquire", "check", "delSession", "delIp",
             "clear", "release"}
-----------------------------------------------------------------------------
(* Helpers.                                                                *)

\* Members of server a, that is, its _sessions.
SessionsOf(a) == {s \in members : Home[s] = a}

\* The main thread of a runs accept handlers and on_timer, one at a time.
MainIdle(a) ==
  /\ \A s \in entering : Home[s] # a
  /\ \A s \in Sessions : Home[s] = a => epc[TimerOf(s)] = "idle"

\* The io thread of s runs one completion handler at a time.
IoIdle(s) == epc[IoOf(s)] = "idle" /\ rd[s] # "posting"

\* Reads and writes of s may fail: the peer is gone or the socket was closed.
IoFails(s) == sock[s] = "closed" \/ (sock[s] = "open" /\ "gone" \in Faults[s])

\* SET lock_<uid> identifier NX EX 10, when it succeeds.
AcquireLock(t, u) == lock[u] = Nil /\ lock' = [lock EXCEPT ![u] = t]

\* Mutant: DEL without comparing the identifier.
ReleaseLock_NoCompare(t, u) == lock' = [lock EXCEPT ![u] = Nil]

\* The compare-and-delete script: only the holder's identifier matches.
ReleaseLock(t, u) ==
  lock' = [lock EXCEPT ![u] = IF @ = t THEN Nil ELSE @]

\* Queue a message; async_write starts only on an empty queue.
Send(s) == wr' = [wr EXCEPT ![s] = IF @ = "idle" THEN "busy" ELSE @]

\* Drop s from _sessions and, when it was there, from UserMgr if UserMgr still
\* maps the session's current uid to this very session.
ClearSession(s) ==
  LET a == Home[s]
      u == userUid[s]
  IN /\ members' = members \ {s}
     /\ userSession' =
          IF s \in members /\ userSession[a][u] = s
          THEN [userSession EXCEPT ![a][u] = Nil]
          ELSE userSession

\* Close() and the first line of DealExceptionSession: read _user_uid.
StartIoCleanup(s) ==
  /\ sock' = [sock EXCEPT ![s] = "closed"]
  /\ epc' = [epc EXCEPT ![IoOf(s)] = "acquire"]
  /\ euid' = [euid EXCEPT ![IoOf(s)] = userUid[s]]
-----------------------------------------------------------------------------
Init ==
  /\ uip = [u \in Uids |-> Nil]
  /\ usession = [u \in Uids |-> Nil]
  /\ lock = [u \in Uids |-> Nil]
  /\ members = {}
  /\ userSession = [a \in Servers |-> [u \in Uids |-> Nil]]
  /\ queue = [a \in Servers |-> <<>>]
  /\ cur = [a \in Servers |-> Nil]
  /\ lpc = [a \in Servers |-> "idle"]
  /\ lip = [a \in Servers |-> Nil]
  /\ lold = [a \in Servers |-> Nil]
  /\ userUid = [s \in Sessions |-> NoUser]
  /\ sock = [s \in Sessions |-> "new"]
  /\ rd = [s \in Sessions |-> "ended"]
  /\ pend = [s \in Sessions |-> NoUser]
  /\ wr = [s \in Sessions |-> "idle"]
  /\ sent = [s \in Sessions |-> 0]
  /\ entering = {}
  /\ epc = [h \in Cleaners |-> "idle"]
  /\ euid = [h \in Cleaners |-> NoUser]
  /\ crashes = 0 /\ strays = {}
-----------------------------------------------------------------------------
(* Accepting, reading and writing (CServer::HandleAccept, CSession).       *)

\* HandleAccept starts the read chain first ...
Accept(s) ==
  /\ sock[s] = "new" /\ MainIdle(Home[s])
  /\ sock' = [sock EXCEPT ![s] = "open"]
  /\ rd' = [rd EXCEPT ![s] = "reading"]
  /\ entering' = entering \cup {s}
  /\ UNCHANGED <<redis, tables, queue, logic, userUid, pend, sent, wr, cleanup,
                 deaths>>

\* ... and enters the session into _sessions afterwards.
Insert(s) ==
  /\ s \in entering
  /\ members' = members \cup {s}
  /\ entering' = entering \ {s}
  /\ UNCHANGED <<redis, userSession, queue, logic, userUid, sock, reader, wr,
                 cleanup, deaths>>

\* A whole login message arrived and CheckValid found the session.
ReadMessage(s, u) ==
  /\ rd[s] = "reading" /\ sock[s] = "open" /\ IoIdle(s)
  /\ s \in members /\ u \in Wants[s] /\ sent[s] < MaxRequests
  /\ rd' = [rd EXCEPT ![s] = "posting"]
  /\ pend' = [pend EXCEPT ![s] = u]
  /\ sent' = [sent EXCEPT ![s] = @ + 1]
  /\ UNCHANGED <<redis, tables, queue, logic, userUid, sock, wr, entering,
                 cleanup, deaths>>

\* PostMsgToQue: the logic thread holds the queue's mutex while it runs a
\* callback, so the post waits until it is between two messages.
PostMsgToQue(s) ==
  LET a == Home[s]
  IN /\ rd[s] = "posting" /\ lpc[a] = "idle"
     /\ queue' = [queue EXCEPT ![a] = Append(@, [sess |-> s, uid |-> pend[s]])]
     /\ rd' = [rd EXCEPT ![s] = "reading"]
     /\ pend' = [pend EXCEPT ![s] = NoUser]
     /\ UNCHANGED <<redis, tables, logic, userUid, sock, sent, wr, entering,
                    cleanup, deaths>>

\* A message arrived and CheckValid did not find the session: Close, no more.
RejectMessage(s) ==
  /\ rd[s] = "reading" /\ sock[s] = "open" /\ IoIdle(s) /\ s \notin members
  /\ sock' = [sock EXCEPT ![s] = "closed"]
  /\ rd' = [rd EXCEPT ![s] = "ended"]
  /\ UNCHANGED <<redis, tables, queue, logic, userUid, pend, sent, wr, entering,
                 cleanup, deaths>>

\* A header with an id or a length out of range: ClearSession, stop reading.
BadHeader(s) ==
  /\ "badHeader" \in Faults[s]
  /\ rd[s] = "reading" /\ sock[s] = "open" /\ IoIdle(s) /\ s \in members
  /\ ClearSession(s)
  /\ rd' = [rd EXCEPT ![s] = "ended"]
  /\ UNCHANGED <<redis, queue, logic, userUid, sock, pend, sent, wr, entering,
                 cleanup, deaths>>

\* The read fails: the peer went away, or Close() aborted the read.
ReadError(s) ==
  /\ rd[s] = "reading" /\ IoIdle(s) /\ IoFails(s)
  /\ StartIoCleanup(s)
  /\ rd' = [rd EXCEPT ![s] = "ended"]
  /\ UNCHANGED <<redis, tables, queue, logic, userUid, pend, sent, wr, entering,
                 deaths>>

\* HandleWrite without error, the last queued message gone.
WriteDone(s) ==
  /\ wr[s] = "busy" /\ sock[s] = "open" /\ IoIdle(s)
  /\ wr' = [wr EXCEPT ![s] = "idle"]
  /\ UNCHANGED <<redis, tables, queue, logic, userUid, sock, reader, entering,
                 cleanup, deaths>>

\* HandleWrite with an error: the queue keeps its head, so no write follows.
WriteError(s) ==
  /\ wr[s] = "busy" /\ IoIdle(s) /\ IoFails(s)
  /\ wr' = [wr EXCEPT ![s] = "dead"]
  /\ StartIoCleanup(s)
  /\ UNCHANGED <<redis, tables, queue, logic, userUid, reader, entering,
                 deaths>>
-----------------------------------------------------------------------------
(* The logic thread (LogicSystem::DealMsg and LoginHandler).               *)

\* DealMsg takes the oldest message; its mutex stays locked during the
\* callback, so popping here or after the callback makes no difference.
Take(a) ==
  /\ lpc[a] = "idle" /\ queue[a] # <<>>
  /\ queue' = [queue EXCEPT ![a] = Tail(@)]
  /\ cur' = [cur EXCEPT ![a] = Head(queue[a])]

\* The token is wrong or the profile is missing: answer and return.
RefuseLogin(a) ==
  /\ lpc[a] = "idle" /\ queue[a] # <<>>
  /\ queue' = [queue EXCEPT ![a] = Tail(@)]
  /\ Send(Head(queue[a]).sess)
  /\ UNCHANGED <<redis, tables, logic, userUid, sock, reader, entering,
                 cleanup, deaths>>

\* The token matches: go for the user's lock.
StartLogin(a) ==
  /\ Take(a)
  /\ lpc' = [lpc EXCEPT ![a] = "acquire"]
  /\ UNCHANGED <<redis, tables, lip, lold, userUid, sock, reader, wr, entering,
                 cleanup, deaths>>

LoginAcquire(a) ==
  /\ lpc[a] = "acquire"
  /\ AcquireLock(Logic(a), cur[a].uid)
  /\ lpc' = [lpc EXCEPT ![a] = "readIp"]
  /\ UNCHANGED <<uip, usession, tables, queue, cur, lip, lold,
                 userUid, sock, reader, wr, entering, cleanup, deaths>>

\* acquireLock gives up and returns "", which LoginHandler does not look at.
LoginTimeout(a) ==
  /\ LoginMayTimeOut /\ lpc[a] = "acquire" /\ lock[cur[a].uid] # Nil
  /\ lpc' = [lpc EXCEPT ![a] = "readIp"]
  /\ UNCHANGED <<redis, tables, queue, cur, lip, lold, userUid, sock, reader,
                 wr, entering, cleanup, deaths>>

\* Mutant: the result of Get is not looked at.
ReadIp_AlwaysLookup(a) ==
  /\ lpc[a] = "readIp"
  /\ lip' = [lip EXCEPT ![a] = uip[cur[a].uid]]
  /\ lpc' = [lpc EXCEPT ![a] = "lookup"]
  /\ UNCHANGED <<redis, tables, queue, cur, lold, userUid, sock, reader, wr,
                 entering, cleanup, deaths>>

ReadIp(a) ==
  LET ip == uip[cur[a].uid]
  IN /\ lpc[a] = "readIp"
     /\ lip' = [lip EXCEPT ![a] = ip]
     /\ lpc' = [lpc EXCEPT ![a] = IF ip = Nil THEN "setUid" ELSE "lookup"]
     /\ UNCHANGED <<redis, tables, queue, cur, lold, userUid, sock, reader, wr,
                    entering, cleanup, deaths>>

\* Mutant: a login found on the same server is taken for a restart and ignored.
LookupOld_IgnoreLocal(a) ==
  LET old == IF lip[a] = a THEN Nil ELSE userSession[lip[a]][cur[a].uid]
  IN /\ lpc[a] = "lookup"
     /\ lold' = [lold EXCEPT ![a] = old]
     /\ IF old = Nil
        THEN /\ lpc' = [lpc EXCEPT ![a] = "setUid"]
             /\ UNCHANGED wr
        ELSE /\ lpc' = [lpc EXCEPT ![a] = "clearOld"]
             /\ Send(old)
     /\ UNCHANGED <<redis, tables, queue, cur, lip, userUid, sock, reader,
                    entering, cleanup, deaths>>

\* UserMgr::GetSession and NotifyOffline, here or in NotifyKickUser on the
\* server the user was on.
LookupOld(a) ==
  LET old == userSession[lip[a]][cur[a].uid]
  IN /\ lpc[a] = "lookup"
     /\ lold' = [lold EXCEPT ![a] = old]
     /\ IF old = Nil
        THEN /\ lpc' = [lpc EXCEPT ![a] = "setUid"]
             /\ UNCHANGED wr
        ELSE /\ lpc' = [lpc EXCEPT ![a] = "clearOld"]
             /\ Send(old)
     /\ UNCHANGED <<redis, tables, queue, cur, lip, userUid, sock, reader,
                    entering, cleanup, deaths>>

\* The RPC fails; its result is not looked at.
KickFails(a) ==
  /\ RpcMayFail /\ lpc[a] = "lookup" /\ lip[a] # a
  /\ lpc' = [lpc EXCEPT ![a] = "setUid"]
  /\ UNCHANGED <<redis, tables, queue, cur, lip, lold, userUid, sock, reader,
                 wr, entering, cleanup, deaths>>

\* Mutant: the kick only notifies the old session.
ClearOld_NotifyOnly(a) ==
  /\ lpc[a] = "clearOld"
  /\ lold' = [lold EXCEPT ![a] = Nil]
  /\ lpc' = [lpc EXCEPT ![a] = "setUid"]
  /\ UNCHANGED <<redis, tables, queue, cur, lip, userUid, sock, reader, wr,
                 entering, cleanup, deaths>>

\* Mutant: the kick takes the user's lock, which its own thread holds.
ClearOld_LockAgain(a) ==
  /\ lpc[a] = "clearOld" /\ lock[cur[a].uid] = Nil
  /\ ClearSession(lold[a])
  /\ lold' = [lold EXCEPT ![a] = Nil]
  /\ lpc' = [lpc EXCEPT ![a] = "setUid"]
  /\ UNCHANGED <<redis, queue, cur, lip, userUid, sock, reader, wr, entering,
                 cleanup, deaths>>

ClearOld(a) ==
  /\ lpc[a] = "clearOld"
  /\ ClearSession(lold[a])
  /\ lold' = [lold EXCEPT ![a] = Nil]
  /\ lpc' = [lpc EXCEPT ![a] = "setUid"]
  /\ UNCHANGED <<redis, queue, cur, lip, userUid, sock, reader, wr, entering,
                 cleanup, deaths>>

SetUserId(a) ==
  /\ lpc[a] = "setUid"
  /\ userUid' = [userUid EXCEPT ![cur[a].sess] = cur[a].uid]
  /\ lip' = [lip EXCEPT ![a] = Nil]
  /\ lpc' = [lpc EXCEPT ![a] = "setIp"]
  /\ UNCHANGED <<redis, tables, queue, cur, lold, sock, reader, wr, entering,
                 cleanup, deaths>>

\* Mutant: uip is not written.
SetIp_Missing(a) ==
  /\ lpc[a] = "setIp"
  /\ lpc' = [lpc EXCEPT ![a] = "setMgr"]
  /\ UNCHANGED <<redis, tables, queue, cur, lip, lold, userUid, sock, reader,
                 wr, entering, cleanup, deaths>>

SetIp(a) ==
  /\ lpc[a] = "setIp"
  /\ uip' = [uip EXCEPT ![cur[a].uid] = a]
  /\ lpc' = [lpc EXCEPT ![a] = "setMgr"]
  /\ UNCHANGED <<usession, lock, tables, queue, cur, lip, lold,
                 userUid, sock, reader, wr, entering, cleanup, deaths>>

SetUserSession(a) ==
  /\ lpc[a] = "setMgr"
  /\ userSession' = [userSession EXCEPT ![a][cur[a].uid] = cur[a].sess]
  /\ lpc' = [lpc EXCEPT ![a] = "setKey"]
  /\ UNCHANGED <<redis, members, queue, cur, lip, lold, userUid, sock, reader,
                 wr, entering, cleanup, deaths>>

SetSessionKey(a) ==
  /\ lpc[a] = "setKey"
  /\ usession' = [usession EXCEPT ![cur[a].uid] = cur[a].sess]
  /\ lpc' = [lpc EXCEPT ![a] = "release"]
  /\ UNCHANGED <<uip, lock, tables, queue, cur, lip, lold, userUid,
                 sock, reader, wr, entering, cleanup, deaths>>

\* defer2 releases the lock ...
LoginRelease(a) ==
  /\ lpc[a] = "release"
  /\ ReleaseLock(Logic(a), cur[a].uid)
  /\ lpc' = [lpc EXCEPT ![a] = "reply"]
  /\ UNCHANGED <<uip, usession, tables, queue, cur, lip, lold,
                 userUid, sock, reader, wr, entering, cleanup, deaths>>

\* ... and the outer defer sends the answer, after which the callback is over.
LoginReply(a) ==
  /\ lpc[a] = "reply"
  /\ Send(cur[a].sess)
  /\ cur' = [cur EXCEPT ![a] = Nil]
  /\ lpc' = [lpc EXCEPT ![a] = "idle"]
  /\ UNCHANGED <<redis, tables, queue, lip, lold, userUid, sock, reader,
                 entering, cleanup, deaths>>
-----------------------------------------------------------------------------
(* DealExceptionSession, on the io thread of a session or on the timer.    *)

\* Mutant: only Close(), in the hope that a read error does the rest.
OnTimer_CloseOnly(a, E) ==
  /\ MainIdle(a)
  /\ \A s \in E : sock[s] = "closed" \/ "silent" \in Faults[s]
  /\ sock' = [s \in Sessions |-> IF s \in E THEN "closed" ELSE sock[s]]
  /\ UNCHANGED <<redis, tables, queue, logic, userUid, reader, wr, entering,
                 cleanup, deaths>>

\* on_timer: the sessions E have been silent for more than 20 s.  Close them,
\* then clean them up one by one.  (A round that finds none changes nothing here:
\* the number of the others, which it publishes in LOGIN_COUNT, is read by the
\* status server only, see StatusBalance.)
OnTimer(a, E) ==
  /\ E # {} /\ MainIdle(a)
  /\ \A s \in E : sock[s] = "closed" \/ "silent" \in Faults[s]
  /\ sock' = [s \in Sessions |-> IF s \in E THEN "closed" ELSE sock[s]]
  /\ epc' = [h \in Cleaners |->
               IF h[1] = "timer" /\ h[2] \in E THEN "pending" ELSE epc[h]]
  /\ UNCHANGED <<uip, usession, lock, tables, queue, logic, userUid, reader, wr,
                 entering, euid, deaths>>

\* The timer's loop reaches session s.
StartTimerCleanup(s) ==
  LET h == TimerOf(s)
  IN /\ epc[h] = "pending"
     /\ \A r \in Sessions : Home[r] = Home[s] =>
                              epc[TimerOf(r)] \in {"idle", "pending"}
     /\ epc' = [epc EXCEPT ![h] = "acquire"]
     /\ euid' = [euid EXCEPT ![h] = userUid[s]]
     /\ UNCHANGED <<redis, tables, queue, logic, userUid, sock, reader, wr,
                    entering, deaths>>

CleanAcquire(h) ==
  /\ epc[h] = "acquire"
  /\ AcquireLock(h, euid[h])
  /\ epc' = [epc EXCEPT ![h] = "check"]
  /\ UNCHANGED <<uip, usession, tables, queue, logic, userUid, sock,
                 reader, wr, entering, euid, deaths>>

\* Mutant: an empty identifier is not looked at.
CleanTimeout_GoesOn(h) ==
  /\ epc[h] = "acquire" /\ lock[euid[h]] # Nil
  /\ epc' = [epc EXCEPT ![h] = "check"]
  /\ UNCHANGED <<redis, tables, queue, logic, userUid, sock, reader, wr,
                 entering, euid, deaths>>

\* acquireLock gives up: leave Redis alone, only run the deferred part.
CleanTimeout(h) ==
  /\ epc[h] = "acquire" /\ lock[euid[h]] # Nil
  /\ epc' = [epc EXCEPT ![h] = "clear"]
  /\ UNCHANGED <<redis, tables, queue, logic, userUid, sock, reader, wr,
                 entering, euid, deaths>>

\* Mutant: no comparison of usession with the session's own id.
CheckSession_NoCompare(h) ==
  /\ epc[h] = "check"
  /\ epc' = [epc EXCEPT ![h] = IF usession[euid[h]] # Nil THEN "delSession"
                               ELSE "clear"]
  /\ UNCHANGED <<redis, tables, queue, logic, userUid, sock, reader, wr,
                 entering, euid, deaths>>

\* Does Redis still name this session as the user's?
CheckSession(h) ==
  /\ epc[h] = "check"
  /\ epc' = [epc EXCEPT ![h] = IF usession[euid[h]] = h[2] THEN "delSession"
                               ELSE "clear"]
  /\ UNCHANGED <<redis, tables, queue, logic, userUid, sock, reader, wr,
                 entering, euid, deaths>>

DelSession(h) ==
  /\ epc[h] = "delSession"
  /\ usession' = [usession EXCEPT ![euid[h]] = Nil]
  /\ epc' = [epc EXCEPT ![h] = "delIp"]
  /\ UNCHANGED <<uip, lock, tables, queue, logic, userUid, sock,
                 reader, wr, entering, euid, deaths>>

DelIp(h) ==
  /\ epc[h] = "delIp"
  /\ uip' = [uip EXCEPT ![euid[h]] = Nil]
  /\ epc' = [epc EXCEPT ![h] = "clear"]
  /\ UNCHANGED <<usession, lock, tables, queue, logic, userUid,
                 sock, reader, wr, entering, euid, deaths>>

CleanClear(h) ==
  /\ epc[h] = "clear"
  /\ ClearSession(h[2])
  /\ epc' = [epc EXCEPT ![h] = "release"]
  /\ UNCHANGED <<redis, queue, logic, userUid, sock, reader, wr, entering, euid,
                 deaths>>

\* Mutant: the lock's key is made of the uid the session has by now.
CleanRelease_UidByNow(h) ==
  /\ epc[h] = "release"
  /\ ReleaseLock(h, userUid[h[2]])
  /\ epc' = [epc EXCEPT ![h] = "idle"]
  /\ euid' = [euid EXCEPT ![h] = NoUser]
  /\ UNCHANGED <<uip, usession, tables, queue, logic, userUid, sock,
                 reader, wr, entering, deaths>>

CleanRelease(h) ==
  /\ epc[h] = "release"
  /\ ReleaseLock(h, euid[h])
  /\ epc' = [epc EXCEPT ![h] = "idle"]
  /\ euid' = [euid EXCEPT ![h] = NoUser]
  /\ UNCHANGED <<uip, usession, tables, queue, logic, userUid, sock,
                 reader, wr, entering, deaths>>
-----------------------------------------------------------------------------
(* The lock's time to live, and crashes.                                   *)

\* Mutant: SET ... NX without EX.
LockExpire_NoTtl(u) ==
  /\ lock[u] = Nil
  /\ lock' = [lock EXCEPT ![u] = Nil]
  /\ UNCHANGED <<uip, usession, tables, queue, logic, userUid, sock, reader, wr,
                 entering, cleanup, deaths>>

\* EX 10 runs out: of a dead holder, or of one that is merely slow.
LockExpire(u) ==
  /\ lock[u] = Orphan \/ (LockMayExpire /\ lock[u] # Nil)
  /\ lock' = [lock EXCEPT ![u] = Nil]
  /\ UNCHANGED <<uip, usession, tables, queue, logic, userUid, sock,
                 reader, wr, entering, cleanup, deaths>>

\* Server t belongs to (a logic thread's or a cleaner's).
ServerOf(t) == IF t \in LogicThreads THEN t[2] ELSE Home[t[2]]

\* The kick a server waits for when it runs on another one.
KickAway(a) ==
  IF lpc[a] \in {"lookup", "clearOld"} /\ lip[a] # a
  THEN {[n |-> crashes + 1, at |-> lip[a], uid |-> cur[a].uid,
         old |-> IF lpc[a] = "lookup" THEN Nil ELSE lold[a]]}
  ELSE {}

\* Process a dies and is started again: its memory and sockets are gone, what
\* it wrote to Redis stays.  A kick that was running inside it fails; one that
\* it has called elsewhere goes on there (or never left, if it never moves).
Crash(a) ==
  LET dead == {s \in Sessions : Home[s] = a /\ sock[s] # "new"}
  IN /\ crashes < MaxCrashes
     /\ crashes' = crashes + 1
     /\ strays' = {k \in strays : k.at # a} \cup KickAway(a)
     /\ lock' = [u \in Uids |-> IF lock[u] \in Threads /\ ServerOf(lock[u]) = a
                                THEN Orphan ELSE lock[u]]
     /\ members' = members \ dead
     /\ entering' = entering \ dead
     /\ userSession' = [userSession EXCEPT ![a] = [u \in Uids |-> Nil]]
     /\ queue' = [queue EXCEPT ![a] = <<>>]
     /\ cur' = [cur EXCEPT ![a] = Nil]
     /\ lpc' = [b \in Servers |->
                  IF b = a THEN "idle"
                  ELSE IF lpc[b] = "clearOld" /\ lip[b] = a THEN "setUid"
                  ELSE lpc[b]]
     /\ lold' = [b \in Servers |-> IF b = a \/ lip[b] = a THEN Nil ELSE lold[b]]
     /\ lip' = [lip EXCEPT ![a] = Nil]
     /\ sock' = [s \in Sessions |-> IF s \in dead THEN "closed" ELSE sock[s]]
     /\ rd' = [s \in Sessions |-> IF s \in dead THEN "ended" ELSE rd[s]]
     /\ pend' = [s \in Sessions |-> IF s \in dead THEN NoUser ELSE pend[s]]
     /\ wr' = [s \in Sessions |-> IF s \in dead THEN "dead" ELSE wr[s]]
     /\ userUid' = [s \in Sessions |-> IF s \in dead THEN NoUser ELSE userUid[s]]
     /\ epc' = [h \in Cleaners |-> IF h[2] \in dead THEN "idle" ELSE epc[h]]
     /\ euid' = [h \in Cleaners |-> IF h[2] \in dead THEN NoUser ELSE euid[h]]
     /\ UNCHANGED <<uip, usession, sent>>

\* NotifyKickUser with nobody to come back to, and without the user's lock:
\* GetSession and NotifyOffline ...
StrayLookup(k) ==
  LET old == userSession[k.at][k.uid]
  IN /\ k.old = Nil
     /\ IF old = Nil
        THEN /\ strays' = strays \ {k}
             /\ UNCHANGED wr
        ELSE /\ strays' = (strays \ {k}) \cup {[k EXCEPT !.old = old]}
             /\ Send(old)
     /\ UNCHANGED <<redis, tables, queue, logic, userUid, sock, reader,
                    entering, cleanup, crashes>>

\* ... and ClearSession.
StrayClear(k) ==
  /\ k.old # Nil
  /\ ClearSession(k.old)
  /\ strays' = strays \ {k}
  /\ UNCHANGED <<redis, queue, logic, userUid, sock, reader, wr, entering,
                 cleanup, crashes>>
-----------------------------------------------------------------------------
SessionStep(s) ==
  \/ Accept(s) \/ Insert(s)
  \/ \E u \in Users : ReadMessage(s, u)
  \/ PostMsgToQue(s) \/ RejectMessage(s) \/ BadHeader(s) \/ ReadError(s)
  \/ WriteDone(s) \/ WriteError(s)

LogicStep(a) ==
  \/ RefuseLogin(a) \/ StartLogin(a) \/ LoginAcquire(a) \/ LoginTimeout(a)
  \/ ReadIp(a) \/ LookupOld(a) \/ KickFails(a) \/ ClearOld(a) \/ SetUserId(a)
  \/ SetIp(a) \/ SetUserSession(a) \/ SetSessionKey(a) \/ LoginRelease(a)
  \/ LoginReply(a)

CleanStep(h) ==
  \/ CleanAcquire(h) \/ CleanTimeout(h) \/ CheckSession(h) \/ DelSession(h)
  \/ DelIp(h) \/ CleanClear(h) \/ CleanRelease(h)

StrayStep(k) == StrayLookup(k) \/ StrayClear(k)

Next ==
  \/ \E s \in Sessions : SessionStep(s) \/ StartTimerCleanup(s)
  \/ \E a \in Servers : LogicStep(a) \/ Crash(a)
  \/ \E a \in Servers : \E E \in SUBSET SessionsOf(a) : OnTimer(a, E)
  \/ \E h \in Cleaners : CleanStep(h)
  \/ \E u \in Uids : LockExpire(u)
  \/ \E k \in strays : StrayStep(k)

Spec == Init /\ [][Next]_vars
-----------------------------------------------------------------------------
(* What must hold.                                                         *)

\* What the code takes for granted: the requests of a server come from sessions
\* it accepted itself, and its UserMgr maps only to those.
AtHome ==
  \A a \in Servers :
    /\ \A i \in 1 .. Len(queue[a]) : Home[queue[a][i].sess] = a
    /\ cur[a] # Nil => Home[cur[a].sess] = a
    /\ \A u \in Uids : userSession[a][u] # Nil => Home[userSession[a][u]] = a

\* Types of the variables: a program counter inside LoginHandler has a request,
\* a kick has a server and a session to clear, and a server knows no sessions
\* but its own.
TypeOK ==
  /\ uip \in [Uids -> Servers \cup {Nil}]
  /\ usession \in [Uids -> Sessions \cup {Nil}]
  /\ lock \in [Uids -> Threads \cup {Nil, Orphan}]
  /\ members \subseteq Sessions
  /\ userSession \in [Servers -> [Uids -> Sessions \cup {Nil}]]
  /\ queue \in [Servers -> Seq(Request)]
  /\ cur \in [Servers -> Request \cup {Nil}]
  /\ lpc \in [Servers -> LogicPcs]
  /\ \A a \in Servers : lpc[a] # "idle" => cur[a] \in Request
  /\ lip \in [Servers -> Servers \cup {Nil}]
  /\ \A a \in Servers :
       lpc[a] \in {"lookup", "clearOld"} => lip[a] \in Servers
  /\ lold \in [Servers -> Sessions \cup {Nil}]
  /\ \A a \in Servers : lpc[a] = "clearOld" => lold[a] \in Sessions
  /\ userUid \in [Sessions -> Uids]
  /\ sock \in [Sessions -> {"new", "open", "closed"}]
  /\ rd \in [Sessions -> {"reading", "posting", "ended"}]
  /\ pend \in [Sessions -> Uids]
  /\ \A s \in Sessions : rd[s] = "posting" => pend[s] \in Users
  /\ wr \in [Sessions -> {"idle", "busy", "dead"}]
  /\ sent \in [Sessions -> 0 .. MaxRequests]
  /\ entering \subseteq Sessions
  /\ epc \in [Cleaners -> CleanPcs]
  /\ euid \in [Cleaners -> Uids]
  /\ crashes \in 0 .. MaxCrashes
  /\ strays \subseteq Stray
  /\ AtHome

\* The sessions that a server would still serve as user u's.
Live(u) == {s \in members : userUid[s] = u}

\* A user has one live login in the cluster: a login elsewhere kicks the old
\* one before the lock of the user is free again.
SingleLogin ==
  \A u \in Users : lock[u] = Nil => \A r, s \in Live(u) : r = s

\* Where the user's lock is free, the three lookups that deliver a message
\* (uip on any server, UserMgr on that server, usession) name the live login.
RouteConsistent ==
  \A u \in Users : \A s \in Live(u) :
    lock[u] = Nil => /\ uip[u] = Home[s]
                     /\ usession[u] = s
                     /\ userSession[Home[s]][u] = s

\* UserMgr maps no user to a session that has left _sessions: ClearSession is
\* said to remove the session together with the user's association to it.
Settled == /\ \A a \in Servers : lpc[a] = "idle"
           /\ \A h \in Cleaners : epc[h] = "idle"
           /\ \A s \in Sessions : wr[s] = "busy" => ~IoFails(s)
NoDeadBinding ==
  Settled => \A a \in Servers, u \in Users :
               userSession[a][u] # Nil => userSession[a][u] \in members

\* A session key is deleted only after the session it names was closed: the
\* clean-up of an old connection never logs out a newer one.
NeverSteal ==
  [][\A u \in Uids : usession[u] # Nil /\ usession'[u] = Nil =>
                       sock[usession[u]] = "closed"]_vars

\* Why NeverSteal holds while a lock outlives its critical section and
\* LoginHandler gets it before going on: between its acquire and its release
\* every thread owns the user's lock, a clean-up only concerns a session that
\* was closed, and a clean-up about to delete usession still finds itself there.
LoginCS == {"readIp", "lookup", "clearOld", "setUid", "setIp", "setMgr",
            "setKey", "release"}
LoginHoldsLock ==
  \A a \in Servers : lpc[a] \in LoginCS => lock[cur[a].uid] = Logic(a)
CleanerHoldsLock ==
  \A h \in Cleaners :
    epc[h] \in {"check", "delSession", "delIp"} => lock[euid[h]] = h
CleanedIsClosed ==
  \A h \in Cleaners : epc[h] # "idle" => sock[h[2]] = "closed"
DeletesOwnSession ==
  \A h \in Cleaners : epc[h] = "delSession" => usession[euid[h]] = h[2]
CleanupInv ==
  LoginHoldsLock /\ CleanerHoldsLock /\ CleanedIsClosed /\ DeletesOwnSession

\* A lock that names a living thread goes away only when that thread gives it
\* up, when its TTL runs out, or with its process: a thread whose own lock ran
\* out does not delete the lock of the one that came after it.
Releasing(t) ==
  IF t \in LogicThreads THEN lpc[t[2]] = "release" ELSE epc[t] = "release"
ReleaseOnlyOwn ==
  [][\A u \in Uids : \A t \in Threads : lock[u] = t /\ lock'[u] # t =>
       \/ Releasing(t) /\ ~Releasing(t)'
       \/ LockExpire(u)
       \/ \E a \in Servers : Crash(a)]_vars

\* A lock that names a living thread is that of a thread on its way to release
\* it, which waits for no other lock: no living thread forgets a lock, whatever
\* timed out, ran out or failed, and no two threads wait for each other's.
CleanCS == {"check", "delSession", "delIp", "clear", "release"}
HolderWorks ==
  \A u \in Uids :
    /\ \A a \in Servers :
         lock[u] = Logic(a) => lpc[a] \in LoginCS /\ cur[a].uid = u
    /\ \A h \in Cleaners : lock[u] = h => epc[h] \in CleanCS /\ euid[h] = u

\* usession, the session tables and the sockets behave as Presence says.
P == INSTANCE Presence WITH owner <- usession, seated <- members, conn <- sock
PresenceSpec == P!Spec
-----------------------------------------------------------------------------
(* Progress.  Threads run (the OS schedules them), operations on a closed  *)
(* socket complete with an error, the timer comes round every minute and   *)
(* finds a closed session silent sooner or later, and a dead holder's lock *)
(* runs out.  Posting waits for the queue's mutex, which gives no order:   *)
(* the post gets through as long as the mutex keeps being free.            *)
Fairness ==
  /\ \A a \in Servers : WF_vars(LogicStep(a))
  /\ \A h \in Cleaners : WF_vars(CleanStep(h))
  /\ \A u \in Uids : WF_vars(lock[u] = Orphan /\ LockExpire(u))
  /\ \A s \in Sessions :
       /\ WF_vars(Insert(s))
       /\ SF_vars(PostMsgToQue(s))
       /\ WF_vars(sock[s] = "closed" /\ (ReadError(s) \/ WriteError(s)))
       /\ WF_vars(StartTimerCleanup(s))
       /\ SF_vars(/\ sock[s] = "closed"
                  /\ \E E \in SUBSET SessionsOf(Home[s]) :
                       s \in E /\ OnTimer(Home[s], E))

FairSpec == Spec /\ Fairness

\* A closed session is taken out of the session table, whichever of the read
\* error, the write error, the timer and a kick comes first.
ClosedLeaves ==
  \A s \in Sessions : (sock[s] = "closed" /\ s \in members) ~> s \notin members

\* A login that the logic thread has started is finished, whatever other
\* threads do with the user's lock: the queue behind it moves on.
LoginEnds == \A a \in Servers : lpc[a] # "idle" ~> lpc[a] = "idle"

\* The lock of a user comes free again, also when its holder died.
LockComesFree == \A u \in Uids : lock[u] # Nil ~> lock[u] = Nil
=============================================================================
