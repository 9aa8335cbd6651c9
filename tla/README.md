# TLA+ for Flux Messenger

TLA+ models of the parts of Flux Messenger whose correctness depends on the
order in which threads, processes and Redis commands take their turns; TLC
configurations that check them on small instances; and TLAPS proofs of what
holds for any number of servers, sessions, users and threads.

All paths below are relative to the repository's root, `src/` in the references
of this directory.

## 1. The system

```
 client --HTTP--> GateServer --gRPC--> StatusServer        VarifyServer <--gRPC-- GateServer
    |                 |                     |                    |
    |               MySQL                 Redis <----------------+
    |                                       ^
    +----TCP---> ChatServer  <--gRPC--> ChatServer2
                 (each: Redis, MySQL)
```

`ChatServer` and `ChatServer2` are two copies of one program. The models speak of
"a chat server", and line references go to either copy. Besides formatting and
logging the copies differ in the period of the timer (60 s against 10 s) and in
`MysqlDao`, in two ways:

* `AuthFriendApply` binds its two uids in opposite orders. `ChatDelivery` has both
  orders (`BindsToFrom`).
* `GetApplyList`, `GetFriendList`, `GetUser` and `CheckPwd` read different columns of
  the same statements. The schema is not in the repository; whatever it is, the
  columns of one copy at most can be the right ones. For the list of applications
  `ChatDelivery` has both cases (`ListsApplies`). A profile that cannot be read makes
  the copy refuse a login whose profile is not cached, which is `RefuseLogin` in
  `SessionBinding`; the friend list changes nothing.

| Part | State it keeps | Operations | Talks to |
|---|---|---|---|
| Session binding (`CServer`, `CSession`, `UserMgr`, `DistLock`, `LoginHandler`, `NotifyKickUser`) | `_sessions`, `_uid_to_session`, `_user_uid`; in Redis `uip_`, `usession_`, `lock_` | accept, read, write, login, kick, heartbeat timer, clean-up of a broken connection | Redis, other chat servers (gRPC), the logic queue |
| Logic queue (`LogicSystem`) | `_msg_que`, `_b_stop`, one worker | `PostMsgToQue`, `DealMsg`, destructor | io threads post, callbacks run in the worker |
| io thread pool (`AsioIOServicePool`) | one `io_context` and thread per core | `GetIOService`, `Stop` | runs every session's handlers |
| Server selection and tokens (`StatusServiceImpl`, `CServer::on_timer`) | `_servers`; in Redis `LOGIN_COUNT`, `utoken_` | `GetChatServer`, `insertToken`, `Login` | gate (gRPC), Redis |
| Gate: login, registration, password reset (`GateServer/LogicSystem`) | MySQL users; in Redis `code_` | four HTTP posts | MySQL, Redis, status server, VarifyServer |
| Gate: HTTP connections (`HttpConnection`) | one request, one deadline timer | read, answer, time out | gate logic |
| Chat delivery (`DealChatTextMsg`, `Notify...` RPCs) | none of its own | look up the target, push locally or through the other server | session binding, Redis |
| Friend applications | MySQL `friend_apply`, `friend` | apply, accept, list | MySQL, delivery of notifications |
| Send queue (`CSession::Send`, `HandleWrite`) | `_send_que` | push, write, drop when full | socket |
| Redis, MySQL and gRPC connection pools | a queue of connections, a stop flag, a checker thread | take, give back, check, close | everything above |
| Profile cache (`ubaseinfo_`) | Redis copies of MySQL rows | read through | MySQL |
| Configuration, logging, singletons; generated protobuf code; load tests | nothing that changes | | |

### What is hard in it

* **Session binding.** A login writes four places, two of them in Redis, one
  after the other. The writers are the logic thread of every chat server, the
  io thread of every session, the timer of every server and the gRPC threads
  that kick. What orders them is one Redis lock per user, with an acquire that
  gives up after 5 s and a time to live of 10 s. Connections break at any point
  of a login, processes die between two writes, kicks fail. It is right when a
  user has one live login, the three lookups that deliver a message all lead to
  it, and the clean-up of an old connection never hurts a newer one.
* **Logic queue.** Only the push that makes the queue non-empty notifies, and it
  does so after unlocking; the worker keeps the head in the queue while it runs
  its callback; two different loops pop; shutdown has a flag, a notification and
  two joins. It is right when every accepted message is served once, in order,
  also through a shutdown, and the shutdown ends.
* **Server selection.** The counts are read one by one while servers write them
  once a minute; a server that stopped has none, one that crashed an old one. A
  token is stored outside the mutex by threads that may overtake one another,
  also for a gate that has stopped waiting. It is right when no server that
  published a smaller count is passed over, and when the token a client is given
  works unless a newer one replaced it. That it should not pick a server that is
  down is said of it and not so (section 4).
* **Delivery and friend applications.** A text or a notification looks its target
  up in Redis and then in a `UserMgr` without the target's lock, while the target
  logs in, is kicked, or is cleaned up, here or on the other server. The handlers
  hold their own queue's mutex during calls to one another's server. Applying and
  accepting are rows in MySQL, pushes, and a list that the next login reads, and
  none of the three knows whether the others succeeded; accepting is two
  transactions. It is right when a user who stays where he is gets what is sent,
  once and in order, an application is seen by a push or by the next login whose
  list has room for it, and the tables disagree only where something failed.
* **Send queue.** Several threads push, the io thread writes and pops, only a push
  into the empty queue starts a write, and after a failed write nobody does.
* **Redis pool.** Five connections for everybody; `acquireLock` keeps one while it
  spins, for a lock whose holder needs another one; a checking thread borrows,
  frees and reopens connections; `Close` sets its flag outside the mutex. It is
  right when no connection is shared, lost, or idle beside a sleeping thread, and
  when it gets over an outage.
* **Gate.** Handlers block their io thread and with it the other connections and
  deadlines of that thread; registrations of different threads run their
  transactions side by side; a reset is three calls with anything in between;
  codes run out, are sent again, or are overwritten. It is right when an account
  belongs to who was mailed its code, ids are unique, and each connection whose
  request was read is closed in the end.

`PROJECT.json` lists each hazard at its line, with the properties about it.

## 2. The modules

| Module | What it is |
|---|---|
| `Presence` | abstract: at most one session owns a user; ownership passes on only from a session without a seat, and is given up only by a closed one |
| `SessionBinding` | session binding in full detail |
| `SessionBindingMC` | small clusters for it |
| `SessionBindingProofs` | its types, its critical sections, that no clean-up steals a login and no release another thread's lock |
| `RouteProofs` | one live login per user, and the lookups that lead to it; that `SessionBinding` implements `Presence` |
| `ChatDelivery`, `ChatDeliveryMC` | texts, applications and acceptances on their way through `SessionBinding`, and a small cluster |
| `DeliveryProofs` | all its safety, and that `RouteConsistent` holds under deliveries |
| `Mailbox` | abstract: messages are served in the order of acceptance, once each |
| `LogicQueue` | the logic queue with its threads and its shutdown |
| `LogicQueueMC`, `LogicQueueProofs` | small instance; all its safety, and that it implements `Mailbox` |
| `StatusBalance` | chat servers' counts, the status server, the gate's login request, the client's login at the chat server |
| `StatusBalanceMC`, `StatusBalanceProofs` | small instance; all its safety |
| `Outbox` | abstract: a bounded FIFO that goes out in order while the connection lives |
| `SendQueue` | `CSession::Send`, the asynchronous write and `HandleWrite` |
| `SendQueueMC`, `SendQueueProofs` | small instance; its safety, and that it implements `Outbox` |
| `ConPool` | the Redis pool, the calls that borrow from it, its checking thread and its end |
| `ConPoolMC`, `ConPoolProofs` | small instance; all its safety |
| `Gate` | HTTP connections, the four handlers and the services behind them |
| `GateMC`, `GateProofs` | small instance; all its safety |

How they fit together: `ChatDelivery` extends `SessionBinding`, whose steps are
steps of it (`BindingStep`), restricted in one respect: the logic thread that
delivers starts no login, and its queue is locked meanwhile. `SendQueue` is what
is behind `SessionBinding`'s write chain `wr`, which knows a session only as
idle, writing or dead. `ConPool` is under every Redis command of the others;
they take from it that a command takes its turn and comes back. `Gate` calls
`StatusBalance` in one step, `GetChatServer`, with its answer or its deadline.

`SessionBinding` and `LogicQueue` meet at `PostMsgToQue` and `DealMsg`:
`SessionBinding` uses the queue in the shape that `LogicQueue` is shown to have
(a FIFO per server, its mutex held while a callback runs) and leaves out
wake-ups and shutdown. `StatusBalance` takes the chat servers as counters:
what makes a count go up or down is `SessionBinding`'s business.

### SessionBinding

One action is one stretch of code between two calls other threads can observe:
a Redis command, a section under `CServer::_mutex` or `UserMgr::_session_mtx`,
or a write of a field another thread reads.

* *Redis*: `uip`, `usession`, `lock` are the three keys per uid. `lock[u]` is
  the thread whose identifier the key holds; the UUIDs are as good as the
  thread's name, since a thread has one lock at a time. `Orphan` is the
  identifier of a thread whose process died. A DEL and an expiry make it `Nil`.
* *Per server*: `members` (`CServer::_sessions`, one set for all servers: a
  session belongs to the server that accepted it, `Home`), `userSession`
  (`UserMgr::_uid_to_session`), `queue`, and the logic thread's `lpc` with the
  locals of `LoginHandler` that live across a step: `cur`, `lip`
  (`uid_ip_value`), `lold` (`old_session`).
* *Per session*: `sock`, the read chain `rd`, the write chain `wr`, `userUid`.
  Messages other than logins do not change the binding and are not posted.
* *Clean-up*: `epc`, `euid` for each run of `DealExceptionSession`; a session's
  io thread and the timer of its server can each be in one. `euid` is the uid
  read before the lock is taken. A uid of 0 (`NoUser`) is locked like any other.
* *Order in the code that the model keeps*: `HandleAccept` starts reading before
  it inserts the session; `LoginHandler` writes `_user_uid`, `uip`, the map and
  `usession` in this order; the deferred `ClearSession` of the clean-up comes
  after its Redis commands and before its unlock, also after a failed acquire.
* *`ClearSession`* removes the map's entry only if the session was a member and
  the map names this very session for its present uid. It is two critical
  sections in the code, taken as one.
* *Kick*: on the same server the handler clears the old session itself, on
  another it does so through `NotifyKickUser`; both are `LookupOld` and
  `ClearOld`, with `lip` saying where. `KickFails` is a failed RPC, whose result
  nothing looks at.
* *Crash* is the operating system's: the process is gone between any two steps, with
  its connections, tables, queue and threads, and the identifiers of its locks become
  `Orphan`. A kick that it was waiting for runs on in the other server, and clears
  what it finds there without the user's lock: `strays` holds such kicks, and
  `StrayLookup` and `StrayClear` are their two steps. A kick that runs inside the
  dying server fails.
* *A round of the timer* that finds no silent session changes nothing here and is left
  out (`OnTimer` has a non-empty set of them); its count is in `StatusBalance`.
* `TypeOK` has besides the types what the code takes for granted (`AtHome`): the
  requests in a server's queue, the one its logic thread works on, and the sessions
  of its `UserMgr` are those of its own connections.
* *Faults*: `Faults[s]` bounds what may go wrong with a connection (`gone`: the
  peer disappears, at any moment from then on reads and writes fail; `silent`:
  no heartbeat; `badHeader`). `LoginMayTimeOut`, `LockMayExpire`, `RpcMayFail`
  and `MaxCrashes` bound what may go wrong elsewhere. A clean-up's acquire may
  always time out.

The abstract `Presence` is implemented with `owner <- usession`,
`seated <- members`, `conn <- sock`.

### LogicQueue

A poster's critical section is one action guarded by the mutex being free; the
worker holds the mutex at the program counters `WorkerHolds` names, callbacks
included. The loop's condition (`Test`), the wait (`Wait`), the second read of
`_b_stop` (`Decide`) and the notification are steps of their own, because
`_b_stop` is written without the mutex. `Message` carries whether a callback is
registered for its id: the path for an unknown id pops and continues. Shutdown
is `main`'s signal handler (stop and join the io threads) followed by the
destructor of the singleton (`_b_stop`, notify, join).

`accepted` and `served` are history; `Mailbox` is stated on them.

### StatusBalance

`getChatServer` is one action per HGET between lock and unlock; the first entry
is read twice, as in the code (`ReadFirst`, then again in the loop). A missing
field is `Nil` in Redis and 0 once read (`Count`). `insertToken` runs outside the
mutex. `utoken[u]` holds the request whose token it is. `window` is history: the
counts each server had in Redis during a request's scan, `Nil` for a missing one, so
that `PickedWasLeast` can speak about an instant of it and leave out the servers that
had none at some instant. Redis answers every command
here; the configured servers do not change while the status server runs.

### ChatDelivery

* `dpc` is where the handler (`AddFriendApply`, `AuthFriendApply`,
  `DealChatTextMsg`) of a server's logic thread is: `write` and `befriend` are
  the two transactions of MySQL, `find` the lookup of `uip_`, `call` the push,
  `answer` the deferred answer. A handler that finds no `uip_` answers and ends.
* `calls` holds what happens at the target's server: `GetSession` and `Send`, by
  the handler itself when the target is on its own server, and otherwise by a
  gRPC thread, which never asks that server's logic thread for anything.
* `applies` and `friends` are the rows of `friend_apply` and `friend_list`.
  `listed` is the `apply_list` a login reads *before* it goes for the lock
  (`ReadApplies`): at most `ListLimit` of the open rows, any of them, since the
  statement has no ORDER BY. The SELECT may fail (`ReadFails`), and the login goes on
  with an empty list.
* The two copies of `MysqlDao::AuthFriendApply` differ in the order in which they
  bind the two uids; `BindsToFrom` names the servers whose copy binds (to, from).
  In the run it is the server that accepts.
* The two copies of `MysqlDao::GetApplyList` read different columns of one SELECT:
  `ChatServer` has row[0], [3], [2] for the uid, the name and the status
  (`src/ChatServer/src/MysqlDao.cpp:290`), `ChatServer2` has row[1], [4], [3]
  (`src/ChatServer2/src/MysqlDao.cpp:297`). `ListsApplies` names the servers whose
  columns fit. On the others the conversion of the first row is taken to throw a
  `mysqlx::Error`, which is caught: no list. Its comments speak for `ChatServer2`'s
  columns, so in the run it is that server.
* `flaw` and `flaws` are failing statements and RPCs, whose results no handler
  looks at.
* `CrashStep` is `SessionBinding`'s crash with what it means for deliveries: the
  handler of the dead server is gone and its sender gets no answer; calls of other
  servers to it fail; a call it had made to another server goes on there. MySQL
  keeps what was committed, so a crash may fall between `SettleApply` and
  `AddFriend`.
* `answered`, `before`, `pushed`, `latest` and `watched` are history. A member of
  `pushed` is a message, its session, and whether the message had been pushed before
  (`again`), so that a second push to the same session is seen as well. `before[a]`
  are the requests that had been answered, without a failure, when the running one
  was begun. `latest[u]` is the session of the user's latest login: none from the
  moment a login has written `uip_`, and the login's session once it has written
  `usession_` too. `watched[a]` is that session of the running handler's target, if
  it has been the same, open, live and without another login of the user under way
  since the handler started. `Watch` writes the last two in every step.
* Left out: the connection of the sender; a request comes from a client of the
  server, that is all.
* `Mortal` (the servers that may crash) and `Swept` (the sessions that the timer
  may clean up as well as their io thread) bound the runs; the proofs hold for any.

### SendQueue

`Send` and the good branch of `HandleWrite` hold `_send_lock` from beginning to
end and are one action each. An `async_write` is a record of the message whose
buffer it uses, `busy` first, then `ok` or `error` until the io thread runs its
handler. The client may go away, or only stop reading while its heartbeats go on.
Nothing in `Send` asks whether the socket is closed. `accepted`, `refused` and
`delivered` are history.

### ConPool

Everything done under `mutex_` is one action, except that `Close` sets `b_stop_`
without it: therefore the failing test of `getConnection`'s predicate and its
falling asleep are two steps, with the mutex held in between. `op` is the kind of
call: a plain command, `acquireLock`, which may keep its connection until
`acquireTimeout`, or `releaseLock`. The checking thread is `check`: asleep,
scanning, with a connection it pings, or reopening what it freed. `open` and
`broken` are the state of hiredis and `up` that of Redis, as the code can observe
them. `Conns` are the connections the constructor managed to open; the ones it did
not are counted nowhere, so a pool that started short stays short.

### Gate

One HTTP connection has one request and one io thread, and its handler blocks
this thread up to the start of the reply: `ThreadFree` guards every callback of
the thread's other connections, deadlines included. The handler's place is `at`;
one action is one Redis command, one statement of MySQL, one mail, or one RPC.
MySQL is modelled as the code uses it: a transaction's SELECTs read the snapshot
of the first one (`snap`), `UPDATE user_id` waits for the row's lock and keeps it,
INSERT fails on a duplicate in one of `UniqueKeys`. The schema is not in the
repository, so `UniqueKeys` is a constant. `Throws` and `Ignores` are what becomes
of JSON with unexpected types and of methods other than GET and POST. Codes are
numbered; in the program they are four hexadecimal digits and may coincide. Each
failure and each code that runs out costs one of `MaxFlaws`.

## 3. What is checked

The passing runs take from seconds to about three minutes each on two
cores. Deadlock is not checked: the bounded models stop when every connection has
been used, every message posted and every server's change spent, as the real
system stops when its clients do.

| Run | Instance | Properties |
|---|---|---|
| `binding_crash` | two servers, a connection to each, the first with all faults, one crash with restart | `SingleLogin`, `NeverSteal`, `PresenceSpec` |
| `binding_slow_lock` | two servers, locks that run out under live holders, logins that give up on the lock, kicks that fail, one crash | `HolderWorks`, `ReleaseOnlyOwn` |
| `binding_progress` | one server, two connections, the first with all faults, logins that wait until they get the lock, one crash; fair | `TypeOK`, `RouteConsistent`, `CleanupInv`, `ClosedLeaves`, `LoginEnds`, `LockComesFree` |
| `queue` | two io threads, two messages each, shutdown; fair | `TypeOK`, `NoLostPost`, `StopServesAll`, `QueueInv`, `MailboxSpec`, `AcceptedIsServed` |
| `status` | two chat servers, three starts, stops or crashes, two requests of one user, gate may give up; fair | `TypeOK`, `PickedWasLeast`, `SomeTokenWorks`, `RefusedIfReplaced`, `CallIsAnswered` |
| `send` | two threads, three messages each, `MAX_SENDQUE` 1, a client that leaves or stops reading; fair | `TypeOK`, `SendInv`, `OutboxSpec`, `AcceptedGoesOut` |
| `delivery` | two servers; one user logs in on both and loses a connection; two others apply to him, he accepts the first, his list has room for one; kicks that fail, and one failing statement or push, or a crash of the other server | `DeliveryTypeOK`, `SteadyIsPushed`, `PartedByFlaws`, `InOrder`, `AppliedIsListed`, `AcceptedIsSettled` |
| `pool` | two threads, one connection, three calls with a lock between them, one outage, `Close`; fair | `TypeOK`, `PoolInv`, `CallsEnd`, `Recovers` |
| `gate` | three HTTP connections on two io threads: registrations, code requests, resets, a login, nonsense; one failure; fair | `TypeOK`, `EachItsAccount`, `OnlyByMail`, `RequestEnds` |

What they show:

* `SingleLogin`: whenever a user's lock is free, at most one member session is
  logged in as the user, across servers, whichever kicks and clean-ups ran.
* `RouteConsistent`: then `uip`, the server's `UserMgr` and `usession` all name
  that session.
* `NeverSteal`: `usession` is deleted only when the session it names was closed.
  The comparison and the deletion in `DealExceptionSession` are two commands;
  what protects them is the lock, which is what `CleanupInv` says.
* `PresenceSpec`: the same from the outside, with crashes: a session takes a
  user over only from one that has left its server's table.
* `ReleaseOnlyOwn`: even with a lock lost to its TTL, its old holder's release
  does not delete the next holder's.
* `HolderWorks`: a lock that names a living thread is that of a thread between its
  acquire and its release, for the user it acquired it for. So no thread ends with
  a lock still held, whatever has changed `_user_uid` meanwhile, and no two threads
  wait for each other's locks: who waits for one holds none.
* `ClosedLeaves`: a closed session leaves `_sessions`, whichever of the read
  error, the write error, the timer and a kick comes first; in particular one
  whose clean-up ran before `HandleAccept` inserted it.
* `LoginEnds`: the logic thread never waits for ever, although it kicks with the
  user's lock held, and even if `acquireLock` had no limit of 5 s.
* `LockComesFree`: the lock of a user comes free again, also after its holder's
  process died.
* `NoLostPost`, `AcceptedIsServed`: one notification per transition from empty
  is enough. `StopServesAll`: nothing accepted is left behind by a shutdown.
  `MailboxSpec`: order, and exactly once. `QueueInv`: why; in particular no
  `front()` of an empty queue, not after a spurious wake-up either
  (`FrontExists`).
* `PickedWasLeast`: the server picked had the count it was picked for at an
  instant of the scan, and every other one that had a count all through the scan one
  no smaller at some instant. It says nothing of servers without a count, which the
  code takes for empty ones (section 4).
* `SomeTokenWorks`, `RefusedIfReplaced`: a user whose requests were all answered
  has a token that works; a token that was handed out is refused only when
  another request of the user has replaced it.
* `CallIsAnswered`: every request that reaches the status server is answered.
* `SendInv`: one write at a time, from a buffer the queue still owns; a queue that
  waits for no write belongs to a closed session whose clean-up was started; what
  was accepted is what was delivered, followed by the queue. `OutboxSpec`: order,
  no gap, no duplicate, and a message is turned away only when `MAX_SENDQUE` others
  are on their way. `AcceptedGoesOut`: an accepted message goes out unless the
  connection is closed or the client does not read.
* `SteadyIsPushed`: a message for a user whom nobody disturbs reaches the session of
  his latest login, whichever server it is on, while clean-ups of his former
  connections and failed logins are still under way, after a crash has left keys of
  dead sessions in Redis, and also when a failed kick has left a former login live
  on the other server. `InOrder`: the pushes of one server keep the order of their
  requests, also when the target moves in between, and no message is pushed a second
  time, be it to another session or to the same. A crash may leave a push behind on
  the other server that later ones overtake. Two mutants break it: one that does not
  wait for the push, one that makes it again.
* `PartedByFlaws`: the two tables of an acceptance part in no more rows than there
  were failures and crashes: a settled application has its friendship, or a handler
  that is about to write it, whoever repeats what, unless one of them failed.
* `AppliedIsListed`: what no push could deliver is in the list of each later login
  until its acceptance is begun, where the copy's columns fit, the SELECT does not
  fail and the list is not full. `AcceptedIsSettled`: an application that was
  answered before its acceptance was begun does not come back once this is
  answered, on the server whose copy of the statement is right (section 4), though
  the application may be repeated.
* `PoolInv`: no connection has two owners or is used after it was freed; none is
  lost while the pool runs, the freed ones being counted until they are reopened;
  and nobody sleeps beside an idle connection no awake thread is coming for,
  although the checking thread takes and returns connections and newcomers
  overtake notified threads.
* `CallsEnd`: threads that spin for a lock while its holder waits for a connection
  do not stop one another. `Recovers`: after an outage the pool is whole again.
* `EachItsAccount`: registrations that mix get different ids, and who is told that
  it succeeded has the account. `OnlyByMail`: an account appears or changes its
  password only through a request for its own address that quotes a code mailed
  there, whatever happens between the three calls of a reset. `RequestEnds`: a
  connection whose request was read is closed, whatever fails and even if its
  client stops reading.

### Bounds and why they are enough

* Two sessions are what every hazard of the binding needs: an old login and a
  new one. One user suffices, since a user's keys and lock are its own and what
  two users share (the worker, the timer) is used one at a time; `PresenceSpec`
  was checked once with two users and two requests per connection on one server as
  well (9.8 million states). One login request per connection in the runs.
  With three connections of one user over
  two servers the properties of `binding_crash` and `RouteConsistent` hold too
  with a crash and no other fault (83 thousand states); with a lost connection
  besides, that instance has 3.6 million states and is too slow to be kept.
* One crash: it can fall at any step, the server is started again and accepts
  the connections that were not made yet.
* No run uses symmetry: almost all of them check a temporal property.
* Two posters with two messages give every order of two pushes around one
  wake-up, and a second round after the queue was empty once more.
* Two chat servers are enough for a wrong choice; two connections per server for
  a count that is neither zero nor equal; three changes for "one runs, the other
  has run and is gone". Two requests of one user share the token and the mutex.
  A third request, of another user, changes nothing (167 thousand states with
  one connection and one change).
* Two senders and a limit of 1 reach the full queue, a message too many, and a
  second round after an empty queue.
* In `delivery` one server's clients ask and the target moves between both, so each
  push may be local, remote, or meet nobody; a second sending server would add the
  same handler once more. One flaw at a time: after it the properties make no
  promise for the request it hit, and the run shows that the others keep theirs.
  The server that may crash is the one nobody asks from, so that calls meet a dead
  server and stale keys; the connection that breaks is the one to the other server.
  Kicks fail or arrive without a limit, so that both sessions may be live at once
  (1.2 million states). `ListLimit` 1 stands for the ten of the code: two
  applications fill it. Three requests are what a run of some minutes can take: two
  applications and an acceptance. A text is an application without its row, with the
  same `find`, `call` and `answer`. Checked once as well, with a text, an application
  and its acceptance: the same faults (1.0 million states); and, with kicks that
  arrive, either server mortal (1.3 million) and the first connection breaking
  (1.0 million).
* One connection for two threads is the pool at its limit at every moment; three
  calls are lock, command and release against another thread's lock. `PoolInv` was
  also checked with three threads and two connections (5.1 million states).
* Three HTTP connections, two on one thread: two handlers that mix, and one that
  waits behind another. One failure or expiry can fall at each step.

### Fairness

* Binding: threads run (`WF` of the logic thread and of each clean-up);
  operations on a closed socket complete with an error; a dead holder's lock
  runs out. `SF` twice: posting needs the queue's mutex, which becomes free again
  and again but has no order; and the timer comes round every minute, again and
  again between other work of the main thread. Nothing obliges clients to send,
  peers to vanish, or accepts to happen.
* Queue: the worker and the notifications run. Posters are not obliged to get
  the mutex, and spurious wake-ups are not relied on.
* Status: the status server's threads run. A request waits for `_server_mtx`
  behind finitely many others. Nothing is assumed of gate and chat servers.
* Send: an asynchronous write ends if it can, and the io thread runs its handler.
  Nobody has to close anything, and a client that does not read keeps a write
  pending as long as it likes.
* Pool: `SF` of each thread's steps and of its taking a connection, because the
  mutex and the connections come free again and again but have no order; what could
  overtake for ever is the checking thread, and it sleeps 60 s between rounds. `SF`
  of the checking thread and of `Close`. A command on an open connection returns:
  hiredis is used without a timeout, so a Redis that accepts commands and never
  answers is outside the model. Nothing is assumed of Redis coming back, of the
  lock's expiry, of spurious wake-ups or of callers.
* Gate: services answer or fail, io threads serve what is ready, time passes. No
  client has to send, to read or to leave.
* `delivery` has no liveness property and assumes none.

## 4. Where the code and what is said of it part

Each has a run that ends in a counterexample.

| Run | Property | What happens |
|---|---|---|
| `finding_dead_binding` | `NoDeadBinding` | The connection is lost while its login is being handled: `ClearSession` runs first, `SetUserSession` afterwards binds the user to the session that is gone. The reply that follows fails on the closed socket, and its clean-up removes `usession_` and `uip_` again; the entry of `UserMgr` stays. |
| `finding_login_without_lock` | `NeverSteal` | `LoginHandler` does not look at the empty identifier of an acquire that gave up; its `usession` is deleted by the clean-up of the older connection. |
| `finding_stop_hangs` | `StopEnds` | `_b_stop` is set and notified without the mutex; between the worker's test and its wait the notification is lost and `join()` does not return. |

Met on the way, not in a run.

Logins and kicks:

* The kick RPC's result is not looked at: when it fails the user is live on two
  servers (`src/ChatServer/src/LogicSystem.cpp:221`). `SingleLogin` needs kicks
  that arrive. What is left without them: the newer login has all lookups to itself
  (`OwnerServed`), and it is the one that messages reach (`SteadyIsPushed`).
  The older one is live and gets nothing. It stays so even when the newer one comes
  to an end: a newer login that dies with its server between `uip_` and `usession_`
  leaves `uip_` naming that server, and the older session, which `usession_` still
  names, receives no push any more. This is why `latest` ends with the write of
  `uip_`.
* A connection that logs in as another user stays bound to the first one as well
  (`LogicSystem.cpp:226`); one that logs in twice as the same user finds itself as
  the old login and is removed from `_sessions` (`LogicSystem.cpp:208`, the property
  `NoDeadBinding`).
* `main`'s deferred block closes the Redis pool before the destructor of
  `LogicSystem` serves what is left in its queue (`src/ChatServer/src/ChatServer.cpp:29`):
  those messages are served without Redis.

Delivery and friends:

* An offline target's text is answered with Success and kept nowhere
  (`LogicSystem.cpp:461`; `src/README.md:10` promises that messages reach offline
  users). The same is true of a text to a target between its `uip_` and its
  `SetUserSession`, or whose RPC fails.
* A login reads its applications before it takes the lock and writes `uip_`. One
  that is written and looked up in between is neither listed nor pushed at this
  login; it is listed at the next one.
* `ChatServer`'s copy of `AuthFriendApply` binds (from, to) and settles nothing
  (`src/ChatServer/src/MysqlDao.cpp:172`), `ChatServer2`'s binds (to, from) and says
  why (`src/ChatServer2/src/MysqlDao.cpp:176`). `AcceptedIsSettled` is about the
  latter; what is never settled comes back at each login, and since the list is
  limited to ten without an order (`LogicSystem.cpp:695`) it can keep newer
  applications out: `AppliedIsListed` makes no promise for a full list.
* The columns that the two copies read of one SELECT differ (section 2), so one of the
  two servers never shows an application at a login. `AppliedIsListed` is about the
  other.
* Settling and `AddFriend` are two transactions whose results are not looked at
  (`LogicSystem.cpp:379`); after a failure of one the tables disagree, and nothing
  repairs them. `PartedByFlaws` is what remains true. `AddFriend` writes one
  direction.

Sending:

* The limit is compared with `>`: the queue takes one message more than
  `MAX_SENDQUE` (`src/ChatServer/src/CSession.cpp:58`). `TypeOK` of `SendQueue` has
  the real bound.
* A client that keeps its heartbeats and does not read is never disconnected; its
  queue fills up and further messages are dropped without a word to their senders.
* The length of a `SendNode` is a `short`: a reply of more than 32767 bytes, such as
  a long friend list, does not fit.

Redis pool:

* `Close` can lose its wake-up like the logic queue's destructor
  (`src/ChatServer/include/RedisMgr.h:107`); a connection that is returned after it
  is not queued, notifies nobody and is not freed.
* Connections that fail in the constructor are never tried again; in an outage
  `getConnection` waits without a limit.

Status server and gate:

* A server that stopped has no count, which is read as 0, so it is picked first
  (`src/StatusServer/src/StatusServiceImpl.cpp:80`);
  `src/StatusServer/架构设计文档.md:278` says that unavailable servers are excluded.
  A crashed one keeps its last count. No property of `StatusBalance` hides this:
  `PickedWasLeast` compares only servers that have published a count.
* The `Login` RPC, which nothing calls, tests the result of `Get` the wrong way
  round (`StatusServiceImpl.cpp:125`, against
  `src/StatusServer/架构设计文档.md:15`); tokens have no expiry
  (`StatusServiceImpl.cpp:146`, against `架构设计文档.md:50`).
* The deadline of an HTTP connection is waited for only once its request has been
  handled, so that a client that connects and sends nothing is never closed
  (`src/GateServer/src/HttpConnection.cpp:32`, against
  `src/GateServer/架构设计文档.md:53`).
* Two code requests at the same time each make a code and the second overwrites the
  first, which was mailed too. A reset to the present password is answered with a
  failure, because the update counts changed rows. The mail says three minutes, the
  key lives ten (`src/VarifyServer/server.js:39`, `:29`). `GetVarifyCode` is called
  without a deadline.

## 5. What is proved

For every value of the constants, by TLAPS:

| Theorem | Says |
|---|---|
| `TypeCorrect` | `SessionBinding` keeps its types, among them that a login at its lookup has a server to ask and a kick a session to clear, and that a server's requests and its `UserMgr` lead only to its own sessions |
| `CleanupInvHolds` | `Spec => []CleanupInv`, when `Exclusive` |
| `NeverStealHolds` | `Spec => NeverSteal`, when `Exclusive` |
| `ReleaseOnlyOwnHolds`, `HolderWorksHolds` | `Spec => ReleaseOnlyOwn` and `Spec => []HolderWorks`, whatever times out, runs out or fails |
| `SingleLoginHolds`, `RouteConsistentHolds` | one live login per user, and the lookups lead to it, when `Reliable` |
| `PresenceRefined` | `Spec => PresenceSpec`, when `Reliable` |
| `OwnerServedHolds` | `Spec => []OwnerServed`, when `Exclusive`: the session `usession_` names, if a server still serves it, is the one that server's `UserMgr` leads to |
| `DeliveryTypeCorrect`, `InOrderHolds`, `PartedByFlawsHolds`, `AppliedIsListedHolds`, `AcceptedIsSettledHolds` | of `DeliverySpec`, for any faults |
| `SteadyIsPushedHolds` | of `DeliverySpec`, when `Exclusive` |
| `DeliveryRouteConsistent` | of `DeliverySpec`, when `Reliable` |
| `QueueTypeCorrect`, `QueueInvHolds`, `FrontExistsHolds`, `StopServesAllHolds`, `NoLostPostHolds` | the queue's safety |
| `MailboxRefined` | `Spec => MailboxSpec` |
| `SendTypeCorrect`, `SendInvHolds`, `OutboxRefined` | the send queue's safety, and `Spec => OutboxSpec` |
| `PoolTypeCorrect`, `PoolIsSound` | `Spec => []PoolInv` for the Redis pool |
| `StatusTypeCorrect`, `PickedWasLeastHolds`, `SomeTokenWorksHolds`, `RefusedIfReplacedHolds` | the safety of server selection and tokens |
| `GateTypeCorrect`, `EachItsAccountHolds`, `OnlyByMailHolds` | the gate's safety |

Assumptions. Each module names its own (`SessionBindingAssumption`,
`LogicQueueAssumption`, ...): special values are not among the others, sets that are
counted are finite, bounds are numbers. `GateAssumption` also says that the accounts
of the start have the ids from 1 on. Some theorems need more.

* `Exclusive == ~LoginMayTimeOut /\ ~LockMayExpire`: logins get the lock before they
  go on and no holder outstays its TTL. Without its first half
  `finding_login_without_lock` refutes `NeverSteal`. Crashes, failed kicks and every
  fault of a connection are allowed.
* `Reliable == Exclusive /\ ~RpcMayFail`: kicks arrive, too. A failed kick leaves the
  user live twice, so `SingleLogin` and what rests on it is false without this.
  Crashes, and all faults of connections, are still allowed. It is needed for
  `SingleLogin`, `RouteConsistent` and `PresenceSpec`, and for nothing else.
* `OnlyByMailHolds` takes a unique index on the user's name, and unique names at the
  start: the update of a reset goes by the name alone.

The argument for `NeverSteal`. Only `DelSession` deletes a session key, so it has
to be shown that the key it deletes is its own session's and that this session is
closed. "Its own" was checked one step before; what keeps it true is that
`SetSessionKey` needs the lock the clean-up holds. Hence `CleanupInv`:
`LoginHoldsLock` (between acquire and release the logic thread owns the lock of
its request's user), `CleanerHoldsLock` (the same for a clean-up between its
acquire and its last Redis command), `CleanedIsClosed` (a session is closed before
its clean-up starts, and stays so), and `DeletesOwnSession`. The conjunction is
inductive given the types: two threads that both own `lock[u]` are the same
thread. A crash makes the dead server's locks `Orphan`, which no living thread
believes to own.

The argument for `SingleLogin` and `RouteConsistent`. Four writes of a login cannot be
atomic, so the invariant says how far each one has got. `RouteInv`: a live session of
a user is either being written by the login that holds the user's lock, and then
the program counter says which of the lookups lead to it (`Written`), or all lookups
lead to it (`Routed`), or its own clean-up holds the lock and is deleting them
(`Leaving`); and any other login of the user that has passed its acquire is on its
way to it. Two live sessions that both are led to are the same session. The
invariant needs two more: `RequestInv`, that requests come only from sessions that
`HandleAccept` has inserted, so that nobody enters `_sessions` logged in; and
`KeyGone`, that a clean-up which is about to delete `uip_` has deleted `usession_`.

The argument for `PresenceRefined`. A take-over is `SetSessionKey`, and the user's
former owner must not have a seat by then. The owner in Redis need not be live: it
may have logged in and been closed. `OwnerInv` therefore speaks of owners instead of
live sessions: as long as the owner is a member, `uip_` and `UserMgr` lead to it and
no login of the user has passed the point where it would have been removed.
`FreshOwnsNot` (a session that was not inserted yet owns nobody) and `UidInv` keep
the invariant through accepts and crashes.

The argument for `OwnerServed`, which has to do without `RouteInv`. It speaks of the
user's keys instead of his live sessions. `KeysWritten`: a login that has written
`uip_`, or `UserMgr`, still finds there what it wrote, because whoever else writes them
for this user, a login or a clean-up, needs the lock, and a kick comes from a
login that has it; who takes the session out of `UserMgr` without the lock
(`ClearSession`) takes it out of `_sessions` as well. `ServedInv`: if `usession_` names a member, the `UserMgr` of its
server leads to it, or a login of the user on that server is past its own write there
and about to name itself. `OwnerServed` is this with the lock free. The conjunction is
inductive with `CleanupInv`, `RequestInv` and `FreshOwnsNot`; the last two are
there because a session that `HandleAccept` inserts must not be named already.

The argument for `ReleaseOnlyOwn` needs no lock discipline: identifiers are unique
and the release compares and deletes in one script. `HolderWorks` is inductive given
the types: who acquires enters its critical section in the same step and is in no
other, who leaves it releases or, after an expiry, owns nothing.

The argument for `ChatDelivery`. Its steps are `SessionBinding`'s, or leave Redis, the
tables and the logins alone: those of handlers and calls change of the binding at most
a write chain (`Send`). So `RouteInv` and what it rests on carry over
(`DeliveryRouteConsistent`), and so do `KeysWritten` and `ServedInv`; the rest is about
the handlers' own variables.

* `InOrder`: `CallInv` and `PushInv`. A request has at most one call, and while it is
  there nothing has been pushed for the request, so no push is a second one; unless there was a crash, each call is one a handler
  waits for, and the handler's request is the last its server has begun.
* `PartedByFlaws`: a step that adds a row to `Parted`, a failing `AddFriend` or a crash
  between the two, costs a flaw and adds one at most, since applications are unique
  (`RowInv`) and a handler is about to write one friendship. The others only shrink
  it: who settles a row is at `befriend` next.
* `AppliedIsListed`: `RowInv`, that an application has one row, and that a settled row
  is that of an acceptance that was begun; and `ApplyInv`, that a request which has
  passed its write without a failure has its row. Rows are never deleted, and a list
  below its limit has all the open ones.
* `AcceptedIsSettled`: `AcceptInv`, the same for the write of an acceptance of an
  application that was answered `before` it began. A repeated application leaves the
  row as it is, settled.
* `SteadyIsPushed`: `WatchInv`, that `watched` is still undisturbed, and `SteadyInv`,
  that past `find` the push is in a call to the server of `watched`, whose
  `GetSession` has not been made or has returned `watched`, or has been made. Both
  lookups have to be right for it, although other live sessions of the user may be
  around. `LatestInv`: until the session of the latest login is closed, `uip_` names
  its server and `usession_` names it. Only a login, which ends `latest`
  with its first write, or a clean-up of that very session, which was closed before,
  could change that; so the lookup in Redis is right, and by `ServedInv` the one in
  `UserMgr` is. A call is lost only by a failing RPC or the crash of its server, and
  the latter disturbs `watched`.

The argument for the queue. `QueueInv` says that `accepted` is `served` followed by
what is in the queue, without its head while a dispatched head waits for its
`pop`; the rest of it ties the shutdown's stages to the posters and the worker,
so that the worker leaves on an empty queue after the last poster has ended.
`NoLostPost` needs one fact more, kept by `NotifyStepKept`: the mutex is held from
the test to the wait, so a push falls before the test or after the wait has begun,
and then its poster is about to notify. `MailboxRefined` maps `Push` to `Accept`,
`Dispatch` and `Discard` to `Serve`, everything else to a stutter.

The argument for the send queue. `SendInv` is inductive given the types: a write exists
exactly while the queue is not empty and no write has failed, and it is of the head,
so a `Send` that finds a non-empty queue may rely on the write that is under way.
`OutboxRefined` follows from its last conjunct.

The argument for the pool. `OneOwner` and `NoneLost` together say that connections are
conserved: every step moves one between idle, held and freed, and `fail_count_`
counts the freed ones. `NoLostWakeup` is about numbers: there are at most as many
idle connections as awake threads while anybody sleeps, since a return adds one
connection and wakes one thread, and a thread falls asleep only on an empty queue
with the mutex held since its test. Cardinalities are taken step by step from
`FiniteSetTheorems`.

The argument for server selection. `PickInv`: a scan under way has seen, of each server
it has passed, a count that is in its `window`, and the best one is no larger than
any of them. `TokenInv`: once a request of a user was replied to, the token in Redis
belongs to a request of that user that was replied to as well; so a token that no
longer works was replaced by another one that was handed out.

The argument for the gate. `IdInv`: `user_id` is the largest id in use, and only the
transaction that holds its row's lock has the next one. `HandlerInv` ties each place
of a handler to the kind of its request and to whether it has been answered.
`MailInv`: a code is made for one address, wherever it is then found (in Redis, in a
handler, in a mailbox, quoted by a client), and past the check of the code a handler
quotes one that was mailed to its own address. `NameInv`: names stay unique, and at
the update of a reset some account has both the name and the address of the
request; so it is the only one the update changes.

## 6. Only model-checked

* Liveness (`ClosedLeaves`, `LoginEnds`, `LockComesFree`, `AcceptedIsServed`,
  `CallIsAnswered`, `AcceptedGoesOut`, `CallsEnd`, `Recovers`, `RequestEnds`): TLAPS
  does not reason about fairness.
* Every other property that a passing run checks has a theorem.

## 7. Not modelled

* Generated code. About 50 of the repository's 62 thousand lines of implementation
  are the protobuf and gRPC output in four copies, most of the rest exists twice
  (`ChatServer` and `ChatServer2`). The lines that the models stand for are
  therefore a small share of all lines, although they are most of the program's own
  logic.
* The MySQL pool: a queue of connections like the Redis pool's, with a check that holds
  the mutex throughout. Of note in it: the check reconnects inside a `catch` block of
  its detached thread, and when MySQL is down the constructor throws there, which
  ends the process (`src/ChatServer/include/MysqlDao.h:89`). The gRPC pools: the same
  without a check.
* The profile cache `ubaseinfo_`: rows of `user` do not change after the registration
  but for the password, and nobody compares the cached one.
* Configuration, logging, singletons, load tests, clients.
* Inside `SessionBinding`: failures of the five writes (a Redis command that is
  answered takes effect; a Redis that stops answering stops the thread);
  partial reads and the byte layout of messages; the limit of the send queue,
  which `SendQueue` has; a clean shutdown, which `LogicQueue` has; the clock behind
  the 20 s of the heartbeat (a session may be found silent at any round of the
  timer, or never).
* Inside `ChatDelivery`: the sender's connection, the search for users and the
  friend list, which only read; what a wrong column makes of a friend list.
* Inside `StatusBalance`: Redis errors, which `HGet` reports as an empty string
  like a missing field; the `Login` RPC.
* Inside `Gate`: the acceptor, which keeps no state; a client that never sends its
  request, for which the code has no limit.

## 8. Plan

The suite is kept to a dozen runs so that it can be repeated at every change: a
module's safety and liveness share one run.

Next, in this order:

1. The clean shutdown of a chat server as a whole: `LogicQueue`'s drain against a
   `ConPool` that is closed already, and `_sessions` that were not cleaned up.
2. A failing Redis in `SessionBinding` and `StatusBalance`, composed with `ConPool`'s
   outage: which of the four writes of a login may be missing afterwards.
3. The MySQL pool as a second use of `ConPool`'s structure.
4. Proofs: the steps below the liveness properties that are plain safety, such as a
   bound on how often a waiting thread can be overtaken.
