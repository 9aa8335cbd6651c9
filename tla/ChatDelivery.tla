---------------------------- MODULE ChatDelivery ----------------------------
(***************************************************************************)
(* Text messages, friend applications and their acceptance, on their way   *)
(* through the cluster whose logins SessionBinding describes.              *)
(*                                                                         *)
(* The handlers AddFriendApply, AuthFriendApply and DealChatTextMsg run on *)
(* the logic thread of the sender's server, between two logins.  They      *)
(* write to MySQL, look the target up in Redis (uip) and in the UserMgr of *)
(* the server found there, directly or in a gRPC thread of that server,    *)
(* queue the push, and answer the sender.  None of this takes the target's *)
(* lock: logins, kicks and clean-ups of the target run in between.         *)
(*                                                                         *)
(* LoginHandler reads the user's applications from MySQL before it goes    *)
(* for the lock, at most ten of them, in no order the statement asks for.  *)
(* A server may die: its handler and the calls inside it are gone, what it *)
(* had called elsewhere goes on.  The senders' own connections are not     *)
(* modelled.                                                               *)
(*                                                                         *)
(* The two servers have a MysqlDao each, and the copies differ: in the     *)
(* order in which AuthFriendApply binds its uids, and in the columns that  *)
(* GetApplyList reads, of which one schema can only have one set.          *)
(***************************************************************************)
EXTENDS SessionBinding, FiniteSets

CONSTANTS
  Requests,     \* what the clients of each server ask for, in this order
  MaxFlaws,     \* bound: statements and push RPCs that fail, and crashes
  Mortal,       \* bound: the servers that may crash
  Swept,        \* bound: the sessions the timer may clean up
  BindsToFrom,  \* the servers whose MysqlDao::AuthFriendApply binds (to, from)
  ListsApplies, \* the servers whose MysqlDao::GetApplyList fits the schema
  ListLimit     \* the limit of its SELECT, ten

Ask == [kind : {"text", "apply", "accept"}, from : Users, to : Users]

ASSUME ChatDeliveryAssumption ==
  /\ Requests \in [Servers -> Seq(Ask)]
  /\ {BindsToFrom, ListsApplies, Mortal} \subseteq SUBSET Servers
  /\ Swept \subseteq Sessions /\ {MaxFlaws, ListLimit} \subseteq Nat

VARIABLES
  begun,     \* requests each server has begun
  dpc,       \* where the handler is, per server
  calls,     \* GetSession and Send of the handlers, also in gRPC threads
  flaw,      \* what went wrong in the running handler: "none", "db", "rpc"
  flaws,     \* failures so far (bound)
  applies,   \* friend_apply: rows [from, to, settled]
  friends,   \* friend_list: rows [self, friend]
  listed,    \* apply_list of the login a server is handling
  before,    \* history: the requests answered, without a failure, before
             \* the running one was begun
  answered,  \* history: the requests answered, what went wrong, and before
  pushed,    \* history: the messages queued in a session, and whether one was
             \* queued again
  latest,    \* history: the session of the latest login of each user that has
             \* begun to write the keys, once it has written them all
  watched    \* history: the session the target has been on, undisturbed,
             \* since the running handler started

failure == <<flaw, flaws>>
handler == <<begun, dpc, calls, failure>>
mysql == <<applies, friends>>
outcome == <<listed, before, answered, pushed>>
history == <<latest, watched>>
dvars == <<vars, handler, mysql, outcome, history>>

Row == [from : Users, to : Users, settled : BOOLEAN]
DeliveryPcs == {"idle", "write", "befriend", "find", "call", "answer"}
Msg == UNION {[srv : {a}, n : 1 .. Len(Requests[a])] : a \in Servers}
Running(a) == [srv |-> a, n |-> begun[a]]
AskOf(m) == Requests[m.srv][m.n]
Asked(a) == AskOf(Running(a))

AnsweredWell(m) == \E x \in answered : x.msg = m /\ x.flaw = "none"

Goto(a, pc) == dpc' = [dpc EXCEPT ![a] = pc]

\* GetFriendApplyInfo: the applications to u that are not settled, as many as
\* the limit allows.  On a server whose columns do not fit, the conversion of
\* the first row throws, and the answer to the login has no list.
ApplyLists(a, u) ==
  LET open == {r \in applies : r.to = u /\ ~r.settled}
  IN IF a \notin ListsApplies THEN {{}}
     ELSE {list \in SUBSET open : IF Cardinality(open) <= ListLimit
                                  THEN list = open
                                  ELSE Cardinality(list) = ListLimit}

\* User u is on session s, that of the latest login, and none is under way.
Undisturbed(u, s) ==
  /\ s = latest[u] /\ s \in Live(u) /\ sock[s] = "open"
  /\ \A a \in Servers : lpc[a] # "idle" => cur[a].uid # u
Steady(u) == IF Undisturbed(u, latest[u]) THEN latest[u] ELSE Nil

\* The histories, part of every step.  A login that writes uip ends the one
\* before it, also when it gets no further than that.
Passes(u, from, to) ==
  \E a \in Servers : lpc[a] = from /\ lpc'[a] = to /\ cur[a].uid = u
Watch ==
  /\ latest' = [u \in Users |->
       IF Passes(u, "setIp", "setMgr") THEN Nil
       ELSE IF Passes(u, "setKey", "release") THEN usession'[u] ELSE latest[u]]
  /\ watched' = [a \in Servers |->
       IF /\ dpc'[a] # "idle"
          /\ dpc[a] = "idle" \/ watched[a] = Steady(Asked(a).to)'
       THEN Steady(Asked(a).to)' ELSE Nil]

DeliveryInit ==
  /\ Init
  /\ begun = [a \in Servers |-> 0]
  /\ dpc = [a \in Servers |-> "idle"]
  /\ calls = {}
  /\ flaw = [a \in Servers |-> "none"] /\ flaws = 0
  /\ applies = {} /\ friends = {}
  /\ listed = [a \in Servers |-> {}]
  /\ before = [a \in Servers |-> {}]
  /\ answered = {} /\ pushed = {}
  /\ latest = [u \in Users |-> Nil]
  /\ watched = [a \in Servers |-> Nil]
-----------------------------------------------------------------------------
(* The handlers.                                                           *)

\* DealMsg takes the next request instead of a login.
StartDelivery(a) ==
  /\ lpc[a] = "idle" /\ dpc[a] = "idle" /\ begun[a] < Len(Requests[a])
  /\ begun' = [begun EXCEPT ![a] = @ + 1]
  /\ Goto(a, IF Requests[a][begun'[a]].kind = "text" THEN "find" ELSE "write")
  /\ flaw' = [flaw EXCEPT ![a] = "none"]
  /\ before' = [before EXCEPT ![a] = {m \in Msg : AnsweredWell(m)}]
  /\ UNCHANGED <<vars, calls, flaws, mysql, listed, answered, pushed>>

\* Mutant: only an application that cannot be pushed is kept.
WriteApply_IfOffline(a) ==
  LET r == Asked(a)
  IN /\ dpc[a] = "write" /\ r.kind = "apply"
     /\ applies' = IF uip[r.to] # Nil THEN applies
                   ELSE applies \cup {[from |-> r.from, to |-> r.to,
                                       settled |-> FALSE]}
     /\ Goto(a, "find")
     /\ UNCHANGED <<vars, begun, calls, failure, friends, outcome>>

\* MysqlDao::AddFriendApply: a row that exists stays as it is.
WriteApply(a) ==
  LET r == Asked(a)
  IN /\ dpc[a] = "write" /\ r.kind = "apply"
     /\ applies' = IF \E q \in applies : q.from = r.from /\ q.to = r.to
                   THEN applies
                   ELSE applies \cup {[from |-> r.from, to |-> r.to,
                                       settled |-> FALSE]}
     /\ Goto(a, "find")
     /\ UNCHANGED <<vars, begun, calls, failure, friends, outcome>>

\* The row that the handler of a settles, if it is there: the user who accepts
\* is the request's from, who was the application's to; only BindsToFrom's DAO
\* allows for it.
Settles(a, q) ==
  LET r == Asked(a)
  IN IF a \in BindsToFrom THEN q.from = r.to /\ q.to = r.from
                          ELSE q.from = r.from /\ q.to = r.to

\* Mutant: an applicant who is not online is answered at once.
SettleApply_FindFirst(a) ==
  /\ dpc[a] = "write" /\ Asked(a).kind = "accept"
  /\ applies' = {IF Settles(a, q) THEN [q EXCEPT !.settled = TRUE] ELSE q :
                   q \in applies}
  /\ Goto(a, IF uip[Asked(a).to] = Nil THEN "answer" ELSE "befriend")
  /\ UNCHANGED <<vars, begun, calls, failure, friends, outcome>>

\* Mutant: both servers bind (from, to).
SettleApply_AsApplied(a) ==
  LET r == Asked(a)
  IN /\ dpc[a] = "write" /\ r.kind = "accept"
     /\ applies' = {IF q.from = r.from /\ q.to = r.to
                    THEN [q EXCEPT !.settled = TRUE] ELSE q : q \in applies}
     /\ Goto(a, "befriend")
     /\ UNCHANGED <<vars, begun, calls, failure, friends, outcome>>

\* MysqlDao::AuthFriendApply.
SettleApply(a) ==
  /\ dpc[a] = "write" /\ Asked(a).kind = "accept"
  /\ applies' = {IF Settles(a, q) THEN [q EXCEPT !.settled = TRUE] ELSE q :
                   q \in applies}
  /\ Goto(a, "befriend")
  /\ UNCHANGED <<vars, begun, calls, failure, friends, outcome>>

\* MysqlDao::AddFriend, a transaction of its own, for one direction.
AddFriend(a) ==
  /\ dpc[a] = "befriend"
  /\ friends' = friends \cup {[self |-> Asked(a).from, friend |-> Asked(a).to]}
  /\ Goto(a, "find")
  /\ UNCHANGED <<vars, begun, calls, failure, applies, outcome>>

\* A statement fails; its result is not looked at.
WriteFails(a) ==
  /\ flaws < MaxFlaws /\ dpc[a] \in {"write", "befriend"}
  /\ flaws' = flaws + 1
  /\ flaw' = [flaw EXCEPT ![a] = "db"]
  /\ Goto(a, IF dpc[a] = "write" /\ Asked(a).kind = "accept"
             THEN "befriend" ELSE "find")
  /\ UNCHANGED <<vars, begun, calls, mysql, outcome>>

\* Mutant: the result of Get is not looked at.
FindServer_NoCheck(a) ==
  LET to == Asked(a).to
  IN /\ dpc[a] = "find"
     /\ Goto(a, "call")
     /\ calls' = calls \cup {[msg |-> Running(a), at |-> uip[to], to |-> to,
                              sess |-> Nil]}
     /\ UNCHANGED <<vars, begun, failure, mysql, outcome>>

\* The target is in Redis: call the server it is on, which may be this one.
\* It is not: answer, and that is all.
FindServer(a) ==
  LET to == Asked(a).to
  IN /\ dpc[a] = "find"
     /\ IF uip[to] = Nil
        THEN Goto(a, "answer") /\ UNCHANGED calls
        ELSE /\ Goto(a, "call")
             /\ calls' = calls \cup {[msg |-> Running(a), at |-> uip[to],
                                      to |-> to, sess |-> Nil]}
     /\ UNCHANGED <<vars, begun, failure, mysql, outcome>>

\* Mutant: the push to another server is not waited for.
CallReturns_Early(a) ==
  /\ dpc[a] = "call"
  /\ Goto(a, "answer")
  /\ UNCHANGED <<vars, begun, calls, failure, mysql, outcome>>

\* The call has returned, whatever its result.
CallReturns(a) ==
  /\ dpc[a] = "call" /\ \A c \in calls : c.msg # Running(a)
  /\ Goto(a, "answer")
  /\ UNCHANGED <<vars, begun, calls, failure, mysql, outcome>>

\* The deferred answer to the sender: Success, also after a failure.
Answer(a) ==
  /\ dpc[a] = "answer"
  /\ Goto(a, "idle")
  /\ answered' = answered \cup {[msg |-> Running(a), flaw |-> flaw[a],
                                    before |-> before[a]]}
  /\ UNCHANGED <<vars, begun, calls, failure, mysql, listed, before, pushed>>
-----------------------------------------------------------------------------
(* The call, in the handler itself or in a gRPC thread of the target's     *)
(* server: neither waits for that server's logic thread.                   *)

\* UserMgr::GetSession; without a session the call is over.
CallLookup(c) ==
  LET s == userSession[c.at][c.to]
  IN /\ c.sess = Nil
     /\ calls' = (calls \ {c}) \cup
                   IF s = Nil THEN {} ELSE {[c EXCEPT !.sess = s]}
     /\ UNCHANGED <<vars, begun, dpc, failure, mysql, outcome>>

\* A push of call c, which may have pushed before.
Pushed(c) == [msg |-> c.msg, sess |-> c.sess,
              again |-> \E p \in pushed : p.msg = c.msg]

\* Mutant: the call is made again.
CallPush_Retried(c) ==
  /\ c.sess # Nil
  /\ Send(c.sess)
  /\ pushed' = pushed \cup {Pushed(c)}
  /\ calls' = calls
  /\ UNCHANGED <<redis, tables, queue, logic, userUid, sock, reader, entering,
                 cleanup, deaths, begun, dpc, failure, mysql, listed,
                 before, answered>>

\* CSession::Send of the notification.
CallPush(c) ==
  /\ c.sess # Nil
  /\ Send(c.sess)
  /\ pushed' = pushed \cup {Pushed(c)}
  /\ calls' = calls \ {c}
  /\ UNCHANGED <<redis, tables, queue, logic, userUid, sock, reader, entering,
                 cleanup, deaths, begun, dpc, failure, mysql, listed,
                 before, answered>>

\* The handler of server a is waiting for call c.
WaitsFor(a, c) == dpc[a] = "call" /\ c.msg = Running(a)

\* The RPC fails before it reaches the other server; nobody looks at that.
CallFails(c) ==
  /\ flaws < MaxFlaws /\ c.sess = Nil /\ c.at # c.msg.srv
  /\ flaws' = flaws + 1
  /\ calls' = calls \ {c}
  /\ flaw' = [a \in Servers |-> IF WaitsFor(a, c) THEN "rpc" ELSE flaw[a]]
  /\ UNCHANGED <<vars, begun, dpc, mysql, outcome>>
-----------------------------------------------------------------------------
(* Logins, clean-ups and crashes around the handlers.                      *)

LoginStarts(a) == lpc[a] = "idle" /\ lpc'[a] # "idle"

\* A login that starts reads the user's applications.
ReadApplies(a) ==
  /\ StartLogin(a)
  /\ \E list \in ApplyLists(a, cur'[a].uid) :
       listed' = [listed EXCEPT ![a] = list]
  /\ UNCHANGED failure

\* The statement fails; the login goes on without.
ReadFails(a) ==
  /\ flaws < MaxFlaws /\ a \in ListsApplies
  /\ StartLogin(a)
  /\ flaws' = flaws + 1
  /\ listed' = [listed EXCEPT ![a] = {}]
  /\ UNCHANGED flaw

\* SessionBinding's steps.  A server that is delivering starts no login, and
\* its queue is locked.
BindingStep ==
  /\ crashes' = crashes
  /\ Next
  /\ \A s \in Sessions \ Swept : epc'[TimerOf(s)] = "idle"
  /\ \A a \in Servers :
       dpc[a] # "idle" => lpc'[a] = lpc[a] /\ queue'[a] = queue[a]
  /\ \/ \E a \in Servers : ReadApplies(a) \/ ReadFails(a)
     \/ /\ \A a \in Servers : ~LoginStarts(a)
        /\ listed' = [a \in Servers |->
                        IF lpc'[a] = "idle" THEN {} ELSE listed[a]]
        /\ UNCHANGED failure
  /\ UNCHANGED <<begun, dpc, calls, mysql, before, answered, pushed>>

\* SessionBinding's crash.  The calls inside the process are gone, and those of
\* other servers to it fail; what its handler has called on another server goes
\* on there, with nobody to come back to.
CrashStep(a) ==
  /\ a \in Mortal /\ flaws < MaxFlaws
  /\ Crash(a)
  /\ flaws' = flaws + 1
  /\ Goto(a, "idle")
  /\ calls' = {c \in calls : c.at # a}
  /\ flaw' = [b \in Servers |->
                IF b # a /\ \E c \in calls : c.at = a /\ WaitsFor(b, c)
                THEN "rpc" ELSE flaw[b]]
  /\ listed' = [listed EXCEPT ![a] = {}]
  /\ UNCHANGED <<begun, mysql, before, answered, pushed>>

HandlerStep(a) ==
  \/ StartDelivery(a) \/ WriteApply(a) \/ SettleApply(a) \/ AddFriend(a)
  \/ WriteFails(a) \/ FindServer(a) \/ CallReturns(a) \/ Answer(a)

CallStep(c) == CallLookup(c) \/ CallPush(c) \/ CallFails(c)

DeliveryNext ==
  /\ \/ \E a \in Servers : HandlerStep(a)
     \/ \E c \in calls : CallStep(c)
     \/ \E a \in Servers : CrashStep(a)
     \/ BindingStep
  /\ Watch

DeliverySpec == DeliveryInit /\ [][DeliveryNext]_dvars
-----------------------------------------------------------------------------
(* What must hold.                                                         *)

\* Types of the handlers' variables.
DeliveryTypeOK ==
  /\ begun \in [Servers -> Nat]
  /\ \A a \in Servers : begun[a] <= Len(Requests[a])
  /\ dpc \in [Servers -> DeliveryPcs]
  /\ \A a \in Servers : dpc[a] # "idle" => begun[a] > 0
  /\ calls \subseteq [msg : Msg, at : Servers, to : Users,
                     sess : Sessions \cup {Nil}]
  /\ flaw \in [Servers -> {"none", "db", "rpc"}] /\ flaws \in 0 .. MaxFlaws
  /\ applies \subseteq Row /\ friends \subseteq [self : Users, friend : Users]
  /\ listed \in [Servers -> SUBSET Row] /\ before \in [Servers -> SUBSET Msg]
  /\ answered \subseteq [msg : Msg, flaw : {"none", "db", "rpc"},
                        before : SUBSET Msg]
  /\ pushed \subseteq [msg : Msg, sess : Sessions, again : BOOLEAN]
  /\ latest \in [Users -> Sessions \cup {Nil}]
  /\ watched \in [Servers -> Sessions \cup {Nil}]

\* A message for a user who is logged in and whom nobody disturbs reaches the
\* latest login, wherever in the cluster it is and whatever the clean-ups of the
\* former ones are doing meanwhile, those included that no kick has reached.
SteadyIsPushed ==
  \A a \in Servers :
    dpc[a] = "answer" /\ watched[a] # Nil /\ flaw[a] # "rpc" =>
      \E p \in pushed : p.msg = Running(a) /\ p.sess = watched[a]

\* The settled applications without a friendship of the two users, in either
\* direction, that no handler is about to write.
Parted ==
  {q \in applies :
     /\ q.settled
     /\ {[self |-> q.from, friend |-> q.to],
         [self |-> q.to, friend |-> q.from]} \cap friends = {}
     /\ \A a \in Servers : ~(dpc[a] = "befriend" /\ Settles(a, q))}

\* The two statements of an acceptance are two transactions.  The tables they
\* write differ in no more rows than statements failed or handlers died, also
\* when several servers accept, and an application or acceptance is repeated.
PartedByFlaws == Cardinality(Parted) <= flaws

\* The messages of a server's clients are pushed in the order they were sent,
\* also when the target moves to another server in between.  A crash may leave a
\* push behind that is overtaken, but no message is ever pushed twice, neither
\* to two sessions nor to one.
InOrder ==
  [][\A p \in pushed' \ pushed : \A q \in pushed :
       p.msg.srv = q.msg.srv =>
         q.msg.n < p.msg.n \/ (crashes > 0 /\ p.msg # q.msg)]_dvars

Between(u, v) == {[kind |-> "accept", from |-> u, to |-> v],
                  [kind |-> "accept", from |-> v, to |-> u]}
AcceptBegun(u, v) ==
  \E m \in Msg : m.n <= begun[m.srv] /\ AskOf(m) \in Between(u, v)

\* An application whose sender has been answered is in the list of every login
\* of its target that starts afterwards, until its acceptance was begun: what no
\* push could deliver is seen at the next login.  That is so on a server whose
\* columns fit, when the read does not fail and the list is not full.
AppliedIsListed ==
  [][\A a \in ListsApplies, m \in Msg :
       LET r == AskOf(m)
       IN /\ LoginStarts(a) /\ flaws' = flaws
          /\ AnsweredWell(m) /\ r.kind = "apply"
          /\ cur'[a].uid = r.to /\ ~AcceptBegun(r.from, r.to)
          => \/ \E q \in listed'[a] : q.from = r.from
             \/ Cardinality(listed'[a]) = ListLimit]_dvars

\* An application that was answered before its acceptance was begun, through a
\* server that binds (to, from), does not come back at a login after that,
\* although two servers write the table and the application may be repeated.
AcceptedIsSettled ==
  [][\A a \in Servers, x \in answered :
       LET r == AskOf(x.msg)
       IN /\ LoginStarts(a) /\ x.flaw = "none" /\ r.kind = "accept"
          /\ x.msg.srv \in BindsToFrom /\ cur'[a].uid = r.from
          /\ \E m \in x.before :
               AskOf(m) = [kind |-> "apply", from |-> r.to, to |-> r.from]
          => \A q \in listed'[a] : q.from # r.to]_dvars
=============================================================================
