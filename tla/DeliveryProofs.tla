--------------------------- MODULE DeliveryProofs ---------------------------
(***************************************************************************)
(* What the handlers of texts, applications and acceptances promise holds  *)
(* for every cluster, every sequence of requests, and any number of        *)
(* crashes and failures: a push reaches the user whom nobody disturbs,     *)
(* pushes keep their order and come once, an application is listed until   *)
(* it is accepted and not afterwards, if there is room in the list, and    *)
(* the two tables of an acceptance part only where something failed.       *)
(***************************************************************************)
EXTENDS ChatDelivery, RouteProofs, FiniteSetTheorems
-----------------------------------------------------------------------------
(* The invariant.                                                          *)

\* Where a handler is fits its request.
KindInv == \A a \in Servers : dpc[a] = "befriend" => Asked(a).kind = "accept"

\* A call is that of a request that was begun, asks for its target, and is the
\* request's only one.  There is none before the handler has found a server nor
\* after it was waited for, and without a crash none without its handler.
CallsBegun ==
  \A c \in calls : c.msg.n <= begun[c.msg.srv] /\ c.to = AskOf(c.msg).to
OneCall == \A c, d \in calls : c.msg = d.msg => c = d
CallsInPlace ==
  \A a \in Servers : dpc[a] \notin {"idle", "call"} =>
    \A c \in calls : c.msg # Running(a)
CallsWaitedFor == crashes = 0 => \A c \in calls : WaitsFor(c.msg.srv, c)
CallInv == CallsBegun /\ OneCall /\ CallsInPlace /\ CallsWaitedFor

\* A push is that of a request that was begun, and its call is over.
PushesBegun == \A p \in pushed : p.msg.n <= begun[p.msg.srv]
PushesOver == \A p \in pushed : \A c \in calls : p.msg # c.msg
PushesInPlace ==
  \A a \in Servers : dpc[a] \in {"write", "befriend", "find"} =>
    \A p \in pushed : p.msg # Running(a)
PushInv == PushesBegun /\ PushesOver /\ PushesInPlace

\* The keys in Redis are those of the latest login until its session is closed,
\* and no other login of the user is writing them.
LatestInv ==
  \A u \in Users : latest[u] # Nil =>
    /\ sock[latest[u]] # "closed" =>
         usession[u] = latest[u] /\ uip[u] = Home[latest[u]]
    /\ \A a \in Servers :
         lpc[a] \in {"setMgr", "setKey"} => cur[a].uid # u

\* The session that a handler's target has been on is still undisturbed.
WatchInv ==
  \A a \in Servers : watched[a] # Nil =>
    dpc[a] # "idle" /\ Undisturbed(Asked(a).to, watched[a])

\* Unless the RPC fails, the call goes to that session and pushes.
IsPushed(a) == \E p \in pushed : p.msg = Running(a) /\ p.sess = watched[a]
IsCalled(a) ==
  \E c \in calls : /\ c.msg = Running(a) /\ c.at = Home[watched[a]]
                   /\ c.sess \in {Nil, watched[a]}
SteadyInv ==
  \A a \in Servers : watched[a] # Nil /\ flaw[a] # "rpc" =>
    /\ dpc[a] = "call" => IsPushed(a) \/ IsCalled(a)
    /\ dpc[a] = "answer" => IsPushed(a)

\* The row of an application from u to v.
RowOf(u, v) == {q \in applies : q.from = u /\ q.to = v}
Kept(u, v) == RowOf(u, v) # {}
Settled1(u, v) == \E q \in RowOf(u, v) : q.settled

\* friend_apply has one row for two users, settled only by an acceptance.
RowInv ==
  /\ \A q, r \in applies : q.from = r.from /\ q.to = r.to => q = r
  /\ \A q \in applies : q.settled => AcceptBegun(q.from, q.to)

\* An application without a failure has its row, from its write on.
ApplyInv ==
  /\ \A m \in Msg : AnsweredWell(m) /\ AskOf(m).kind = "apply" =>
       Kept(AskOf(m).from, AskOf(m).to)
  /\ \A a \in Servers :
       /\ dpc[a] \in {"find", "call", "answer"} /\ flaw[a] = "none"
       /\ Asked(a).kind = "apply"
       => Kept(Asked(a).from, Asked(a).to)

\* r accepts an application that is among the requests ms.
Accepts(r, ms) ==
  /\ r.kind = "accept"
  /\ \E m \in ms : AskOf(m) = [kind |-> "apply", from |-> r.to, to |-> r.from]

\* An acceptance without a failure of an application answered before it has
\* settled the application's row, from its write on.
AcceptInv ==
  /\ \A a \in Servers : \A m \in before[a] : AnsweredWell(m)
  /\ \A x \in answered :
       /\ x.flaw = "none" /\ x.msg.srv \in BindsToFrom
       /\ Accepts(AskOf(x.msg), x.before)
       => Settled1(AskOf(x.msg).to, AskOf(x.msg).from)
  /\ \A a \in BindsToFrom :
       /\ dpc[a] \in {"befriend", "find", "call", "answer"} /\ flaw[a] = "none"
       /\ Accepts(Asked(a), before[a])
       => Settled1(Asked(a).to, Asked(a).from)
-----------------------------------------------------------------------------
(* Requests.                                                               *)

\* A message is a server and a place in its requests.
LEMMA MsgShape ==
  ASSUME ChatDeliveryAssumption, NEW m \in Msg
  PROVE  /\ m.srv \in Servers /\ m.n \in 1 .. Len(Requests[m.srv]) /\ m.n \in Nat
         /\ m = [srv |-> m.srv, n |-> m.n]
         /\ AskOf(m) \in Ask
<1>1. PICK a \in Servers : m \in [srv : {a}, n : 1 .. Len(Requests[a])]
  BY DEF Msg
<1>2. Requests[a] \in Seq(Ask)
  BY DEF ChatDeliveryAssumption
<1>3. m.srv = a /\ m.n \in 1 .. Len(Requests[a])
  BY <1>1
<1>4. Requests[a][m.n] \in Ask
  BY <1>2, <1>3
<1>5. m = [srv |-> m.srv, n |-> m.n]
  BY <1>1
<1>6. QED
  BY <1>2, <1>3, <1>4, <1>5 DEF AskOf

LEMMA SameMsg ==
  ASSUME ChatDeliveryAssumption, NEW k \in Msg, NEW m \in Msg,
         k.srv = m.srv, k.n = m.n
  PROVE  k = m
BY MsgShape

\* The request a handler is running.
LEMMA RunningType ==
  ASSUME ChatDeliveryAssumption, DeliveryTypeOK, NEW a \in Servers, begun[a] > 0
  PROVE  /\ Running(a) \in Msg /\ Asked(a) \in Ask
         /\ Running(a).srv = a /\ Running(a).n = begun[a]
<1>1. Running(a) = [srv |-> a, n |-> begun[a]]
  BY DEF Running
<1>2. Requests[a] \in Seq(Ask)
  BY DEF ChatDeliveryAssumption
<1>3. begun[a] \in 1 .. Len(Requests[a])
  BY <1>2 DEF DeliveryTypeOK
<1>4. Running(a) \in [srv : {a}, n : 1 .. Len(Requests[a])]
  BY <1>1, <1>3
<1>5. Running(a) \in Msg
  BY <1>4 DEF Msg
<1>6. QED
  BY <1>1, <1>5, MsgShape DEF Asked

LEMMA AskShape ==
  ASSUME NEW r \in Ask
  PROVE  /\ r.kind \in {"text", "apply", "accept"}
         /\ r.from \in Users /\ r.to \in Users
BY DEF Ask

\* The place of a handler that runs.
LEMMA RunningAsk ==
  ASSUME ChatDeliveryAssumption, DeliveryTypeOK, NEW a \in Servers,
         dpc[a] # "idle"
  PROVE  /\ begun[a] > 0 /\ Running(a) \in Msg /\ Asked(a) \in Ask
         /\ Running(a).srv = a /\ Running(a).n = begun[a]
         /\ Asked(a).from \in Users /\ Asked(a).to \in Users
<1>1. begun[a] > 0
  BY DEF DeliveryTypeOK
<1>2. QED
  BY <1>1, RunningType, AskShape
-----------------------------------------------------------------------------
(* Types.                                                                  *)

LEMMA InitDeliveryType ==
  SessionBindingAssumption /\ ChatDeliveryAssumption /\ DeliveryInit
    => DeliveryTypeOK
<1> SUFFICES ASSUME SessionBindingAssumption, ChatDeliveryAssumption,
                    DeliveryInit
             PROVE  DeliveryTypeOK
  OBVIOUS
<1>1. \A a \in Servers : Requests[a] \in Seq(Ask)
  BY DEF ChatDeliveryAssumption
<1>2. ASSUME NEW a \in Servers
      PROVE  Len(Requests[a]) \in Nat
  <2>1. Requests[a] \in Seq(Ask)
    BY <1>1
  <2>2. QED
    BY <2>1
<1>3. MaxFlaws \in Nat
  BY DEF ChatDeliveryAssumption
<1>4. QED
  BY <1>2, <1>3 DEF DeliveryInit, DeliveryTypeOK, DeliveryPcs

\* The row of a request.
LEMMA RowType ==
  ASSUME NEW u \in Users, NEW v \in Users, NEW b \in BOOLEAN
  PROVE  [from |-> u, to |-> v, settled |-> b] \in Row
BY DEF Row

LEMMA WatchType ==
  ASSUME DeliveryTypeOK, TypeOK', Watch
  PROVE  /\ latest' \in [Users -> Sessions \cup {Nil}]
         /\ watched' \in [Servers -> Sessions \cup {Nil}]
<1>1. latest' \in [Users -> Sessions \cup {Nil}]
  <2>1. \A u \in Users : usession'[u] \in Sessions \cup {Nil}
    BY DEF TypeOK, Uids
  <2>2. QED
    BY <2>1 DEF Watch, DeliveryTypeOK
<1>2. \A u : Steady(u)' \in Sessions \cup {Nil}
  <2>1. members' \subseteq Sessions
    BY DEF TypeOK
  <2>2. QED
    BY <2>1 DEF Steady, Undisturbed, Live
<1>3. QED
  BY <1>1, <1>2 DEF Watch

\* The handlers keep the types.
LEMMA HandlerStepType ==
  ASSUME ChatDeliveryAssumption, TypeOK, DeliveryTypeOK, NEW a \in Servers,
         HandlerStep(a), Watch, TypeOK'
  PROVE  DeliveryTypeOK'
<1> USE DEF DeliveryTypeOK, Goto, handler, failure, mysql, outcome, DeliveryPcs
<1>w. /\ latest' \in [Users -> Sessions \cup {Nil}]
      /\ watched' \in [Servers -> Sessions \cup {Nil}]
  BY WatchType
<1>r. dpc[a] # "idle" =>
        /\ Running(a) \in Msg /\ Asked(a).from \in Users /\ Asked(a).to \in Users
  BY RunningAsk
<1>1. CASE StartDelivery(a)
  <2>1. Requests[a] \in Seq(Ask)
    BY DEF ChatDeliveryAssumption
  <2>2. Len(Requests[a]) \in Nat /\ begun[a] < Len(Requests[a])
    BY <1>1, <2>1 DEF StartDelivery
  <2>3. /\ begun' = [begun EXCEPT ![a] = begun[a] + 1]
        /\ begun' \in [Servers -> Nat]
    BY <1>1 DEF StartDelivery
  <2>4. /\ \A b \in Servers : begun'[b] <= Len(Requests[b])
        /\ begun'[a] > 0
    BY <2>2, <2>3
  <2>5. dpc' \in [Servers -> DeliveryPcs]
    BY <1>1 DEF StartDelivery
  <2>6. \A b \in Servers : dpc'[b] # "idle" => begun'[b] > 0
    BY <1>1, <2>3, <2>4 DEF StartDelivery
  <2>7. before' \in [Servers -> SUBSET Msg]
    BY <1>1 DEF StartDelivery
  <2>8. flaw' \in [Servers -> {"none", "db", "rpc"}]
    BY <1>1 DEF StartDelivery
  <2>9. QED
    BY <1>1, <1>w, <2>3, <2>4, <2>5, <2>6, <2>7, <2>8 DEF StartDelivery
<1>2. CASE WriteApply(a)
  <2>1. [from |-> Asked(a).from, to |-> Asked(a).to, settled |-> FALSE] \in Row
    BY <1>2, <1>r, RowType DEF WriteApply
  <2>2. applies' \subseteq Row
    BY <1>2, <2>1 DEF WriteApply
  <2>3. QED
    BY <1>2, <1>w, <2>2 DEF WriteApply
<1>3. CASE SettleApply(a)
  <2>1. \A q \in Row : [q EXCEPT !.settled = TRUE] \in Row
    BY DEF Row
  <2>2. applies' \subseteq Row
    BY <1>3, <2>1 DEF SettleApply
  <2>3. QED
    BY <1>3, <1>w, <2>2 DEF SettleApply
<1>4. CASE AddFriend(a)
  <2>1. friends' \subseteq [self : Users, friend : Users]
    BY <1>4, <1>r DEF AddFriend
  <2>2. QED
    BY <1>4, <1>w, <2>1 DEF AddFriend
<1>5. CASE WriteFails(a)
  <2>1. flaws' \in 0 .. MaxFlaws
    BY <1>5 DEF WriteFails, ChatDeliveryAssumption
  <2>2. /\ dpc' \in [Servers -> DeliveryPcs]
        /\ flaw' \in [Servers -> {"none", "db", "rpc"}]
        /\ \A b \in Servers : dpc'[b] # "idle" => dpc[b] # "idle"
    BY <1>5 DEF WriteFails
  <2>3. QED
    BY <1>5, <1>w, <2>1, <2>2 DEF WriteFails
<1>6. CASE FindServer(a)
  <2>1. Asked(a).to \in Uids
    BY <1>6, <1>r DEF FindServer, Uids
  <2>2. uip[Asked(a).to] \in Servers \cup {Nil}
    BY <2>1 DEF TypeOK
  <2>3. calls' \subseteq [msg : Msg, at : Servers, to : Users,
                         sess : Sessions \cup {Nil}]
    BY <1>6, <1>r, <2>2 DEF FindServer
  <2>4. /\ dpc' \in [Servers -> DeliveryPcs]
        /\ \A b \in Servers : dpc'[b] # "idle" => dpc[b] # "idle"
    BY <1>6 DEF FindServer
  <2>5. QED
    BY <1>6, <1>w, <2>3, <2>4 DEF FindServer
<1>7. CASE CallReturns(a)
  BY <1>7, <1>w DEF CallReturns
<1>8. CASE Answer(a)
  <2>1. answered' \subseteq [msg : Msg, flaw : {"none", "db", "rpc"},
                            before : SUBSET Msg]
    BY <1>8, <1>r DEF Answer
  <2>2. QED
    BY <1>8, <1>w, <2>1 DEF Answer
<1>9. QED
  BY <1>1, <1>2, <1>3, <1>4, <1>5, <1>6, <1>7, <1>8 DEF HandlerStep

\* The calls keep the types.
LEMMA CallStepType ==
  ASSUME ChatDeliveryAssumption, TypeOK, DeliveryTypeOK, NEW c \in calls,
         CallStep(c), Watch, TypeOK'
  PROVE  DeliveryTypeOK'
<1> USE DEF DeliveryTypeOK, handler, failure, mysql, outcome
<1>w. /\ latest' \in [Users -> Sessions \cup {Nil}]
      /\ watched' \in [Servers -> Sessions \cup {Nil}]
  BY WatchType
<1>1. CASE CallLookup(c)
  <2>1. c.to \in Uids /\ c.at \in Servers
    BY DEF Uids
  <2>2. userSession[c.at][c.to] \in Sessions \cup {Nil}
    BY <2>1 DEF TypeOK
  <2>3. calls' \subseteq [msg : Msg, at : Servers, to : Users,
                         sess : Sessions \cup {Nil}]
    BY <1>1, <2>2 DEF CallLookup
  <2>4. QED
    BY <1>1, <1>w, <2>3 DEF CallLookup
<1>2. CASE CallPush(c)
  <2>1. Pushed(c) \in [msg : Msg, sess : Sessions, again : BOOLEAN]
    BY <1>2 DEF CallPush, Pushed
  <2>2. QED
    BY <1>2, <1>w, <2>1 DEF CallPush
<1>3. CASE CallFails(c)
  <2>1. flaws' \in 0 .. MaxFlaws
    BY <1>3 DEF CallFails, ChatDeliveryAssumption
  <2>2. flaw' \in [Servers -> {"none", "db", "rpc"}]
    BY <1>3 DEF CallFails
  <2>3. QED
    BY <1>3, <1>w, <2>1, <2>2 DEF CallFails
<1>4. QED
  BY <1>1, <1>2, <1>3 DEF CallStep

\* Crashes keep the types.
LEMMA CrashStepType ==
  ASSUME ChatDeliveryAssumption, DeliveryTypeOK, NEW a \in Servers,
         CrashStep(a), Watch, TypeOK'
  PROVE  DeliveryTypeOK'
<1> USE DEF DeliveryTypeOK, CrashStep, handler, failure, mysql, outcome
<1>1. /\ latest' \in [Users -> Sessions \cup {Nil}]
      /\ watched' \in [Servers -> Sessions \cup {Nil}]
  BY WatchType
<1>2. flaws' \in 0 .. MaxFlaws
  BY DEF ChatDeliveryAssumption
<1>3. flaw' \in [Servers -> {"none", "db", "rpc"}]
  <2>1. flaw' = [b \in Servers |->
                  IF b # a /\ \E c \in calls : c.at = a /\ WaitsFor(b, c)
                  THEN "rpc" ELSE flaw[b]]
    OBVIOUS
  <2>2. QED
    BY <2>1
<1>4. /\ dpc' \in [Servers -> DeliveryPcs]
      /\ \A b \in Servers : dpc'[b] # "idle" => dpc[b] # "idle"
  BY DEF Goto, DeliveryPcs
<1>5. QED
  BY <1>1, <1>2, <1>3, <1>4

\* Logins and clean-ups keep the types.
LEMMA BindingStepType ==
  ASSUME ChatDeliveryAssumption, DeliveryTypeOK, BindingStep, Watch, TypeOK'
  PROVE  DeliveryTypeOK'
<1> USE DEF DeliveryTypeOK
<1>1. /\ latest' \in [Users -> Sessions \cup {Nil}]
      /\ watched' \in [Servers -> Sessions \cup {Nil}]
  BY WatchType
<1>2. UNCHANGED <<begun, dpc, calls, mysql, before, answered, pushed>>
  BY DEF BindingStep
<1>3. /\ listed' \in [Servers -> SUBSET Row]
      /\ flaw' = flaw /\ flaws' \in 0 .. MaxFlaws
  <2>1. ASSUME NEW a \in Servers, ReadApplies(a)
        PROVE  listed' \in [Servers -> SUBSET Row] /\ UNCHANGED failure
    <3>1. \A u : \A list \in ApplyLists(a, u) : list \subseteq Row
      BY DEF ApplyLists
    <3>2. QED
      BY <2>1, <3>1 DEF ReadApplies
  <2>2. ASSUME NEW a \in Servers, ReadFails(a)
        PROVE  /\ listed' \in [Servers -> SUBSET Row]
               /\ flaw' = flaw /\ flaws' \in 0 .. MaxFlaws
    BY <2>2 DEF ReadFails, ChatDeliveryAssumption
  <2>3. ASSUME listed' = [a \in Servers |->
                            IF lpc'[a] = "idle" THEN {} ELSE listed[a]]
        PROVE  listed' \in [Servers -> SUBSET Row]
    BY <2>3
  <2>4. QED
    BY <2>1, <2>2, <2>3 DEF BindingStep, failure
<1>4. QED
  BY <1>1, <1>2, <1>3 DEF mysql

\* Every step keeps the types.
LEMMA NextDeliveryType ==
  ASSUME ChatDeliveryAssumption, TypeOK, DeliveryTypeOK, [DeliveryNext]_dvars,
         TypeOK'
  PROVE  DeliveryTypeOK'
<1>1. CASE UNCHANGED dvars
  BY <1>1 DEF dvars, handler, failure, mysql, outcome, history, DeliveryTypeOK
<1>2. CASE DeliveryNext
  BY <1>2, HandlerStepType, CallStepType, CrashStepType, BindingStepType
     DEF DeliveryNext
<1>3. QED
  BY <1>1, <1>2
-----------------------------------------------------------------------------
(* What SessionBinding's invariants say holds around the handlers, too: a   *)
(* handler writes nothing of a login, a push only queues a message.         *)

\* A step is one of SessionBinding, or leaves its variables alone but for the
\* write chain of a session.
ChainOnly ==
  UNCHANGED <<redis, tables, queue, logic, userUid, sock, reader, entering,
              cleanup, deaths>>

LEMMA HandlerVars ==
  ASSUME NEW a \in Servers, HandlerStep(a)
  PROVE  UNCHANGED vars
BY DEF HandlerStep, StartDelivery, WriteApply, SettleApply, AddFriend,
       WriteFails, FindServer, CallReturns, Answer

LEMMA StepIsNext ==
  ASSUME DeliveryTypeOK, [DeliveryNext]_dvars
  PROVE  \/ [Next]_vars
         \/ ChainOnly /\ \E s \in Sessions : Send(s)
<1>1. CASE UNCHANGED dvars
  BY <1>1 DEF dvars
<1>2. ASSUME NEW a \in Servers, HandlerStep(a)
      PROVE  UNCHANGED vars
  BY <1>2, HandlerVars
<1>3. ASSUME NEW c \in calls, CallPush(c)
      PROVE  ChainOnly /\ \E s \in Sessions : Send(s)
  <2>1. c.sess \in Sessions
    BY <1>3 DEF CallPush, DeliveryTypeOK
  <2>2. QED
    BY <1>3, <2>1 DEF CallPush, ChainOnly
<1>4. ASSUME NEW c \in calls, CallLookup(c) \/ CallFails(c)
      PROVE  UNCHANGED vars
  BY <1>4 DEF CallLookup, CallFails
<1>5. ASSUME NEW a \in Servers, CrashStep(a)
      PROVE  Next
  BY <1>5 DEF CrashStep, Next
<1>6. CASE BindingStep
  BY <1>6 DEF BindingStep
<1>7. QED
  BY <1>1, <1>2, <1>3, <1>4, <1>5, <1>6 DEF DeliveryNext, CallStep

\* The invariants of logins.
LEMMA ChainType ==
  ASSUME TypeOK, ChainOnly, NEW s \in Sessions, Send(s)
  PROVE  TypeOK'
BY SendType
   DEF TypeOK, AtHome, ChainOnly, redis, tables, logic, reader, cleanup, deaths

LEMMA ChainCleanup ==
  ASSUME CleanupInv, ChainOnly
  PROVE  CleanupInv'
BY DEF ChainOnly, redis, logic, cleanup, CleanupInv, LoginHoldsLock,
       CleanerHoldsLock, CleanedIsClosed, DeletesOwnSession

LEMMA ChainRequest ==
  ASSUME RequestInv, KeyGone, FreshOwnsNot, ChainOnly
  PROVE  RequestInv' /\ KeyGone' /\ FreshOwnsNot'
BY DEF ChainOnly, redis, tables, logic, reader, cleanup, RequestInv, KeyGone,
       FreshOwnsNot, Fresh

LEMMA ChainRoute ==
  ASSUME RouteInv, ChainOnly
  PROVE  RouteInv'
BY DEF ChainOnly, redis, tables, logic, cleanup, RouteInv, Live, Bound,
       LoggingIn, Written, Routed, Leaving, OnTheWayTo

LEMMA ChainServed ==
  ASSUME KeysWritten, ServedInv, ChainOnly
  PROVE  KeysWritten' /\ ServedInv'
BY DEF ChainOnly, redis, tables, logic, KeysWritten, ServedInv, Served

\* What holds of logins whether their kicks get through or not.
LoginInv ==
  /\ TypeOK /\ CleanupInv /\ RequestInv /\ KeyGone
  /\ FreshOwnsNot /\ KeysWritten /\ ServedInv

LEMMA NextTypes ==
  ASSUME SessionBindingAssumption, ChatDeliveryAssumption,
         TypeOK, DeliveryTypeOK, [DeliveryNext]_dvars
  PROVE  TypeOK' /\ DeliveryTypeOK'
BY StepIsNext, NextType, ChainType, NextDeliveryType

LEMMA NextLoginInv ==
  ASSUME SessionBindingAssumption, Exclusive, DeliveryTypeOK, LoginInv,
         [DeliveryNext]_dvars
  PROVE  LoginInv'
<1>1. CASE [Next]_vars
  BY <1>1, NextType, NextCleanup, NextRequest, NextKeyGone, NextFreshOwnsNot,
     NextKeysWritten, NextServed DEF LoginInv
<1>2. ASSUME ChainOnly, NEW s \in Sessions, Send(s)
      PROVE  LoginInv'
  BY <1>2, ChainType, ChainCleanup, ChainRequest, ChainServed DEF LoginInv
<1>3. QED
  BY <1>1, <1>2, StepIsNext

LEMMA NextDeliveryRoute ==
  ASSUME SessionBindingAssumption, Reliable, DeliveryTypeOK, LoginInv, RouteInv,
         [DeliveryNext]_dvars
  PROVE  RouteInv'
BY StepIsNext, NextRoute, ChainRoute DEF LoginInv

\* The types hold in every behaviour of the handlers: a handler that runs has
\* its request, a push always has a session.
THEOREM DeliveryTypeCorrect ==
  ASSUME SessionBindingAssumption, ChatDeliveryAssumption
  PROVE  DeliverySpec => []TypeOK /\ []DeliveryTypeOK
<1>1. DeliveryInit => TypeOK /\ DeliveryTypeOK
  BY InitType, InitDeliveryType DEF DeliveryInit
<1>2. TypeOK /\ DeliveryTypeOK /\ [DeliveryNext]_dvars
        => (TypeOK /\ DeliveryTypeOK)'
  BY NextTypes
<1>3. QED
  BY <1>1, <1>2, PTL DEF DeliverySpec

LEMMA LoginInvHolds ==
  ASSUME SessionBindingAssumption, ChatDeliveryAssumption, Exclusive
  PROVE  DeliverySpec => []LoginInv
<1>1. DeliveryInit => LoginInv
  BY InitType, InitCleanup, InitRequest, InitRoute, InitServed
     DEF DeliveryInit, LoginInv
<1>2. DeliveryTypeOK /\ LoginInv /\ [DeliveryNext]_dvars => LoginInv'
  BY NextLoginInv
<1>3. DeliverySpec => []DeliveryTypeOK
  BY DeliveryTypeCorrect
<1>4. QED
  BY <1>1, <1>2, <1>3, PTL DEF DeliverySpec

\* Pushes, which take no lock, disturb no login: while messages go back and
\* forth a user still has one live session, and all lookups lead to it.
THEOREM DeliveryRouteConsistent ==
  ASSUME SessionBindingAssumption, ChatDeliveryAssumption, Reliable
  PROVE  DeliverySpec => []RouteConsistent /\ []SingleLogin
<1>1. LoginInv /\ RouteInv => RouteConsistent
  <2>1. SUFFICES ASSUME LoginInv, RouteInv, NEW u \in Users, NEW s \in Live(u),
                        lock[u] = Nil
                 PROVE  /\ uip[u] = Home[s] /\ usession[u] = s
                        /\ userSession[Home[s]][u] = s
    BY DEF RouteConsistent
  <2>2. Home[s] \in Servers
    BY <2>1 DEF Live, LoginInv, TypeOK, SessionBindingAssumption
  <2>3. QED
    BY <2>1, <2>2, FreeLockRouted DEF LoginInv
<1>2. RouteConsistent => SingleLogin
  BY DEF RouteConsistent, SingleLogin
<1>3. DeliveryInit => RouteInv
  BY InitRoute DEF DeliveryInit
<1>4. DeliveryTypeOK /\ LoginInv /\ RouteInv /\ [DeliveryNext]_dvars => RouteInv'
  BY NextDeliveryRoute
<1>5. DeliverySpec => []DeliveryTypeOK /\ []LoginInv
  BY DeliveryTypeCorrect, LoginInvHolds DEF Reliable
<1>6. QED
  BY <1>1, <1>2, <1>3, <1>4, <1>5, PTL DEF DeliverySpec
-----------------------------------------------------------------------------
(* Calls and pushes.                                                       *)

\* What the steps leave alone: a handler's step the other handlers, a call and
\* a login all of them, and a crash all but the server's own.
LEMMA HandlerFrame ==
  ASSUME DeliveryTypeOK, NEW a \in Servers, HandlerStep(a)
  PROVE  /\ \A b \in Servers : b # a =>
              /\ begun'[b] = begun[b] /\ dpc'[b] = dpc[b] /\ flaw'[b] = flaw[b]
              /\ before'[b] = before[b]
         /\ begun'[a] \in Nat /\ begun[a] <= begun'[a]
         /\ pushed' = pushed /\ crashes' = crashes
<1> USE DEF DeliveryTypeOK, Goto, handler, failure, mysql, outcome
<1>0. begun[a] \in Nat /\ crashes' = crashes
  BY HandlerVars DEF vars, deaths
<1>1. CASE StartDelivery(a)
  BY <1>0, <1>1 DEF StartDelivery
<1>2. CASE WriteApply(a)
  BY <1>0, <1>2 DEF WriteApply
<1>3. CASE SettleApply(a)
  BY <1>0, <1>3 DEF SettleApply
<1>4. CASE AddFriend(a)
  BY <1>0, <1>4 DEF AddFriend
<1>5. CASE WriteFails(a)
  BY <1>0, <1>5 DEF WriteFails
<1>6. CASE FindServer(a)
  BY <1>0, <1>6 DEF FindServer
<1>7. CASE CallReturns(a)
  BY <1>0, <1>7 DEF CallReturns
<1>8. CASE Answer(a)
  BY <1>0, <1>8 DEF Answer
<1>9. QED
  BY <1>1, <1>2, <1>3, <1>4, <1>5, <1>6, <1>7, <1>8 DEF HandlerStep

LEMMA CallFrame ==
  ASSUME NEW c \in calls, CallStep(c)
  PROVE  UNCHANGED <<begun, dpc, before, listed, answered, applies, crashes>>
BY DEF CallStep, CallLookup, CallPush, CallFails, vars, deaths, handler, mysql,
       outcome

LEMMA CrashFrame ==
  ASSUME DeliveryTypeOK, TypeOK, NEW a \in Servers, CrashStep(a)
  PROVE  /\ UNCHANGED <<begun, before, answered, pushed, applies>>
         /\ dpc'[a] = "idle" /\ \A b \in Servers : b # a => dpc'[b] = dpc[b]
         /\ calls' = {c \in calls : c.at # a}
         /\ crashes' > 0
BY DEF CrashStep, Crash, Goto, DeliveryTypeOK, TypeOK, mysql

LEMMA BindingFrame ==
  ASSUME BindingStep
  PROVE  UNCHANGED <<begun, dpc, calls, flaw, applies, before, answered, pushed,
                     crashes>>
BY DEF BindingStep, ReadApplies, ReadFails, failure, mysql

\* A handler that goes on to "befriend" is settling an acceptance.
LEMMA NextKind ==
  ASSUME ChatDeliveryAssumption, TypeOK, DeliveryTypeOK, KindInv,
         [DeliveryNext]_dvars
  PROVE  KindInv'
<1> USE DEF KindInv, Asked, AskOf, Running
<1>1. CASE UNCHANGED dvars
  BY <1>1 DEF dvars, handler
<1>2. ASSUME NEW a \in Servers, HandlerStep(a)
      PROVE  KindInv'
  <2>1. \A b \in Servers : b # a => begun'[b] = begun[b] /\ dpc'[b] = dpc[b]
    BY <1>2, HandlerFrame
  <2>2. dpc'[a] = "befriend" => begun'[a] = begun[a] /\ Asked(a).kind = "accept"
    BY <1>2 DEF HandlerStep, StartDelivery, WriteApply, SettleApply, AddFriend,
       WriteFails, FindServer, CallReturns, Answer, Goto, DeliveryTypeOK
  <2>3. QED
    BY <2>1, <2>2
<1>3. ASSUME NEW c \in calls, CallStep(c)
      PROVE  KindInv'
  BY <1>3, CallFrame
<1>4. ASSUME NEW a \in Servers, CrashStep(a)
      PROVE  KindInv'
  BY <1>4, CrashFrame
<1>5. CASE BindingStep
  BY <1>5, BindingFrame
<1>6. QED
  BY <1>1, <1>2, <1>3, <1>4, <1>5 DEF DeliveryNext

\* The request that starts has neither a call nor a push.
LEMMA StartCall ==
  ASSUME ChatDeliveryAssumption, TypeOK, DeliveryTypeOK, CallInv, PushInv,
         NEW a \in Servers, StartDelivery(a)
  PROVE  CallInv' /\ PushInv'
<1> USE DEF CallInv, PushInv
<1>1. /\ begun[a] \in Nat /\ begun' = [begun EXCEPT ![a] = begun[a] + 1]
      /\ calls' = calls /\ pushed' = pushed /\ crashes' = crashes
      /\ dpc[a] = "idle" /\ \A b \in Servers : b # a => dpc'[b] = dpc[b]
  BY DEF StartDelivery, Goto, vars, deaths, DeliveryTypeOK, outcome
<1>2. \A m \in Msg : m.n <= begun[m.srv] => m.n <= begun'[m.srv] /\ m # Running(a)'
  <2>1. SUFFICES ASSUME NEW m \in Msg, m.n <= begun[m.srv]
                 PROVE  m.n <= begun'[m.srv] /\ m # Running(a)'
    OBVIOUS
  <2>2. m.srv \in Servers /\ m.n \in Nat /\ begun[m.srv] \in Nat
    BY MsgShape DEF DeliveryTypeOK
  <2>3. begun' \in [Servers -> Nat]
    BY <1>1 DEF DeliveryTypeOK
  <2>4. begun'[m.srv] = IF m.srv = a THEN begun[a] + 1 ELSE begun[m.srv]
    BY <1>1, <2>2 DEF DeliveryTypeOK
  <2>5. m.n <= begun'[m.srv]
    BY <2>1, <2>2, <2>4
  <2>6. Running(a)'.srv = a /\ Running(a)'.n = begun[a] + 1
    BY <1>1, <2>3 DEF Running, DeliveryTypeOK
  <2>7. QED
    BY <2>1, <2>2, <2>5, <2>6
<1>3. (\A c \in calls : c.msg \in Msg) /\ (\A p \in pushed : p.msg \in Msg)
  BY DEF DeliveryTypeOK
<1>4. \A b \in Servers : b # a => Running(b)' = Running(b)
  BY <1>1 DEF Running, DeliveryTypeOK
<1>5. CallsBegun' /\ PushesBegun'
  BY <1>1, <1>2, <1>3 DEF CallsBegun, PushesBegun, AskOf
<1>6. CallsInPlace' /\ PushesInPlace'
  BY <1>1, <1>2, <1>3, <1>4
     DEF CallsBegun, PushesBegun, CallsInPlace, PushesInPlace
<1>7. CallsWaitedFor'
  <2>1. \A c \in calls : c.msg.srv \in Servers
    BY <1>3, MsgShape
  <2>2. QED
    BY <1>1, <1>4, <2>1 DEF CallsWaitedFor, WaitsFor
<1>8. QED
  BY <1>1, <1>5, <1>6, <1>7 DEF OneCall, PushesOver

\* A handler's steps leave the calls and pushes of the others alone, and its own
\* request has at most the call it is about to make.
LEMMA HandlerCall ==
  ASSUME ChatDeliveryAssumption, TypeOK, DeliveryTypeOK, CallInv, PushInv,
         NEW a \in Servers, HandlerStep(a)
  PROVE  CallInv' /\ PushInv'
<1> USE DEF CallInv, PushInv
<1>1. CASE StartDelivery(a)
  BY <1>1, StartCall
<1>2. CASE ~StartDelivery(a)
  <2>1. /\ begun' = begun /\ pushed' = pushed /\ crashes' = crashes
        /\ dpc[a] # "idle" /\ \A b \in Servers : b # a => dpc'[b] = dpc[b]
    BY <1>2, HandlerFrame
       DEF HandlerStep, WriteApply, SettleApply, AddFriend, WriteFails,
           FindServer, CallReturns, Answer, outcome
  <2>2. \A b : Running(b)' = Running(b)
    BY <2>1 DEF Running
  <2>3. Running(a) \in Msg /\ Running(a).srv = a /\ Running(a).n = begun[a]
    BY <2>1, RunningAsk
  <2>4. begun[a] \in Nat
    BY DEF DeliveryTypeOK
  <2>5. /\ \A c \in calls : c.msg \in Msg /\ c.msg.srv \in Servers
        /\ \A p \in pushed : p.msg \in Msg
    BY MsgShape DEF DeliveryTypeOK
  <2>6. CASE ~(FindServer(a) /\ uip[Asked(a).to] # Nil)
    <3>0. calls' = calls
      BY <1>2, <2>6
         DEF HandlerStep, WriteApply, SettleApply, AddFriend, WriteFails,
             FindServer, CallReturns, Answer
    <3>1. CASE dpc[a] = "call"
      <4>1. /\ dpc'[a] = "answer" /\ \A c \in calls : c.msg # Running(a)
        BY <1>2, <3>1
           DEF HandlerStep, WriteApply, SettleApply, AddFriend, WriteFails,
               FindServer, CallReturns, Answer, Goto, DeliveryTypeOK
      <4>2. CallsInPlace'
        BY <2>1, <2>2, <3>0, <4>1 DEF CallsInPlace
      <4>3. CallsWaitedFor'
        BY <2>1, <2>2, <2>5, <3>0, <4>1 DEF CallsWaitedFor, WaitsFor
      <4>4. PushesInPlace'
        BY <2>1, <2>2, <4>1 DEF PushesInPlace
      <4>5. QED
        BY <2>1, <3>0, <4>2, <4>3, <4>4
           DEF CallsBegun, OneCall, PushesBegun, PushesOver, AskOf
    <3>2. CASE dpc[a] # "call"
      <4>1. /\ dpc'[a] \in {"idle", "befriend", "find", "answer"}
            /\ dpc'[a] \in {"befriend", "find"} => dpc[a] \in {"write", "befriend"}
        BY <1>2, <2>6, <3>2
           DEF HandlerStep, WriteApply, SettleApply, AddFriend, WriteFails,
               FindServer, CallReturns, Answer, Goto, DeliveryTypeOK
      <4>2. \A c \in calls : c.msg # Running(a)
        BY <2>1, <3>2 DEF CallsInPlace
      <4>3. CallsInPlace'
        BY <2>1, <2>2, <3>0, <4>2 DEF CallsInPlace
      <4>4. CallsWaitedFor'
        BY <2>1, <2>2, <2>5, <3>0, <3>2 DEF CallsWaitedFor, WaitsFor
      <4>5. PushesInPlace'
        BY <2>1, <2>2, <4>1 DEF PushesInPlace
      <4>6. QED
        BY <2>1, <3>0, <4>3, <4>4, <4>5
           DEF CallsBegun, OneCall, PushesBegun, PushesOver, AskOf
    <3>3. QED
      BY <3>1, <3>2
  <2>7. CASE FindServer(a) /\ uip[Asked(a).to] # Nil
    <3> DEFINE d == [msg |-> Running(a), at |-> uip[Asked(a).to],
                     to |-> Asked(a).to, sess |-> Nil]
    <3>1. calls' = calls \cup {d}
      BY <2>7 DEF FindServer
    <3>2. d.msg = Running(a) /\ d.to = Asked(a).to
      OBVIOUS
    <3>3. dpc[a] = "find" /\ dpc'[a] = "call"
      BY <2>7 DEF FindServer, Goto, DeliveryTypeOK
    <3> HIDE DEF d
    <3>4. /\ \A c \in calls : c.msg # Running(a)
          /\ \A p \in pushed : p.msg # Running(a)
      BY <3>3 DEF CallsInPlace, PushesInPlace
    <3>5. CallsBegun'
      BY <2>1, <2>3, <2>4, <3>1, <3>2 DEF CallsBegun, Asked, AskOf
    <3>6. OneCall' /\ PushesOver'
      BY <2>1, <3>1, <3>2, <3>4 DEF OneCall, PushesOver
    <3>7. CallsInPlace'
      <4>1. \A b \in Servers : b # a => Running(b).srv = b
        BY DEF Running
      <4>2. QED
        BY <2>1, <2>2, <2>3, <3>1, <3>2, <3>3, <4>1 DEF CallsInPlace
    <3>8. CallsWaitedFor'
      BY <2>1, <2>2, <2>3, <2>5, <3>1, <3>2, <3>3 DEF CallsWaitedFor, WaitsFor
    <3>9. PushesBegun' /\ PushesInPlace'
      BY <2>1, <2>2, <3>3 DEF PushesBegun, PushesInPlace
    <3>10. QED
      BY <3>5, <3>6, <3>7, <3>8, <3>9
  <2>8. QED
    BY <2>6, <2>7
<1>3. QED
  BY <1>1, <1>2

\* A call goes on, ends with a push or without: nothing else can push for it.
LEMMA CallStepCall ==
  ASSUME ChatDeliveryAssumption, TypeOK, DeliveryTypeOK, CallInv, PushInv,
         NEW c \in calls, CallStep(c)
  PROVE  CallInv' /\ PushInv'
<1> USE DEF CallInv, PushInv
<1>1. UNCHANGED <<begun, dpc, crashes>>
  BY CallFrame
<1>2. \A b : Running(b)' = Running(b)
  BY <1>1 DEF Running
<1>3. \A d \in calls' : \E e \in calls : d.msg = e.msg /\ d.to = e.to
                                         /\ (d \in calls \ {c} \/ e = c)
  <2>1. CASE CallLookup(c)
    <3> DEFINE s == userSession[c.at][c.to]
               e == [c EXCEPT !.sess = s]
    <3>1. c \in [msg : Msg, at : Servers, to : Users,
                 sess : Sessions \cup {Nil}]
      BY DEF DeliveryTypeOK
    <3>2. e.msg = c.msg /\ e.to = c.to
      BY <3>1
    <3>3. calls' \subseteq (calls \ {c}) \cup {e}
      BY <2>1 DEF CallLookup
    <3> HIDE DEF e
    <3>4. QED
      BY <3>2, <3>3
  <2>2. CASE CallPush(c) \/ CallFails(c)
    BY <2>2 DEF CallPush, CallFails
  <2>3. QED
    BY <2>1, <2>2 DEF CallStep
<1>4. \A d, e \in calls' : d \notin calls \ {c} /\ e \notin calls \ {c} => d = e
  BY DEF CallStep, CallLookup, CallPush, CallFails
<1>5. CallsBegun' /\ CallsInPlace' /\ CallsWaitedFor'
  BY <1>1, <1>2, <1>3
     DEF CallsBegun, CallsInPlace, CallsWaitedFor, WaitsFor, AskOf
<1>6. OneCall'
  BY <1>3, <1>4 DEF OneCall
<1>7. CASE CallPush(c)
  <2>1. /\ calls' = calls \ {c}
        /\ pushed' = pushed \cup {Pushed(c)}
    BY <1>7 DEF CallPush
  <2>2. \A p \in pushed' : p \in pushed \/ p.msg = c.msg
    BY <2>1 DEF Pushed
  <2>3. PushesBegun' /\ PushesInPlace'
    BY <1>1, <1>2, <2>2
       DEF PushesBegun, PushesInPlace, CallsBegun, CallsInPlace
  <2>4. PushesOver'
    BY <2>1, <2>2 DEF PushesOver, OneCall
  <2>5. QED
    BY <1>5, <1>6, <2>3, <2>4
<1>8. CASE CallLookup(c) \/ CallFails(c)
  <2>1. pushed' = pushed
    BY <1>8 DEF CallLookup, CallFails, outcome
  <2>2. QED
    BY <1>1, <1>2, <1>3, <1>5, <1>6, <2>1
       DEF PushesBegun, PushesInPlace, PushesOver
<1>9. QED
  BY <1>7, <1>8 DEF CallStep

\* A crash takes calls away, and what it leaves behind nobody waits for.
LEMMA CrashCall ==
  ASSUME ChatDeliveryAssumption, TypeOK, DeliveryTypeOK, CallInv, PushInv,
         NEW a \in Servers, CrashStep(a)
  PROVE  CallInv' /\ PushInv'
<1>1. /\ UNCHANGED <<begun, pushed>>
      /\ dpc'[a] = "idle" /\ \A b \in Servers : b # a => dpc'[b] = dpc[b]
      /\ calls' \subseteq calls
      /\ crashes' # 0
  BY CrashFrame
<1>2. \A b : Running(b)' = Running(b)
  BY <1>1 DEF Running
<1>3. CallInv'
  BY <1>1, <1>2
     DEF CallInv, CallsBegun, OneCall, CallsInPlace, CallsWaitedFor, AskOf
<1>4. PushInv'
  BY <1>1, <1>2 DEF PushInv, PushesBegun, PushesOver, PushesInPlace
<1>5. QED
  BY <1>3, <1>4

\* CallInv and PushInv are inductive, given the types.
LEMMA NextCall ==
  ASSUME ChatDeliveryAssumption, TypeOK, DeliveryTypeOK, CallInv, PushInv,
         [DeliveryNext]_dvars
  PROVE  CallInv' /\ PushInv'
<1>1. CASE UNCHANGED <<begun, dpc, calls, pushed, crashes>>
  <2>1. \A b : Running(b)' = Running(b)
    BY <1>1 DEF Running
  <2>2. QED
    BY <1>1, <2>1
       DEF CallInv, CallsBegun, OneCall, CallsInPlace, CallsWaitedFor, WaitsFor,
           PushInv, PushesBegun, PushesOver, PushesInPlace, AskOf
<1>2. CASE UNCHANGED dvars
  BY <1>1, <1>2 DEF dvars, vars, deaths, handler, outcome
<1>3. CASE BindingStep
  BY <1>1, <1>3, BindingFrame
<1>4. CASE DeliveryNext
  BY <1>3, <1>4, HandlerCall, CallStepCall, CrashCall DEF DeliveryNext
<1>5. QED
  BY <1>2, <1>4

LEMMA InitCall ==
  DeliveryInit => KindInv /\ CallInv /\ PushInv
BY DEF DeliveryInit, KindInv, CallInv, CallsBegun, OneCall, CallsInPlace,
       CallsWaitedFor, PushInv, PushesBegun, PushesOver, PushesInPlace

\* Calls and pushes fit the handlers in every behaviour, whatever happens to the
\* locks and to the kicks.
LEMMA CallInvHolds ==
  ASSUME SessionBindingAssumption, ChatDeliveryAssumption
  PROVE  DeliverySpec => []KindInv /\ []CallInv /\ []PushInv
<1>1. DeliveryInit => KindInv /\ CallInv /\ PushInv
  BY InitCall
<1>2. TypeOK /\ DeliveryTypeOK /\ KindInv /\ CallInv /\ PushInv
        /\ [DeliveryNext]_dvars
        => (KindInv /\ CallInv /\ PushInv)'
  BY NextKind, NextCall
<1>3. DeliverySpec => []TypeOK /\ []DeliveryTypeOK
  BY DeliveryTypeCorrect
<1>4. QED
  BY <1>1, <1>2, <1>3, PTL DEF DeliverySpec

\* One step: only a call pushes, and the calls of a server's earlier requests
\* are over, or were left behind by a crash.
LEMMA OrderStep ==
  ASSUME ChatDeliveryAssumption, TypeOK, DeliveryTypeOK, CallInv, PushInv,
         [DeliveryNext]_dvars,
         NEW p \in pushed' \ pushed, NEW q \in pushed, p.msg.srv = q.msg.srv
  PROVE  q.msg.n < p.msg.n \/ (crashes > 0 /\ p.msg # q.msg)
<1>1. PICK c \in calls : CallPush(c)
  <2>1. \A a \in Servers : ~HandlerStep(a)
    BY HandlerFrame
  <2>2. \A a \in Servers : ~CrashStep(a)
    BY CrashFrame
  <2>3. ~BindingStep
    BY BindingFrame
  <2>4. \A c \in calls : ~CallLookup(c) /\ ~CallFails(c)
    BY DEF CallLookup, CallFails, outcome
  <2>5. QED
    BY <2>1, <2>2, <2>3, <2>4 DEF DeliveryNext, CallStep, dvars, outcome
<1>2. p.msg = c.msg
  BY <1>1 DEF CallPush, Pushed
<1>3. p.msg # q.msg
  BY <1>2 DEF PushInv, PushesOver
<1>4. /\ p.msg \in Msg /\ q.msg \in Msg
      /\ p.msg.n \in Nat /\ q.msg.n \in Nat /\ p.msg.srv \in Servers
  BY <1>2, MsgShape DEF DeliveryTypeOK
<1>5. CASE crashes = 0
  <2>1. c.msg.n = begun[c.msg.srv]
    <3>1. c.msg = Running(c.msg.srv)
      BY <1>5 DEF CallInv, CallsWaitedFor, WaitsFor
    <3>2. \A a : Running(a).n = begun[a]
      BY DEF Running
    <3>3. QED
      BY <3>1, <3>2
  <2>2. q.msg.n <= begun[p.msg.srv]
    BY DEF PushInv, PushesBegun
  <2>3. q.msg.n # p.msg.n
    BY <1>3, <1>4, SameMsg
  <2>4. QED
    BY <1>2, <1>4, <2>1, <2>2, <2>3
<1>6. CASE crashes # 0
  BY <1>3, <1>6 DEF TypeOK
<1>7. QED
  BY <1>5, <1>6

\* The pushes of a server's requests come in the order of the requests, whatever
\* the logins, clean-ups, locks and kicks around them do; a crash may leave a
\* push behind that is overtaken, but no message is pushed again once it has
\* been, to whatever session: its call is over, and nobody makes another.
THEOREM InOrderHolds ==
  ASSUME SessionBindingAssumption, ChatDeliveryAssumption
  PROVE  DeliverySpec => InOrder
<1>1. TypeOK /\ DeliveryTypeOK /\ CallInv /\ PushInv /\ [DeliveryNext]_dvars =>
        [\A p \in pushed' \ pushed : \A q \in pushed :
           p.msg.srv = q.msg.srv =>
             q.msg.n < p.msg.n \/ (crashes > 0 /\ p.msg # q.msg)]_dvars
  BY OrderStep
<1>2. QED
  BY <1>1, DeliveryTypeCorrect, CallInvHolds, PTL DEF DeliverySpec, InOrder
-----------------------------------------------------------------------------
(* The tables.                                                             *)

\* What any step does to the handler of one server.
LEMMA HandlerMoves ==
  ASSUME TypeOK, DeliveryTypeOK, [DeliveryNext]_dvars, NEW a \in Servers
  PROVE  \/ HandlerStep(a)
         \/ /\ begun'[a] = begun[a] /\ before'[a] = before[a]
            /\ \/ dpc'[a] = "idle"
               \/ dpc'[a] = dpc[a] /\ flaw'[a] \in {flaw[a], "rpc"}
<1>1. CASE UNCHANGED dvars
  BY <1>1 DEF dvars, handler, failure, outcome
<1>2. ASSUME NEW b \in Servers, HandlerStep(b), b # a
      PROVE  /\ begun'[a] = begun[a] /\ before'[a] = before[a]
             /\ dpc'[a] = dpc[a] /\ flaw'[a] = flaw[a]
  BY <1>2, HandlerFrame
<1>3. ASSUME NEW c \in calls, CallStep(c)
      PROVE  /\ begun'[a] = begun[a] /\ before'[a] = before[a]
             /\ dpc'[a] = dpc[a] /\ flaw'[a] \in {flaw[a], "rpc"}
  <2>1. flaw'[a] \in {flaw[a], "rpc"}
    BY <1>3 DEF CallStep, CallLookup, CallPush, CallFails, failure
  <2>2. QED
    BY <1>3, <2>1, CallFrame
<1>4. ASSUME NEW b \in Servers, CrashStep(b)
      PROVE  /\ begun'[a] = begun[a] /\ before'[a] = before[a]
             /\ \/ dpc'[a] = "idle"
                \/ dpc'[a] = dpc[a] /\ flaw'[a] \in {flaw[a], "rpc"}
  <2>1. flaw'[a] \in {flaw[a], "rpc"}
    BY <1>4 DEF CrashStep
  <2>2. QED
    BY <1>4, <2>1, CrashFrame
<1>5. CASE BindingStep
  BY <1>5, BindingFrame
<1>6. QED
  BY <1>1, <1>2, <1>3, <1>4, <1>5 DEF DeliveryNext

\* Nobody but AddFriendApply and AuthFriendApply writes friend_apply.
LEMMA ApplyWriters ==
  ASSUME TypeOK, DeliveryTypeOK, [DeliveryNext]_dvars
  PROVE  \/ applies' = applies
         \/ \E a \in Servers : WriteApply(a) \/ SettleApply(a)
<1>1. ASSUME NEW a \in Servers, HandlerStep(a), ~WriteApply(a), ~SettleApply(a)
      PROVE  applies' = applies
  BY <1>1 DEF HandlerStep, StartDelivery, AddFriend, WriteFails, FindServer,
     CallReturns, Answer, mysql
<1>2. CASE UNCHANGED dvars
  BY <1>2 DEF dvars, mysql
<1>3. QED
  BY <1>1, <1>2, CallFrame, CrashFrame, BindingFrame DEF DeliveryNext

\* A row stays and stays settled, an answer stays, and a request stays begun.
LEMMA RowsStay ==
  ASSUME TypeOK, DeliveryTypeOK, [DeliveryNext]_dvars
  PROVE  \A q \in applies : \E r \in applies' :
           r.from = q.from /\ r.to = q.to /\ (q.settled => r.settled)
<1>1. ASSUME NEW a \in Servers, SettleApply(a), NEW q \in applies
      PROVE  \E r \in applies' :
               r.from = q.from /\ r.to = q.to /\ (q.settled => r.settled)
  <2> DEFINE t == [q EXCEPT !.settled = TRUE]
  <2>1. q \in applies' \/ t \in applies'
    BY <1>1 DEF SettleApply
  <2>2. q \in Row
    BY DEF DeliveryTypeOK
  <2>3. t.from = q.from /\ t.to = q.to /\ t.settled
    BY <2>2 DEF Row
  <2> HIDE DEF t
  <2>4. QED
    BY <2>1, <2>3
<1>2. ASSUME NEW a \in Servers, WriteApply(a)
      PROVE  applies \subseteq applies'
  BY <1>2 DEF WriteApply
<1>3. QED
  BY <1>1, <1>2, ApplyWriters

LEMMA Monotone ==
  ASSUME SessionBindingAssumption, ChatDeliveryAssumption,
         TypeOK, DeliveryTypeOK, [DeliveryNext]_dvars
  PROVE  /\ \A u, v : Kept(u, v) => Kept(u, v)'
         /\ \A u, v : Settled1(u, v) => Settled1(u, v)'
         /\ \A m : AnsweredWell(m) => AnsweredWell(m)'
         /\ \A u, v : AcceptBegun(u, v) => AcceptBegun(u, v)'
<1>1. \A a \in Servers : begun[a] <= begun'[a]
  <2>1. SUFFICES ASSUME NEW a \in Servers
                 PROVE  begun[a] <= begun'[a]
    OBVIOUS
  <2>2. begun[a] \in Nat
    BY DEF DeliveryTypeOK
  <2>3. QED
    BY <2>2, HandlerMoves, HandlerFrame
<1>2. answered \subseteq answered'
  <2>1. ASSUME NEW a \in Servers, HandlerStep(a)
        PROVE  answered \subseteq answered'
    BY <2>1 DEF HandlerStep, StartDelivery, WriteApply, SettleApply, AddFriend,
       WriteFails, FindServer, CallReturns, Answer, outcome
  <2>2. CASE UNCHANGED dvars
    BY <2>2 DEF dvars, outcome
  <2>3. QED
    BY <2>1, <2>2, CallFrame, CrashFrame, BindingFrame DEF DeliveryNext
<1>3. \A m \in Msg : m.n <= begun[m.srv] => m.n <= begun'[m.srv]
  <2>1. SUFFICES ASSUME NEW m \in Msg, m.n <= begun[m.srv]
                 PROVE  m.n <= begun'[m.srv]
    OBVIOUS
  <2>2. m.srv \in Servers /\ m.n \in Nat
    BY MsgShape
  <2>3. begun[m.srv] \in Nat /\ begun'[m.srv] \in Nat
    BY <2>2, NextTypes DEF DeliveryTypeOK
  <2>4. QED
    BY <1>1, <2>1, <2>2, <2>3
<1>4. \A u, v : AcceptBegun(u, v) => AcceptBegun(u, v)'
  BY <1>3 DEF AcceptBegun, AskOf
<1>5. \A u, v : Kept(u, v) => Kept(u, v)'
  BY RowsStay DEF Kept, RowOf
<1>6. \A u, v : Settled1(u, v) => Settled1(u, v)'
  BY RowsStay DEF Settled1, RowOf
<1>7. \A m : AnsweredWell(m) => AnsweredWell(m)'
  BY <1>2 DEF AnsweredWell
<1>8. QED
  BY <1>4, <1>5, <1>6, <1>7

\* AddFriendApply leaves a row of its two users.
LEMMA WriteKeeps ==
  ASSUME ChatDeliveryAssumption, DeliveryTypeOK, NEW a \in Servers, WriteApply(a)
  PROVE  Kept(Asked(a).from, Asked(a).to)'
<1> DEFINE u == Asked(a).from
           v == Asked(a).to
           row == [from |-> u, to |-> v, settled |-> FALSE]
<1>1. begun' = begun
  BY DEF WriteApply
<1>2. row.from = u /\ row.to = v
  OBVIOUS
<1>3. \E q \in applies' : q.from = u /\ q.to = v
  <2>1. CASE \E q \in applies : q.from = u /\ q.to = v
    BY <2>1 DEF WriteApply
  <2>2. CASE ~\E q \in applies : q.from = u /\ q.to = v
    BY <1>2, <2>2 DEF WriteApply
  <2>3. QED
    BY <2>1, <2>2
<1>4. Asked(a)' = Asked(a)
  BY <1>1 DEF Asked, AskOf, Running
<1>5. QED
  BY <1>3, <1>4 DEF Kept, RowOf

\* AuthFriendApply on a server that binds (to, from) settles the row of the
\* application that is accepted, if there is one.
LEMMA SettleSettles ==
  ASSUME ChatDeliveryAssumption, DeliveryTypeOK, NEW a \in BindsToFrom,
         SettleApply(a), Kept(Asked(a).to, Asked(a).from)
  PROVE  Settled1(Asked(a).to, Asked(a).from)'
<1>1. begun' = begun
  BY DEF SettleApply
<1>2. PICK q \in applies : q.from = Asked(a).to /\ q.to = Asked(a).from
  BY DEF Kept, RowOf
<1> DEFINE t == [q EXCEPT !.settled = TRUE]
<1>3. t \in applies'
  BY <1>2 DEF SettleApply, Settles
<1>4. q \in Row
  BY DEF DeliveryTypeOK
<1>5. t.from = q.from /\ t.to = q.to /\ t.settled
  BY <1>4 DEF Row
<1>6. Asked(a)' = Asked(a)
  BY <1>1 DEF Asked, AskOf, Running
<1> HIDE DEF t
<1>7. QED
  BY <1>2, <1>3, <1>5, <1>6 DEF Settled1, RowOf

\* RowInv is inductive, given the types: AddFriendApply leaves a row that exists
\* alone, and AuthFriendApply only settles rows between the two users it names.
LEMMA NextRow ==
  ASSUME SessionBindingAssumption, ChatDeliveryAssumption,
         TypeOK, DeliveryTypeOK, RowInv, [DeliveryNext]_dvars
  PROVE  RowInv'
<1>0. \A u, v : AcceptBegun(u, v) => AcceptBegun(u, v)'
  BY Monotone
<1>1. CASE applies' = applies
  BY <1>0, <1>1 DEF RowInv
<1>2. ASSUME NEW a \in Servers, WriteApply(a)
      PROVE  RowInv'
  <2> DEFINE row == [from |-> Asked(a).from, to |-> Asked(a).to,
                     settled |-> FALSE]
  <2>1. row.from = Asked(a).from /\ row.to = Asked(a).to /\ ~row.settled
    OBVIOUS
  <2>2. \/ applies' = applies
        \/ /\ applies' = applies \cup {row}
           /\ ~\E q \in applies : q.from = Asked(a).from /\ q.to = Asked(a).to
    BY <1>2 DEF WriteApply
  <2> HIDE DEF row
  <2>3. QED
    BY <1>0, <2>1, <2>2 DEF RowInv
<1>3. ASSUME NEW a \in Servers, SettleApply(a)
      PROVE  RowInv'
  <2> DEFINE r == Asked(a)
  <2>1. /\ r.kind = "accept" /\ Running(a) \in Msg /\ Asked(a) \in Ask
        /\ Running(a).srv = a /\ Running(a).n = begun[a] /\ begun' = begun
    BY <1>3, RunningAsk DEF SettleApply
  <2> DEFINE T(q) == IF Settles(a, q) THEN [q EXCEPT !.settled = TRUE] ELSE q
  <2>2. applies' = {T(q) : q \in applies}
    BY <1>3 DEF SettleApply
  <2>3. \A q \in applies : /\ T(q).from = q.from /\ T(q).to = q.to
                           /\ T(q).settled => q.settled \/ Settles(a, q)
    BY DEF DeliveryTypeOK, Row
  <2> HIDE DEF T
  <2>4. \A q, s \in applies' : q.from = s.from /\ q.to = s.to => q = s
    <3>1. SUFFICES ASSUME NEW q \in applies', NEW s \in applies',
                          q.from = s.from, q.to = s.to
                   PROVE  q = s
      OBVIOUS
    <3>2. PICK o \in applies : q = T(o)
      BY <2>2
    <3>3. PICK p \in applies : s = T(p)
      BY <2>2
    <3>4. o = p
      BY <2>3, <3>1, <3>2, <3>3 DEF RowInv
    <3>5. QED
      BY <3>2, <3>3, <3>4
  <2>5. \A u, v : \/ u = r.from /\ v = r.to
                  \/ u = r.to /\ v = r.from
                  => AcceptBegun(u, v)'
    <3>1. SUFFICES ASSUME NEW u, NEW v,
                          \/ u = r.from /\ v = r.to
                          \/ u = r.to /\ v = r.from
                   PROVE  AcceptBegun(u, v)'
      OBVIOUS
    <3>2. r = [kind |-> "accept", from |-> r.from, to |-> r.to]
      BY <2>1 DEF Ask
    <3>3. AskOf(Running(a)) \in Between(u, v)
      BY <3>1, <3>2 DEF Between, Asked
    <3>4. Running(a).n <= begun'[Running(a).srv]
      BY <2>1 DEF DeliveryTypeOK
    <3>5. \E m \in Msg : m.n <= begun'[m.srv] /\ AskOf(m) \in Between(u, v)
      BY <2>1, <3>3, <3>4
    <3>6. QED
      BY <3>5 DEF AcceptBegun, AskOf
  <2>6. \A q \in applies' : q.settled => AcceptBegun(q.from, q.to)'
    <3>1. SUFFICES ASSUME NEW q \in applies, NEW u, NEW v, T(q).settled,
                          u = T(q).from, v = T(q).to
                   PROVE  AcceptBegun(u, v)'
      BY <2>2
    <3>2. u = q.from /\ v = q.to
      BY <2>3, <3>1
    <3>3. CASE q.settled
      BY <1>0, <3>2, <3>3 DEF RowInv
    <3>4. CASE Settles(a, q)
      BY <2>5, <3>2, <3>4 DEF Settles
    <3>5. QED
      BY <2>3, <3>1, <3>3, <3>4
  <2>7. QED
    BY <2>4, <2>6 DEF RowInv
<1>4. QED
  BY <1>1, <1>2, <1>3, ApplyWriters

\* Only the handler's last step answers.
LEMMA Answers ==
  ASSUME TypeOK, DeliveryTypeOK, [DeliveryNext]_dvars, NEW x \in answered',
         x \notin answered
  PROVE  \E a \in Servers :
           /\ dpc[a] = "answer" /\ x.msg = Running(a) /\ x.flaw = flaw[a]
           /\ x.before = before[a]
<1>1. PICK a \in Servers : Answer(a)
  <2>1. ASSUME NEW a \in Servers, HandlerStep(a), ~Answer(a)
        PROVE  answered' = answered
    BY <2>1 DEF HandlerStep, StartDelivery, WriteApply, SettleApply, AddFriend,
       WriteFails, FindServer, CallReturns, outcome
  <2>2. CASE UNCHANGED dvars
    BY <2>2 DEF dvars, outcome
  <2>3. QED
    BY <2>1, <2>2, CallFrame, CrashFrame, BindingFrame DEF DeliveryNext
<1>2. x = [msg |-> Running(a), flaw |-> flaw[a], before |-> before[a]]
  BY <1>1 DEF Answer
<1>3. QED
  BY <1>1, <1>2 DEF Answer

\* ApplyInv is inductive, given KindInv: between its write and its answer an
\* application without a failure has its row, and rows stay.
LEMMA NextApply ==
  ASSUME SessionBindingAssumption, ChatDeliveryAssumption,
         TypeOK, DeliveryTypeOK, KindInv, ApplyInv, [DeliveryNext]_dvars
  PROVE  ApplyInv'
<1>1. ASSUME NEW m \in Msg, AnsweredWell(m)', AskOf(m).kind = "apply"
      PROVE  Kept(AskOf(m).from, AskOf(m).to)'
  <2>1. PICK x \in answered' : x.msg = m /\ x.flaw = "none"
    BY <1>1 DEF AnsweredWell
  <2>2. CASE x \in answered
    BY <1>1, <2>1, <2>2, Monotone DEF ApplyInv, AnsweredWell
  <2>3. CASE x \notin answered
    <3>1. PICK a \in Servers :
            dpc[a] = "answer" /\ x.msg = Running(a) /\ x.flaw = flaw[a]
      BY <2>3, Answers
    <3>2. Kept(AskOf(m).from, AskOf(m).to)
      BY <1>1, <2>1, <3>1 DEF ApplyInv, Asked
    <3>3. QED
      BY <3>2, Monotone
  <2>4. QED
    BY <2>2, <2>3
<1>2. ASSUME NEW a \in Servers, dpc'[a] \in {"find", "call", "answer"},
             flaw'[a] = "none", Asked(a)'.kind = "apply"
      PROVE  Kept(Asked(a).from, Asked(a).to)'
  <2>1. CASE /\ begun'[a] = begun[a] /\ flaw[a] = "none"
             /\ dpc[a] \in {"find", "call", "answer"}
    <3>1. Asked(a)' = Asked(a)
      BY <2>1 DEF Asked, AskOf, Running
    <3>2. QED
      BY <1>2, <2>1, <3>1, Monotone DEF ApplyInv
  <2>2. CASE WriteApply(a)
    BY <2>2, WriteKeeps
  <2>3. CASE HandlerStep(a) /\ ~WriteApply(a)
    <3>1. CASE StartDelivery(a)
      <4>1. Asked(a)' = Requests[a][begun'[a]]
        BY DEF Asked, AskOf, Running
      <4>2. QED
        BY <1>2, <3>1, <4>1 DEF StartDelivery, Goto, DeliveryTypeOK
    <3>2. CASE ~StartDelivery(a)
      <4>1. begun' = begun
        BY <2>3, <3>2 DEF HandlerStep, SettleApply, AddFriend, WriteFails,
           FindServer, CallReturns, Answer
      <4>2. Asked(a)' = Asked(a)
        BY <4>1 DEF Asked, AskOf, Running
      <4>3. /\ flaw[a] = "none"
            /\ dpc[a] \in {"befriend", "find", "call", "answer"}
        BY <1>2, <2>3, <3>2
           DEF HandlerStep, SettleApply, AddFriend, WriteFails, FindServer,
               CallReturns, Answer, Goto, DeliveryTypeOK, failure
      <4>4. dpc[a] # "befriend"
        BY <1>2, <4>2 DEF KindInv
      <4>5. QED
        BY <2>1, <4>1, <4>3, <4>4
    <3>3. QED
      BY <3>1, <3>2
  <2>4. QED
    BY <1>2, <2>1, <2>2, <2>3, HandlerMoves
<1>3. QED
  BY <1>1, <1>2 DEF ApplyInv, AskOf

\* AcceptInv is inductive, given KindInv and ApplyInv: an acceptance finds the
\* row of an application that was answered before it, and settles it.
LEMMA NextAccept ==
  ASSUME SessionBindingAssumption, ChatDeliveryAssumption,
         TypeOK, DeliveryTypeOK, KindInv, ApplyInv, AcceptInv,
         [DeliveryNext]_dvars
  PROVE  AcceptInv'
<1>1. ASSUME NEW a \in Servers, NEW m \in before'[a]
      PROVE  AnsweredWell(m)'
  <2>1. m \in before[a] \/ AnsweredWell(m)
    <3>1. CASE StartDelivery(a)
      BY <1>1, <3>1 DEF StartDelivery, DeliveryTypeOK
    <3>2. CASE HandlerStep(a) /\ ~StartDelivery(a)
      BY <1>1, <3>2 DEF HandlerStep, WriteApply, SettleApply, AddFriend,
         WriteFails, FindServer, CallReturns, Answer, outcome
    <3>3. QED
      BY <1>1, <3>1, <3>2, HandlerMoves
  <2>2. QED
    BY <2>1, Monotone DEF AcceptInv
<1>2. ASSUME NEW x \in answered', x.flaw = "none", x.msg.srv \in BindsToFrom,
             Accepts(AskOf(x.msg), x.before)
      PROVE  Settled1(AskOf(x.msg).to, AskOf(x.msg).from)'
  <2>1. CASE x \in answered
    BY <1>2, <2>1, Monotone DEF AcceptInv
  <2>2. CASE x \notin answered
    <3>1. PICK a \in Servers :
            /\ dpc[a] = "answer" /\ x.msg = Running(a) /\ x.flaw = flaw[a]
            /\ x.before = before[a]
      BY <2>2, Answers
    <3>2. a \in BindsToFrom
      BY <1>2, <3>1 DEF Running
    <3>3. Settled1(AskOf(x.msg).to, AskOf(x.msg).from)
      BY <1>2, <3>1, <3>2 DEF AcceptInv, Asked
    <3>4. QED
      BY <3>3, Monotone
  <2>3. QED
    BY <2>1, <2>2
<1>3. ASSUME NEW a \in BindsToFrom,
             dpc'[a] \in {"befriend", "find", "call", "answer"},
             flaw'[a] = "none", Accepts(Asked(a), before[a])'
      PROVE  Settled1(Asked(a).to, Asked(a).from)'
  <2>0. a \in Servers
    BY DEF ChatDeliveryAssumption
  <2>1. CASE begun'[a] = begun[a] /\ before'[a] = before[a]
    <3>1. Asked(a)' = Asked(a)
      BY <2>1 DEF Asked, AskOf, Running
    <3>2. Accepts(Asked(a), before[a]) /\ Asked(a).kind = "accept"
      BY <1>3, <2>1, <3>1 DEF Accepts, AskOf
    <3>3. CASE /\ dpc[a] \in {"befriend", "find", "call", "answer"}
               /\ flaw[a] = "none"
      BY <3>1, <3>2, <3>3, Monotone DEF AcceptInv
    <3>4. CASE SettleApply(a)
      <4>1. PICK m \in before[a] : AskOf(m) =
              [kind |-> "apply", from |-> Asked(a).to, to |-> Asked(a).from]
        BY <3>2 DEF Accepts
      <4>2. m \in Msg /\ AnsweredWell(m)
        BY <2>0, <4>1 DEF AcceptInv, DeliveryTypeOK
      <4>3. /\ AskOf(m).kind = "apply" /\ AskOf(m).from = Asked(a).to
            /\ AskOf(m).to = Asked(a).from
        BY <4>1
      <4>4. Kept(AskOf(m).from, AskOf(m).to)
        BY <4>2, <4>3 DEF ApplyInv
      <4>5. QED
        BY <3>4, <4>3, <4>4, SettleSettles
    <3>5. CASE HandlerStep(a) /\ ~SettleApply(a)
      <4>1. /\ flaw[a] = "none" \/ StartDelivery(a)
            /\ dpc[a] \in {"befriend", "find", "call", "answer"}
               \/ StartDelivery(a) \/ WriteApply(a)
        BY <1>3, <2>0, <3>5
           DEF HandlerStep, WriteApply, AddFriend, WriteFails, FindServer,
               CallReturns, Answer, Goto, DeliveryTypeOK, failure
      <4>2. ~WriteApply(a)
        BY <3>2 DEF WriteApply
      <4>3. ~StartDelivery(a)
        BY <2>0, <2>1 DEF StartDelivery, DeliveryTypeOK
      <4>4. QED
        BY <3>3, <4>1, <4>2, <4>3
    <3>6. QED
      BY <1>3, <2>0, <3>3, <3>4, <3>5, HandlerMoves
  <2>2. CASE StartDelivery(a)
    <3>1. Asked(a)' = Requests[a][begun'[a]]
      BY DEF Asked, AskOf, Running
    <3>2. Asked(a)'.kind = "accept"
      BY <1>3 DEF Accepts
    <3>3. QED
      BY <1>3, <2>0, <2>2, <3>1, <3>2 DEF StartDelivery, Goto, DeliveryTypeOK
  <2>3. CASE HandlerStep(a) /\ ~StartDelivery(a)
    BY <2>1, <2>3 DEF HandlerStep, WriteApply, SettleApply, AddFriend,
       WriteFails, FindServer, CallReturns, Answer, outcome
  <2>4. QED
    BY <2>0, <2>1, <2>2, <2>3, HandlerMoves
<1>4. QED
  BY <1>1, <1>2, <1>3 DEF AcceptInv, AskOf

TableInv == RowInv /\ ApplyInv /\ AcceptInv

LEMMA InitTable ==
  ChatDeliveryAssumption /\ DeliveryInit => TableInv
<1> SUFFICES ASSUME ChatDeliveryAssumption, DeliveryInit
             PROVE  TableInv
  OBVIOUS
<1>1. RowInv
  BY DEF DeliveryInit, RowInv
<1>2. ApplyInv
  BY DEF DeliveryInit, ApplyInv, AnsweredWell
<1>3. AcceptInv
  BY DEF DeliveryInit, AcceptInv, ChatDeliveryAssumption
<1>4. QED
  BY <1>1, <1>2, <1>3 DEF TableInv

LEMMA TableInvHolds ==
  ASSUME SessionBindingAssumption, ChatDeliveryAssumption
  PROVE  DeliverySpec => []TableInv
<1>1. DeliveryInit => TableInv
  BY InitTable
<1>2. TypeOK /\ DeliveryTypeOK /\ KindInv /\ TableInv /\ [DeliveryNext]_dvars
        => TableInv'
  BY NextRow, NextApply, NextAccept DEF TableInv
<1>3. DeliverySpec => []TypeOK /\ []DeliveryTypeOK /\ []KindInv
  BY DeliveryTypeCorrect, CallInvHolds
<1>4. QED
  BY <1>1, <1>2, <1>3, PTL DEF DeliverySpec

\* The tables part only where a handler leaves between its two statements.
LEMMA PartedFrame ==
  ASSUME NEW a \in Servers, applies' = applies, friends' = friends,
         \A b \in Servers : b # a => dpc'[b] = dpc[b] /\ begun'[b] = begun[b]
  PROVE  Parted' \subseteq
           Parted \cup {q \in applies : dpc[a] = "befriend" /\ Settles(a, q)}
<1>1. \A b \in Servers : b # a => \A q : Settles(b, q)' = Settles(b, q)
  BY DEF Settles, Asked, AskOf, Running
<1>2. QED
  BY <1>1 DEF Parted

\* A handler's steps part nothing, unless AddFriend's statement fails.
LEMMA HandlerParted ==
  ASSUME ChatDeliveryAssumption, DeliveryTypeOK, NEW a \in Servers,
         HandlerStep(a), ~(WriteFails(a) /\ dpc[a] = "befriend")
  PROVE  Parted' \subseteq Parted
<1>1. \A b \in Servers : b # a => dpc'[b] = dpc[b] /\ begun'[b] = begun[b]
  BY HandlerFrame
<1>2. CASE \/ StartDelivery(a) \/ FindServer(a) \/ CallReturns(a) \/ Answer(a)
           \/ WriteFails(a)
  <2>1. dpc[a] # "befriend" /\ applies' = applies /\ friends' = friends
    BY <1>2 DEF StartDelivery, FindServer, CallReturns, Answer, WriteFails, mysql
  <2>2. QED
    BY <1>1, <2>1, PartedFrame
<1>3. ASSUME begun' = begun, \A b \in Servers : b # a => dpc'[b] = dpc[b]
      PROVE  \A b, q : Settles(b, q)' = Settles(b, q)
  BY <1>3 DEF Settles, Asked, AskOf, Running
<1>4. CASE WriteApply(a)
  <2> DEFINE row == [from |-> Asked(a).from, to |-> Asked(a).to,
                     settled |-> FALSE]
  <2>1. applies' \subseteq applies \cup {row} /\ ~row.settled
    BY <1>4 DEF WriteApply
  <2>2. dpc[a] # "befriend" /\ friends' = friends /\ begun' = begun
    BY <1>4 DEF WriteApply
  <2> HIDE DEF row
  <2>3. QED
    BY <1>1, <1>3, <2>1, <2>2 DEF Parted
<1>5. CASE SettleApply(a)
  <2>1. /\ dpc[a] = "write" /\ dpc'[a] = "befriend"
        /\ friends' = friends /\ begun' = begun
    BY <1>5 DEF SettleApply, Goto, DeliveryTypeOK
  <2>2. SUFFICES ASSUME NEW q \in Parted'
                 PROVE  q \in Parted
    OBVIOUS
  <2>3. q \in applies' /\ ~Settles(a, q)
    BY <1>1, <1>3, <2>1 DEF Parted
  <2>4. PICK o \in applies :
          q = IF Settles(a, o) THEN [o EXCEPT !.settled = TRUE] ELSE o
    BY <1>5, <2>3 DEF SettleApply
  <2>5. q.from = o.from /\ q.to = o.to
    BY <2>4 DEF DeliveryTypeOK, Row
  <2>6. q = o
    BY <2>3, <2>4, <2>5 DEF Settles
  <2>7. QED
    BY <1>1, <1>3, <2>1, <2>6 DEF Parted
<1>6. CASE AddFriend(a)
  <2> DEFINE row == [self |-> Asked(a).from, friend |-> Asked(a).to]
  <2>1. /\ applies' = applies /\ begun' = begun
        /\ friends' = friends \cup {row}
    BY <1>6 DEF AddFriend
  <2>2. \A q : Settles(a, q) => row \in {[self |-> q.from, friend |-> q.to],
                                         [self |-> q.to, friend |-> q.from]}
    BY DEF Settles
  <2> HIDE DEF row
  <2>3. QED
    BY <1>1, <1>3, <2>1, <2>2 DEF Parted
<1>7. QED
  BY <1>2, <1>4, <1>5, <1>6 DEF HandlerStep

\* One step parts at most one row, and only with a failure or a crash.
LEMMA PartedStep ==
  ASSUME ChatDeliveryAssumption, TypeOK, DeliveryTypeOK, RowInv,
         [DeliveryNext]_dvars
  PROVE  \/ Parted' \subseteq Parted /\ flaws <= flaws'
         \/ /\ \E x : Parted' \subseteq Parted \cup {x}
            /\ flaws' = flaws + 1
<1>0. flaws \in Nat
  BY DEF DeliveryTypeOK, ChatDeliveryAssumption
<1>1. ASSUME NEW a \in Servers
      PROVE  \E x : {q \in applies : dpc[a] = "befriend" /\ Settles(a, q)}
                      \subseteq {x}
  BY DEF RowInv, Settles
<1>2. CASE UNCHANGED <<begun, dpc, applies, friends>> /\ flaws <= flaws'
  BY <1>2 DEF Parted, Settles, Asked, AskOf, Running
<1>3. ASSUME NEW a \in Servers, HandlerStep(a),
             ~(WriteFails(a) /\ dpc[a] = "befriend")
      PROVE  Parted' \subseteq Parted /\ flaws <= flaws'
  <2>1. flaws' \in {flaws, flaws + 1}
    BY <1>3 DEF HandlerStep, StartDelivery, WriteApply, SettleApply, AddFriend,
       WriteFails, FindServer, CallReturns, Answer, failure
  <2>2. QED
    BY <1>0, <1>3, <2>1, HandlerParted
<1>4. ASSUME NEW a \in Servers, CrashStep(a) \/ WriteFails(a)
      PROVE  /\ \E x : Parted' \subseteq Parted \cup {x}
             /\ flaws' = flaws + 1
  <2>1. /\ UNCHANGED <<begun, applies, friends>> /\ flaws' = flaws + 1
        /\ \A b \in Servers : b # a => dpc'[b] = dpc[b]
    BY <1>4, CrashFrame DEF CrashStep, WriteFails, Goto, DeliveryTypeOK, mysql
  <2>2. Parted' \subseteq
          Parted \cup {q \in applies : dpc[a] = "befriend" /\ Settles(a, q)}
    BY <2>1, PartedFrame
  <2>3. QED
    BY <1>1, <2>1, <2>2
<1>5. ASSUME NEW c \in calls, CallStep(c)
      PROVE  UNCHANGED <<begun, dpc, applies, friends>> /\ flaws <= flaws'
  BY <1>0, <1>5 DEF CallStep, CallLookup, CallPush, CallFails, failure, mysql
<1>6. CASE BindingStep
  <2>1. flaws' \in {flaws, flaws + 1}
    BY <1>6 DEF BindingStep, ReadApplies, ReadFails, failure
  <2>2. UNCHANGED <<begun, dpc, applies, friends>>
    BY <1>6 DEF BindingStep, mysql
  <2>3. flaws <= flaws'
    BY <1>0, <2>1
  <2>4. QED
    BY <1>2, <2>2, <2>3
<1>7. CASE UNCHANGED dvars
  BY <1>0, <1>2, <1>7 DEF dvars, handler, failure, mysql
<1>8. QED
  BY <1>2, <1>3, <1>4, <1>5, <1>6, <1>7 DEF DeliveryNext

\* The parted rows are finitely many, and counted by the failures.
PartedInv == IsFiniteSet(Parted) /\ PartedByFlaws

LEMMA NextParted ==
  ASSUME SessionBindingAssumption, ChatDeliveryAssumption,
         TypeOK, DeliveryTypeOK, RowInv, PartedInv, [DeliveryNext]_dvars
  PROVE  PartedInv'
<1>1. flaws \in Nat /\ flaws' \in Nat
  BY NextTypes DEF DeliveryTypeOK, ChatDeliveryAssumption
<1>2. /\ IsFiniteSet(Parted) /\ Cardinality(Parted) \in Nat
      /\ Cardinality(Parted) <= flaws
  BY FS_CardinalityType DEF PartedInv, PartedByFlaws
<1>3. CASE Parted' \subseteq Parted /\ flaws <= flaws'
  <2>1. /\ IsFiniteSet(Parted') /\ Cardinality(Parted') <= Cardinality(Parted)
        /\ Cardinality(Parted') \in Nat
    BY <1>2, <1>3, FS_Subset, FS_CardinalityType
  <2>2. QED
    BY <1>1, <1>2, <1>3, <2>1 DEF PartedInv, PartedByFlaws
<1>4. ASSUME NEW x, Parted' \subseteq Parted \cup {x}, flaws' = flaws + 1
      PROVE  PartedInv'
  <2>1. /\ IsFiniteSet(Parted \cup {x})
        /\ Cardinality(Parted \cup {x}) \in
             {Cardinality(Parted), Cardinality(Parted) + 1}
    BY <1>2, FS_AddElement
  <2>2. /\ IsFiniteSet(Parted') /\ Cardinality(Parted') \in Nat
        /\ Cardinality(Parted') <= Cardinality(Parted \cup {x})
    BY <1>4, <2>1, FS_Subset, FS_CardinalityType
  <2>3. Cardinality(Parted') <= flaws'
    BY <1>1, <1>2, <1>4, <2>1, <2>2
  <2>4. QED
    BY <2>2, <2>3 DEF PartedInv, PartedByFlaws
<1>5. QED
  BY <1>3, <1>4, PartedStep

\* An acceptance settles a row and writes the friendship in two transactions,
\* and neither looks at the other's result: however many servers accept, and
\* whatever is repeated, the two tables differ in at most as many rows as
\* statements have failed or servers have died.
THEOREM PartedByFlawsHolds ==
  ASSUME SessionBindingAssumption, ChatDeliveryAssumption
  PROVE  DeliverySpec => []PartedByFlaws
<1>1. DeliveryInit => PartedInv
  <2>1. SUFFICES ASSUME DeliveryInit
                 PROVE  PartedInv
    OBVIOUS
  <2>2. Parted = {} /\ flaws = 0
    BY <2>1 DEF DeliveryInit, Parted
  <2>3. QED
    BY <2>2, FS_EmptySet DEF PartedInv, PartedByFlaws
<1>2. TypeOK /\ DeliveryTypeOK /\ TableInv /\ PartedInv /\ [DeliveryNext]_dvars
        => PartedInv'
  BY NextParted DEF TableInv
<1>3. DeliverySpec => []TypeOK /\ []DeliveryTypeOK /\ []TableInv
  BY DeliveryTypeCorrect, TableInvHolds
<1>4. PartedInv => PartedByFlaws
  BY DEF PartedInv
<1>5. QED
  BY <1>1, <1>2, <1>3, <1>4, PTL DEF DeliverySpec

\* A login starts in a step of SessionBinding, and reads the applications as
\* the table has them, or fails to.
LEMMA LoginReads ==
  ASSUME ChatDeliveryAssumption, TypeOK, DeliveryTypeOK, [DeliveryNext]_dvars,
         NEW a \in Servers, LoginStarts(a)
  PROVE  \/ listed'[a] \in ApplyLists(a, cur'[a].uid) /\ flaws' = flaws
         \/ listed'[a] = {} /\ flaws' # flaws
<1>1. lpc'[a] # lpc[a]
  BY DEF LoginStarts
<1>2. \A b \in Servers : ~HandlerStep(b)
  BY <1>1, HandlerVars DEF vars, logic
<1>3. \A c \in calls : ~CallStep(c)
  BY <1>1 DEF CallStep, CallLookup, CallPush, CallFails, vars, logic
<1>4. \A b \in Servers : ~CrashStep(b)
  BY DEF LoginStarts, CrashStep, Crash
<1>5. ~UNCHANGED dvars
  BY <1>1 DEF dvars, vars, logic
<1>6. BindingStep
  BY <1>2, <1>3, <1>4, <1>5 DEF DeliveryNext
<1>7. PICK b \in Servers : ReadApplies(b) \/ ReadFails(b)
  BY <1>6 DEF BindingStep
<1>8. b = a
  BY <1>1, <1>7 DEF ReadApplies, ReadFails, StartLogin, TypeOK
<1>9. CASE ReadApplies(a)
  BY <1>9 DEF ReadApplies, failure, DeliveryTypeOK
<1>10. CASE ReadFails(a)
  <2>1. flaws \in Nat
    BY DEF DeliveryTypeOK, ChatDeliveryAssumption
  <2>2. QED
    BY <1>10, <2>1 DEF ReadFails, DeliveryTypeOK
<1>11. QED
  BY <1>7, <1>8, <1>9, <1>10

\* One step: the application's row is there, and not settled; a list that does
\* not have it is as long as the limit.
LEMMA ListedStep ==
  ASSUME ChatDeliveryAssumption, TypeOK, DeliveryTypeOK, TableInv,
         [DeliveryNext]_dvars, NEW a \in ListsApplies, NEW m \in Msg,
         LoginStarts(a), flaws' = flaws,
         AnsweredWell(m), AskOf(m).kind = "apply",
         cur'[a].uid = AskOf(m).to, ~AcceptBegun(AskOf(m).from, AskOf(m).to)
  PROVE  \/ \E q \in listed'[a] : q.from = AskOf(m).from
         \/ Cardinality(listed'[a]) = ListLimit
<1> DEFINE open == {r \in applies : r.to = cur'[a].uid /\ ~r.settled}
<1>1. PICK q \in applies : q.from = AskOf(m).from /\ q.to = AskOf(m).to
  BY DEF TableInv, ApplyInv, Kept, RowOf
<1>2. ~q.settled
  BY <1>1 DEF TableInv, RowInv
<1>3. q \in open
  BY <1>1, <1>2
<1>4. listed'[a] \in ApplyLists(a, cur'[a].uid)
  BY LoginReads DEF ChatDeliveryAssumption
<1>5. IF Cardinality(open) <= ListLimit THEN listed'[a] = open
      ELSE Cardinality(listed'[a]) = ListLimit
  BY <1>4 DEF ApplyLists
<1> HIDE DEF open
<1>6. QED
  BY <1>1, <1>3, <1>5

\* An application that was answered without a failure is in the list of every
\* login of its target until its acceptance was begun, through any crash: what
\* no push could deliver is seen at the next login, on a server whose columns
\* fit, unless the read fails or the list is full.
THEOREM AppliedIsListedHolds ==
  ASSUME SessionBindingAssumption, ChatDeliveryAssumption
  PROVE  DeliverySpec => AppliedIsListed
<1>1. TypeOK /\ DeliveryTypeOK /\ TableInv /\ [DeliveryNext]_dvars =>
        [\A a \in ListsApplies, m \in Msg :
           LET r == AskOf(m)
           IN /\ LoginStarts(a) /\ flaws' = flaws
              /\ AnsweredWell(m) /\ r.kind = "apply"
              /\ cur'[a].uid = r.to /\ ~AcceptBegun(r.from, r.to)
              => \/ \E q \in listed'[a] : q.from = r.from
                 \/ Cardinality(listed'[a]) = ListLimit]_dvars
  BY ListedStep
<1>2. QED
  BY <1>1, DeliveryTypeCorrect, TableInvHolds, PTL
     DEF DeliverySpec, AppliedIsListed

\* One step: the application's only row is settled.
LEMMA SettledStep ==
  ASSUME ChatDeliveryAssumption, TypeOK, DeliveryTypeOK, TableInv,
         [DeliveryNext]_dvars, NEW a \in Servers, NEW x \in answered,
         LoginStarts(a), x.flaw = "none", x.msg.srv \in BindsToFrom,
         Accepts(AskOf(x.msg), x.before), cur'[a].uid = AskOf(x.msg).from,
         NEW q \in listed'[a]
  PROVE  q.from # AskOf(x.msg).to
<1>1. PICK p \in applies : /\ p.from = AskOf(x.msg).to
                           /\ p.to = AskOf(x.msg).from /\ p.settled
  BY DEF TableInv, AcceptInv, Settled1, RowOf
<1>2. q \in applies /\ q.to = AskOf(x.msg).from /\ ~q.settled
  BY LoginReads DEF ApplyLists
<1>3. QED
  BY <1>1, <1>2 DEF TableInv, RowInv

\* An acceptance that was answered without a failure, by a server that binds
\* (to, from), ends the application for good if that was answered before it was
\* begun: no later login lists it, although other servers write the table, too,
\* and the application may be repeated.
THEOREM AcceptedIsSettledHolds ==
  ASSUME SessionBindingAssumption, ChatDeliveryAssumption
  PROVE  DeliverySpec => AcceptedIsSettled
<1>1. TypeOK /\ DeliveryTypeOK /\ TableInv /\ [DeliveryNext]_dvars =>
        [\A a \in Servers, x \in answered :
           LET r == AskOf(x.msg)
           IN /\ LoginStarts(a) /\ x.flaw = "none" /\ r.kind = "accept"
              /\ x.msg.srv \in BindsToFrom /\ cur'[a].uid = r.from
              /\ \E m \in x.before :
                   AskOf(m) = [kind |-> "apply", from |-> r.to, to |-> r.from]
              => \A q \in listed'[a] : q.from # r.to]_dvars
  BY SettledStep DEF Accepts
<1>2. QED
  BY <1>1, DeliveryTypeCorrect, TableInvHolds, PTL
     DEF DeliverySpec, AcceptedIsSettled
-----------------------------------------------------------------------------
(* The undisturbed login.                                                  *)

\* A login's last steps, seen from outside.
LEMMA LoginPasses ==
  ASSUME SessionBindingAssumption, TypeOK, [Next]_vars, NEW a \in Servers
  PROVE  /\ SetIp(a) => Passes(cur[a].uid, "setIp", "setMgr")
         /\ SetSessionKey(a) => Passes(cur[a].uid, "setKey", "release")
         /\ lpc[a] = "setKey" /\ lpc'[a] = "release" => SetSessionKey(a)
<1>1. SetIp(a) => lpc[a] = "setIp" /\ lpc'[a] = "setMgr"
  BY DEF SetIp, TypeOK
<1>2. SetSessionKey(a) => lpc[a] = "setKey" /\ lpc'[a] = "release"
  BY DEF SetSessionKey, TypeOK
<1>3. QED
  BY <1>1, <1>2, LoginMoves DEF Passes, SetIp, SetUserSession

\* A closed connection stays closed.
LEMMA ClosedStays ==
  ASSUME TypeOK, [Next]_vars, NEW s \in Sessions, sock[s] = "closed"
  PROVE  sock'[s] = "closed"
<1>t. sock \in [Sessions -> {"new", "open", "closed"}]
  BY DEF TypeOK
<1>1. ASSUME NEW r \in Sessions, SessionStep(r) \/ StartTimerCleanup(r)
      PROVE  sock'[s] = "closed"
  BY <1>t, <1>1 DEF SessionStep, Accept, Insert, ReadMessage, PostMsgToQue,
     RejectMessage, BadHeader, ReadError, WriteDone, WriteError,
     StartIoCleanup, StartTimerCleanup
<1>2. ASSUME NEW a \in Servers, LogicStep(a)
      PROVE  UNCHANGED sock
  BY <1>2 DEF LogicStep, RefuseLogin, StartLogin, LoginAcquire, LoginTimeout,
     ReadIp, LookupOld, KickFails, ClearOld, SetUserId, SetIp, SetUserSession,
     SetSessionKey, LoginRelease, LoginReply
<1>3. ASSUME NEW h \in Cleaners, CleanStep(h)
      PROVE  UNCHANGED sock
  BY <1>3 DEF CleanStep, CleanAcquire, CleanTimeout, CheckSession, DelSession,
     DelIp, CleanClear, CleanRelease
<1>4. CASE \/ \E a \in Servers : Crash(a)
           \/ \E a \in Servers : \E E \in SUBSET SessionsOf(a) : OnTimer(a, E)
           \/ \E v \in Uids : LockExpire(v)
           \/ UNCHANGED vars
  BY <1>4 DEF Crash, OnTimer, LockExpire, vars
<1>5. ASSUME NEW k \in strays, StrayStep(k)
      PROVE  UNCHANGED sock
  BY <1>5 DEF StrayStep, StrayLookup, StrayClear
<1>6. QED
  BY <1>1, <1>2, <1>3, <1>4, <1>5 DEF Next

\* The latest login's keys outlive every step but the clean-up of its own
\* session: whoever else writes or deletes keys of the user has the lock.
LEMMA LoginLatest ==
  ASSUME SessionBindingAssumption, DeliveryTypeOK, LoginInv, LatestInv,
         [Next]_vars, Watch
  PROVE  LatestInv'
<1>t. /\ uip \in [Uids -> Servers \cup {Nil}]
      /\ usession \in [Uids -> Sessions \cup {Nil}]
      /\ lpc \in [Servers -> LogicPcs] /\ euid \in [Cleaners -> Uids]
      /\ latest \in [Users -> Sessions \cup {Nil}]
      /\ Nil \notin Sessions /\ TypeOK /\ CleanupInv
  BY DEF LoginInv, TypeOK, DeliveryTypeOK, SessionBindingAssumption
<1> SUFFICES ASSUME NEW u \in Users, latest'[u] # Nil
             PROVE  /\ sock'[latest'[u]] # "closed" =>
                         usession'[u] = latest'[u] /\ uip'[u] = Home[latest'[u]]
                    /\ \A a \in Servers :
                         lpc'[a] \in {"setMgr", "setKey"} => cur'[a].uid # u
  BY DEF LatestInv
<1>1. /\ ~Passes(u, "setIp", "setMgr") /\ u \in Uids
      /\ latest'[u] = IF Passes(u, "setKey", "release") THEN usession'[u]
                      ELSE latest[u]
  BY DEF Watch, Uids
<1>2. \A a \in Servers : SetIp(a) => cur[a].uid # u
  BY <1>t, <1>1, LoginPasses
\* The login that gets there just now.
<1>3. ASSUME NEW a \in Servers, SetSessionKey(a), cur[a].uid = u
      PROVE  /\ usession'[u] = latest'[u] /\ uip'[u] = Home[latest'[u]]
             /\ \A b \in Servers :
                  lpc'[b] \in {"setMgr", "setKey"} => cur'[b].uid # u
  <2>1. latest'[u] = usession'[u]
    BY <1>t, <1>1, <1>3, LoginPasses
  <2>2. /\ lpc[a] = "setKey" /\ uip' = uip /\ usession'[u] = cur[a].sess
        /\ cur' = cur /\ lpc' = [lpc EXCEPT ![a] = "release"]
    BY <1>t, <1>1, <1>3 DEF SetSessionKey
  <2>3. uip[u] = a
    BY <1>3, <2>2 DEF LoginInv, KeysWritten
  <2>4. Home[cur[a].sess] = a
    BY <2>2 DEF LoginInv, RequestInv, TypeOK, SessionBindingAssumption
  <2>5. ASSUME NEW b \in Servers, lpc'[b] \in {"setMgr", "setKey"}
        PROVE  cur'[b].uid # u
    <3>1. b # a /\ lpc[b] \in LoginCS /\ lpc[a] \in LoginCS
      BY <1>t, <2>2, <2>5 DEF LoginCS
    <3>2. QED
      BY <1>t, <1>3, <2>2, <3>1, OneHolder
  <2>6. QED
    BY <2>1, <2>2, <2>3, <2>4, <2>5
\* The one that was there.
<1>4. ASSUME \A a \in Servers : SetSessionKey(a) => cur[a].uid # u
      PROVE  /\ sock'[latest'[u]] # "closed" =>
                  usession'[u] = latest'[u] /\ uip'[u] = Home[latest'[u]]
             /\ \A a \in Servers :
                  lpc'[a] \in {"setMgr", "setKey"} => cur'[a].uid # u
  <2>1. latest'[u] = latest[u] /\ latest[u] \in Sessions
    BY <1>t, <1>1, <1>4, LoginPasses DEF Passes
  <2>2. ASSUME sock'[latest[u]] # "closed"
        PROVE  usession'[u] = latest[u] /\ uip'[u] = Home[latest[u]]
    <3>1. sock[latest[u]] # "closed"
      BY <1>t, <2>1, <2>2, ClosedStays
    <3>2. usession[u] = latest[u] /\ uip[u] = Home[latest[u]]
      BY <2>1, <3>1 DEF LatestInv
    <3>3. ASSUME NEW h \in Cleaners, DelSession(h) \/ DelIp(h)
          PROVE  euid[h] # u
      <4>1. CASE DelSession(h)
        BY <1>t, <3>1, <3>2, <4>1
           DEF DelSession, CleanupInv, DeletesOwnSession, CleanedIsClosed
      <4>2. CASE DelIp(h)
        BY <1>t, <2>1, <3>2, <4>2 DEF DelIp, LoginInv, KeyGone
      <4>3. QED
        BY <3>3, <4>1, <4>2
    <3>4. usession'[u] = usession[u]
      BY <1>t, <1>1, <1>4, <3>3, SessionKeyWrites DEF DelSession, SetSessionKey
    <3>5. uip'[u] = uip[u]
      BY <1>t, <1>1, <1>2, <3>3, IpWrites DEF DelIp, SetIp
    <3>6. QED
      BY <3>2, <3>4, <3>5
  <2>3. ASSUME NEW a \in Servers, lpc'[a] \in {"setMgr", "setKey"}
        PROVE  cur'[a].uid # u
    <3>1. cur'[a] = cur[a]
      BY <1>t, <2>3, LoginMoves
    <3>2. SetIp(a) \/ lpc[a] \in {"setMgr", "setKey"}
      BY <1>t, <2>3, LoginMoves DEF SetUserSession
    <3>3. QED
      BY <1>2, <2>1, <3>1, <3>2 DEF LatestInv, SessionBindingAssumption
  <2>4. QED
    BY <2>1, <2>2, <2>3
<1>5. QED
  BY <1>3, <1>4

\* LatestInv is inductive, given the invariants of logins: pushes change nothing
\* that it is about.
LEMMA NextLatest ==
  ASSUME SessionBindingAssumption, DeliveryTypeOK, LoginInv, LatestInv,
         [DeliveryNext]_dvars
  PROVE  LatestInv'
<1>1. CASE UNCHANGED dvars
  BY <1>1 DEF dvars, vars, redis, logic, history, LatestInv
<1>2. CASE DeliveryNext /\ [Next]_vars
  BY <1>2, LoginLatest DEF DeliveryNext
<1>3. CASE DeliveryNext /\ ChainOnly
  <2>1. UNCHANGED <<uip, usession, sock, lpc, cur>>
    BY <1>3 DEF ChainOnly, redis, logic
  <2>2. /\ latest' \in [Users -> Sessions \cup {Nil}]
        /\ \A u \in Users : latest'[u] = latest[u]
    BY <1>3, <2>1 DEF DeliveryNext, Watch, Passes, DeliveryTypeOK
  <2>3. QED
    BY <2>1, <2>2 DEF LatestInv
<1>4. QED
  BY <1>1, <1>2, <1>3, StepIsNext

\* The lookups lead to it: its connection is open, so that its keys are there,
\* and no login of the user is about to change them.
LEMMA SteadyRouted ==
  ASSUME SessionBindingAssumption, LoginInv, LatestInv, NEW u \in Users, NEW s,
         Undisturbed(u, s)
  PROVE  /\ s \in Sessions /\ Home[s] \in Servers
         /\ uip[u] = Home[s] /\ userSession[Home[s]][u] = s
<1>1. s = latest[u] /\ s \in members /\ sock[s] = "open"
  BY DEF Undisturbed, Live
<1>2. s \in Sessions /\ Home[s] \in Servers /\ s # Nil
  BY <1>1 DEF LoginInv, TypeOK, SessionBindingAssumption
<1>3. usession[u] = s /\ uip[u] = Home[s]
  BY <1>1, <1>2 DEF LatestInv
<1>4. ~(lpc[Home[s]] = "setKey" /\ cur[Home[s]].uid = u)
  BY <1>2 DEF Undisturbed
<1>5. userSession[Home[s]][u] = s
  BY <1>1, <1>3, <1>4 DEF LoginInv, ServedInv, Served
<1>6. QED
  BY <1>2, <1>3, <1>5

\* What a step makes of watched.
LEMMA WatchStep ==
  ASSUME SessionBindingAssumption, DeliveryTypeOK, Watch,
         NEW a \in Servers, watched'[a] # Nil
  PROVE  /\ dpc'[a] # "idle" /\ Undisturbed(Asked(a).to, watched[a])'
         /\ dpc[a] # "idle" => watched'[a] = watched[a]
<1>1. watched'[a] = IF /\ dpc'[a] # "idle"
                       /\ dpc[a] = "idle" \/ watched[a] = Steady(Asked(a).to)'
                    THEN Steady(Asked(a).to)' ELSE Nil
  BY DEF Watch
<1>2. /\ dpc'[a] # "idle" /\ watched'[a] = Steady(Asked(a).to)'
      /\ dpc[a] # "idle" => watched'[a] = watched[a]
  BY <1>1
<1>3. Undisturbed(Asked(a).to, watched[a])'
  BY <1>2 DEF Steady
<1>4. QED
  BY <1>2, <1>3

LEMMA NextWatch ==
  ASSUME SessionBindingAssumption, DeliveryTypeOK, WatchInv,
         [DeliveryNext]_dvars
  PROVE  WatchInv'
<1>1. CASE UNCHANGED dvars
  BY <1>1 DEF dvars, vars, tables, logic, handler, history, WatchInv,
     Undisturbed, Live, Asked, AskOf, Running
<1>2. CASE DeliveryNext
  BY <1>2, WatchStep DEF DeliveryNext, WatchInv
<1>3. QED
  BY <1>1, <1>2

\* A call to the server of an undisturbed login stays, finds the login, pushes
\* to it, or fails where the handler sees it.
LEMMA CallReaches ==
  ASSUME SessionBindingAssumption, ChatDeliveryAssumption, DeliveryTypeOK,
         LoginInv, LatestInv, CallInv, WatchInv, [DeliveryNext]_dvars,
         NEW a \in Servers, watched[a] # Nil, IsCalled(a),
         dpc[a] = "call", dpc'[a] = "call", ~HandlerStep(a), flaw'[a] # "rpc"
  PROVE  \/ \E p \in pushed' : p.msg = Running(a) /\ p.sess = watched[a]
         \/ \E c \in calls' : /\ c.msg = Running(a) /\ c.at = Home[watched[a]]
                              /\ c.sess \in {Nil, watched[a]}
<1>1. PICK c \in calls : /\ c.msg = Running(a) /\ c.at = Home[watched[a]]
                         /\ c.sess \in {Nil, watched[a]}
  BY DEF IsCalled
<1>2. CASE c \in calls'
  BY <1>1, <1>2
<1>3. WaitsFor(a, c)
  BY <1>1 DEF WaitsFor
<1>4. CASE CallLookup(c)
  <2>1. c.to = Asked(a).to /\ Asked(a).to \in Users
    BY <1>1, RunningAsk DEF CallInv, CallsBegun, Asked
  <2>2. userSession[c.at][c.to] = watched[a] /\ watched[a] \in Sessions
    BY <1>1, <2>1, SteadyRouted DEF WatchInv
  <2>3. c \in [msg : Msg, at : Servers, to : Users, sess : Sessions \cup {Nil}]
    BY DEF DeliveryTypeOK
  <2> DEFINE d == [c EXCEPT !.sess = watched[a]]
  <2>4. d \in calls'
    BY <1>4, <2>2 DEF CallLookup, SessionBindingAssumption
  <2>5. d.msg = c.msg /\ d.at = c.at /\ d.sess = watched[a]
    BY <2>3
  <2> HIDE DEF d
  <2>6. QED
    BY <1>1, <2>4, <2>5
<1>5. CASE CallPush(c)
  <2>1. Pushed(c) \in pushed' /\ c.sess # Nil
    BY <1>5 DEF CallPush
  <2>2. Pushed(c).msg = c.msg /\ Pushed(c).sess = c.sess
    BY DEF Pushed
  <2>3. QED
    BY <1>1, <2>1, <2>2
<1>6. CASE CallFails(c)
  BY <1>3, <1>6 DEF CallFails
<1>7. ASSUME NEW b \in Servers, CrashStep(b), c \notin calls'
      PROVE  FALSE
  <2>1. b # a
    BY <1>7, CrashFrame DEF LoginInv
  <2>2. c.at = b
    BY <1>7 DEF CrashStep
  <2>3. QED
    BY <1>3, <1>7, <2>1, <2>2 DEF CrashStep
<1>8. ASSUME NEW b \in Servers, HandlerStep(b)
      PROVE  calls \subseteq calls'
  BY <1>8 DEF HandlerStep, StartDelivery, WriteApply, SettleApply, AddFriend,
     WriteFails, FindServer, CallReturns, Answer
<1>9. ASSUME NEW d \in calls, CallStep(d), d # c
      PROVE  c \in calls'
  BY <1>9 DEF CallStep, CallLookup, CallPush, CallFails
<1>10. CASE UNCHANGED dvars
  BY <1>2, <1>10 DEF dvars, handler
<1>11. CASE BindingStep
  BY <1>2, <1>11, BindingFrame
<1>12. CASE DeliveryNext /\ ~BindingStep
  BY <1>2, <1>4, <1>5, <1>6, <1>7, <1>8, <1>9, <1>12 DEF DeliveryNext, CallStep
<1>13. QED
  BY <1>10, <1>11, <1>12

\* A push stays.
LEMMA PushedStays ==
  ASSUME TypeOK, DeliveryTypeOK, [DeliveryNext]_dvars
  PROVE  pushed \subseteq pushed'
<1>1. ASSUME NEW c \in calls, CallStep(c)
      PROVE  pushed \subseteq pushed'
  BY <1>1 DEF CallStep, CallLookup, CallPush, CallFails, outcome
<1>2. CASE UNCHANGED dvars
  BY <1>2 DEF dvars, outcome
<1>3. QED
  BY <1>1, <1>2, HandlerFrame, CrashFrame, BindingFrame DEF DeliveryNext

\* SteadyInv is inductive, given WatchInv and the invariants of logins: uip and
\* UserMgr lead the handler to the undisturbed login at each of its two lookups,
\* although they are some steps apart.
LEMMA NextSteady ==
  ASSUME SessionBindingAssumption, ChatDeliveryAssumption, DeliveryTypeOK,
         LoginInv, LatestInv, CallInv, WatchInv, SteadyInv, [DeliveryNext]_dvars
  PROVE  SteadyInv'
<1> SUFFICES ASSUME NEW a \in Servers, watched'[a] # Nil, flaw'[a] # "rpc",
                    dpc'[a] \in {"call", "answer"}
             PROVE  /\ dpc'[a] = "call" => IsPushed(a)' \/ IsCalled(a)'
                    /\ dpc'[a] = "answer" => IsPushed(a)'
  BY DEF SteadyInv
<1>0. TypeOK
  BY DEF LoginInv
<1>1. dpc[a] # "idle" /\ begun'[a] = begun[a] /\ flaw[a] # "rpc"
  <2>1. CASE HandlerStep(a)
    BY <2>1 DEF HandlerStep, StartDelivery, WriteApply, SettleApply, AddFriend,
       WriteFails, FindServer, CallReturns, Answer, Goto, DeliveryTypeOK, failure
  <2>2. CASE ~HandlerStep(a)
    BY <1>0, <2>2, HandlerMoves
  <2>3. QED
    BY <2>1, <2>2
<1>2. watched'[a] = watched[a]
  <2>1. CASE UNCHANGED dvars
    BY <2>1 DEF dvars, history
  <2>2. CASE DeliveryNext
    BY <1>1, <2>2, WatchStep DEF DeliveryNext
  <2>3. QED
    BY <2>1, <2>2
<1>3. Running(a)' = Running(a)
  BY <1>1 DEF Running
<1>4. IsPushed(a) => IsPushed(a)'
  BY <1>0, <1>2, <1>3, PushedStays DEF IsPushed
<1>5. CASE ~HandlerStep(a)
  <2>1. dpc'[a] = dpc[a]
    BY <1>0, <1>5, HandlerMoves
  <2>2. CASE IsCalled(a) /\ dpc[a] = "call"
    BY <1>2, <1>3, <1>5, <2>1, <2>2, CallReaches DEF IsPushed, IsCalled
  <2>3. QED
    BY <1>1, <1>2, <1>4, <2>1, <2>2 DEF SteadyInv
<1>6. CASE FindServer(a)
  <2>1. Asked(a).to \in Users
    BY <1>1, RunningAsk
  <2>2. uip[Asked(a).to] = Home[watched[a]] /\ Home[watched[a]] \in Servers
    BY <1>2, <2>1, SteadyRouted DEF WatchInv
  <2>3. Home[watched[a]] # Nil
    BY <2>2 DEF SessionBindingAssumption
  <2> DEFINE d == [msg |-> Running(a), at |-> uip[Asked(a).to],
                   to |-> Asked(a).to, sess |-> Nil]
  <2>4. d \in calls' /\ dpc'[a] = "call"
    BY <1>6, <2>2, <2>3 DEF FindServer, Goto, DeliveryTypeOK
  <2>5. d.msg = Running(a) /\ d.at = Home[watched[a]] /\ d.sess = Nil
    BY <2>2
  <2> HIDE DEF d
  <2>6. QED
    BY <1>2, <1>3, <2>4, <2>5 DEF IsCalled
<1>7. CASE CallReturns(a)
  <2>1. dpc[a] = "call" /\ ~IsCalled(a)
    BY <1>7 DEF CallReturns, IsCalled
  <2>2. QED
    BY <1>1, <1>2, <1>4, <2>1 DEF SteadyInv
<1>8. CASE HandlerStep(a) /\ ~FindServer(a) /\ ~CallReturns(a)
  BY <1>8 DEF HandlerStep, StartDelivery, WriteApply, SettleApply, AddFriend,
     WriteFails, Answer, Goto, DeliveryTypeOK
<1>9. QED
  BY <1>5, <1>6, <1>7, <1>8

LEMMA SteadyInvHolds ==
  ASSUME SessionBindingAssumption, ChatDeliveryAssumption, Exclusive
  PROVE  DeliverySpec => []LatestInv /\ []WatchInv /\ []SteadyInv
<1>1. DeliveryInit => LatestInv /\ WatchInv /\ SteadyInv
  BY DEF DeliveryInit, LatestInv, WatchInv, SteadyInv
<1>2. DeliveryTypeOK /\ LoginInv /\ CallInv /\ LatestInv /\ WatchInv /\ SteadyInv
        /\ [DeliveryNext]_dvars
        => (LatestInv /\ WatchInv /\ SteadyInv)'
  BY NextLatest, NextWatch, NextSteady
<1>3. DeliverySpec => []DeliveryTypeOK /\ []LoginInv /\ []CallInv
  BY DeliveryTypeCorrect, LoginInvHolds, CallInvHolds
<1>4. QED
  BY <1>1, <1>2, <1>3, PTL DEF DeliverySpec

\* A message for a user whose latest login nobody has disturbed since the handler
\* started reaches that login, on whatever server it is, although the handler
\* takes no lock, clean-ups of the user's former connections go on, and some of
\* them may still be logged in because the kick that was for them has failed.
THEOREM SteadyIsPushedHolds ==
  ASSUME SessionBindingAssumption, ChatDeliveryAssumption, Exclusive
  PROVE  DeliverySpec => []SteadyIsPushed
<1>1. SteadyInv => SteadyIsPushed
  BY DEF SteadyInv, SteadyIsPushed, IsPushed
<1>2. QED
  BY <1>1, SteadyInvHolds, PTL
=============================================================================
