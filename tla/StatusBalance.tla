---------------------------- MODULE StatusBalance ----------------------------
(***************************************************************************)
(* How a user gets to a chat server.  The gate checks the password and     *)
(* asks the status server, which picks the chat server with the smallest   *)
(* LOGIN_COUNT in Redis and stores a new token as utoken_<uid>.  The       *)
(* client takes both to the chat server, which compares the token.  The    *)
(* chat servers write their own LOGIN_COUNT, once a minute.                *)
(*                                                                         *)
(* gRPC serves the requests on several threads; getChatServer runs under   *)
(* _server_mtx, the token is stored outside it.                            *)
(***************************************************************************)
EXTENDS Naturals, Sequences

CONSTANTS
  Order,         \* the configured chat servers, in the order of the map _servers
  Users,         \* uids
  Requests,      \* user_login requests with the right password
  UserOf,        \* whose request each is
  Nil,           \* "no value"
  MaxConns,      \* bound: connections per chat server
  MaxChanges,    \* bound: starts, stops and crashes of chat servers
  GateMayGiveUp  \* may the gate's 5 s deadline pass before the answer?

Servers == {Order[i] : i \in 1 .. Len(Order)}

ASSUME StatusBalanceAssumption ==
  /\ Order \in Seq(Servers) /\ Order # <<>>
  /\ \A i, j \in 1 .. Len(Order) : Order[i] = Order[j] => i = j
  /\ UserOf \in [Requests -> Users]
  /\ Nil \notin Servers \cup Requests \cup Nat
  /\ MaxConns \in Nat /\ MaxChanges \in Nat
  /\ GateMayGiveUp \in BOOLEAN

VARIABLES
  up,          \* is the chat server's process running?
  conns,       \* its unexpired sessions
  changes,     \* starts, stops and crashes so far (bound)
  loginCount,  \* Redis hash LOGIN_COUNT
  utoken,      \* Redis utoken_<uid>: whose request's token it is
  mutex,       \* _server_mtx: the request that holds it
  conCount,    \* con_count of the entries of _servers
  rpc,         \* where the status server is with each request
  next,        \* the entry of _servers its loop comes to next
  best,        \* minServer, with its con_count
  gate,        \* the gate: waiting for the RPC, answered, or given up
  login,       \* what the chat server said to the client's login
  window       \* history: the counts each server had during a request's scan

fleet == <<up, conns, changes>>
pick == <<mutex, conCount, next, best>>
client == <<gate, login>>
vars == <<fleet, loginCount, utoken, pick, rpc, client, window>>

\* Mutant: a missing count is not looked for.
Count_AsIs(c) == c

\* A missing count is taken to be 0.
Count(c) == IF c = Nil THEN 0 ELSE c
InFlight(r) == rpc[r] \in {"first", "scan"}

\* HGet answers "" for a missing field.
HGet(a) == Count(loginCount[a])

\* Every change of LOGIN_COUNT is visible to the requests in flight.
HSet(counts) ==
  /\ loginCount' = counts
  /\ window' = [r \in Requests |->
                  [a \in Servers |->
                     IF InFlight(r) THEN window[r][a] \cup {counts[a]}
                     ELSE window[r][a]]]

Init ==
  /\ up = [a \in Servers |-> FALSE]
  /\ conns = [a \in Servers |-> 0]
  /\ changes = 0
  /\ loginCount = [a \in Servers |-> Nil]
  /\ utoken = [u \in Users |-> Nil]
  /\ mutex = Nil
  /\ conCount = [a \in Servers |-> 0]
  /\ rpc = [r \in Requests |-> "none"]
  /\ next = [r \in Requests |-> 1]
  /\ best = [r \in Requests |-> <<Order[1], 0>>]
  /\ gate = [r \in Requests |-> "none"]
  /\ login = [r \in Requests |-> "none"]
  /\ window = [r \in Requests |-> [a \in Servers |-> {}]]
-----------------------------------------------------------------------------
(* The chat servers.                                                       *)

\* main: HSet LOGIN_COUNT "0".
Start(a) ==
  /\ ~up[a] /\ changes < MaxChanges
  /\ up' = [up EXCEPT ![a] = TRUE]
  /\ changes' = changes + 1
  /\ HSet([loginCount EXCEPT ![a] = 0])
  /\ UNCHANGED <<conns, utoken, pick, rpc, client>>

\* main returns after a signal: HDel.
Stop(a) ==
  /\ up[a] /\ changes < MaxChanges
  /\ up' = [up EXCEPT ![a] = FALSE]
  /\ conns' = [conns EXCEPT ![a] = 0]
  /\ changes' = changes + 1
  /\ HSet([loginCount EXCEPT ![a] = Nil])
  /\ UNCHANGED <<utoken, pick, rpc, client>>

\* The process dies: its count stays behind.
Crash(a) ==
  /\ up[a] /\ changes < MaxChanges
  /\ up' = [up EXCEPT ![a] = FALSE]
  /\ conns' = [conns EXCEPT ![a] = 0]
  /\ changes' = changes + 1
  /\ UNCHANGED <<loginCount, utoken, pick, rpc, client, window>>

\* on_timer publishes the number of its unexpired sessions.
OnTimer(a) ==
  /\ up[a]
  /\ HSet([loginCount EXCEPT ![a] = conns[a]])
  /\ UNCHANGED <<fleet, utoken, pick, rpc, client>>

\* A session of a ends.
Leave(a) ==
  /\ conns[a] > 0
  /\ conns' = [conns EXCEPT ![a] = @ - 1]
  /\ UNCHANGED <<up, changes, loginCount, utoken, pick, rpc, client, window>>
-----------------------------------------------------------------------------
(* The gate's user_login handler.                                          *)

\* The password is right: call GetChatServer.
UserLogin(r) ==
  /\ gate[r] = "none"
  /\ gate' = [gate EXCEPT ![r] = "waiting"]
  /\ rpc' = [rpc EXCEPT ![r] = "called"]
  /\ UNCHANGED <<fleet, loginCount, utoken, pick, login, window>>

\* The answer reaches the client: host, port and token.
Answer(r) ==
  /\ gate[r] = "waiting" /\ rpc[r] = "replied"
  /\ gate' = [gate EXCEPT ![r] = "answered"]
  /\ UNCHANGED <<fleet, loginCount, utoken, pick, rpc, login, window>>

\* RPCFailed to the client; the status server carries on all the same.
GiveUp(r) ==
  /\ GateMayGiveUp /\ gate[r] = "waiting"
  /\ gate' = [gate EXCEPT ![r] = "failed"]
  /\ UNCHANGED <<fleet, loginCount, utoken, pick, rpc, login, window>>
-----------------------------------------------------------------------------
(* The status server.                                                      *)

\* getChatServer takes _server_mtx.
LockServers(r) ==
  /\ rpc[r] = "called" /\ mutex = Nil
  /\ mutex' = r
  /\ rpc' = [rpc EXCEPT ![r] = "first"]
  /\ window' = [window EXCEPT ![r] = [a \in Servers |-> {loginCount[a]}]]
  /\ UNCHANGED <<fleet, loginCount, utoken, conCount, next, best, client>>

\* minServer starts as a copy of the first entry, with its count.
ReadFirst(r) ==
  /\ rpc[r] = "first"
  /\ best' = [best EXCEPT ![r] = <<Order[1], HGet(Order[1])>>]
  /\ rpc' = [rpc EXCEPT ![r] = "scan"]
  /\ UNCHANGED <<fleet, loginCount, utoken, mutex, conCount, next, client,
                 window>>

\* Mutant: the entries' con_count is compared before it is refreshed.
Scan_OldCount(r) ==
  LET a == Order[next[r]]
  IN /\ rpc[r] = "scan" /\ next[r] <= Len(Order)
     /\ conCount' = [conCount EXCEPT ![a] = HGet(a)]
     /\ best' = [best EXCEPT ![r] =
                   IF conCount[a] < @[2] THEN <<a, conCount[a]>> ELSE @]
     /\ next' = [next EXCEPT ![r] = @ + 1]
     /\ UNCHANGED <<fleet, loginCount, utoken, mutex, rpc, client, window>>

\* One round of the loop over all entries, the first one included.
Scan(r) ==
  LET a == Order[next[r]]
  IN /\ rpc[r] = "scan" /\ next[r] <= Len(Order)
     /\ conCount' = [conCount EXCEPT ![a] = HGet(a)]
     /\ best' = [best EXCEPT ![r] = IF HGet(a) < @[2] THEN <<a, HGet(a)>> ELSE @]
     /\ next' = [next EXCEPT ![r] = @ + 1]
     /\ UNCHANGED <<fleet, loginCount, utoken, mutex, rpc, client, window>>

\* Mutant: _server_mtx is not unlocked.
UnlockServers_Keep(r) ==
  /\ rpc[r] = "scan" /\ next[r] > Len(Order)
  /\ rpc' = [rpc EXCEPT ![r] = "insert"]
  /\ UNCHANGED <<fleet, loginCount, utoken, pick, client, window>>

\* getChatServer returns and unlocks.
UnlockServers(r) ==
  /\ rpc[r] = "scan" /\ next[r] > Len(Order)
  /\ mutex' = Nil
  /\ rpc' = [rpc EXCEPT ![r] = "insert"]
  /\ UNCHANGED <<fleet, loginCount, utoken, conCount, next, best, client, window>>

\* Mutant: the answer leaves before the token is stored.
InsertToken_Late(r) ==
  \/ /\ rpc[r] = "insert"
     /\ rpc' = [rpc EXCEPT ![r] = "replied"]
     /\ UNCHANGED <<fleet, loginCount, utoken, pick, client, window>>
  \/ /\ rpc[r] = "replied" /\ utoken[UserOf[r]] # r
     /\ utoken' = [utoken EXCEPT ![UserOf[r]] = r]
     /\ UNCHANGED <<fleet, loginCount, pick, rpc, client, window>>

\* insertToken: SET without an expiry; what it returns is not looked at.
InsertToken(r) ==
  /\ rpc[r] = "insert"
  /\ utoken' = [utoken EXCEPT ![UserOf[r]] = r]
  /\ rpc' = [rpc EXCEPT ![r] = "replied"]
  /\ UNCHANGED <<fleet, loginCount, pick, client, window>>
-----------------------------------------------------------------------------
(* The client at the chat server it was sent to.                           *)

\* LoginHandler compares the client's token with Redis.
ChatLogin(r) ==
  LET a == best[r][1]
  IN /\ gate[r] = "answered" /\ login[r] = "none"
     /\ up[a] /\ conns[a] < MaxConns
     /\ conns' = [conns EXCEPT ![a] = @ + 1]
     /\ login' = [login EXCEPT ![r] = IF utoken[UserOf[r]] = r THEN "Success"
                                      ELSE "Refused"]
     /\ UNCHANGED <<up, changes, loginCount, utoken, pick, rpc, gate, window>>
-----------------------------------------------------------------------------
StatusStep(r) ==
  LockServers(r) \/ ReadFirst(r) \/ Scan(r) \/ UnlockServers(r) \/ InsertToken(r)

Next ==
  \/ \E a \in Servers : Start(a) \/ Stop(a) \/ Crash(a) \/ OnTimer(a) \/ Leave(a)
  \/ \E r \in Requests : \/ UserLogin(r) \/ Answer(r) \/ GiveUp(r)
                         \/ StatusStep(r) \/ ChatLogin(r)

Spec == Init /\ [][Next]_vars
-----------------------------------------------------------------------------
(* What must hold.                                                         *)

TypeOK ==
  /\ up \in [Servers -> BOOLEAN]
  /\ conns \in [Servers -> 0 .. MaxConns]
  /\ changes \in 0 .. MaxChanges
  /\ loginCount \in [Servers -> Nat \cup {Nil}]
  /\ utoken \in [Users -> Requests \cup {Nil}]
  /\ mutex \in Requests \cup {Nil}
  /\ conCount \in [Servers -> Nat]
  /\ rpc \in [Requests -> {"none", "called", "first", "scan", "insert",
                           "replied"}]
  /\ next \in [Requests -> 1 .. Len(Order) + 1]
  /\ best \in [Requests -> Servers \X Nat]
  /\ gate \in [Requests -> {"none", "waiting", "answered", "failed"}]
  /\ login \in [Requests -> {"none", "Success", "Refused"}]
  /\ window \in [Requests -> [Servers -> SUBSET (Nat \cup {Nil})]]

\* No server that published a smaller count is passed over, although the counts
\* change between one HGET and the next: the count a server is picked for is one
\* it had during the scan, and every server whose count was there all through
\* the scan had one no smaller.  (Of a server without a count nothing is said:
\* the code takes it for an empty one.)
PickedWasLeast ==
  \A r \in Requests : rpc[r] \in {"insert", "replied"} =>
    /\ \E c \in window[r][best[r][1]] : best[r][2] = Count(c)
    /\ \A a \in Servers : \/ Nil \in window[r][a]
                          \/ \E c \in window[r][a] : best[r][2] <= c

\* A user whose requests have all come to an end holds a token the chat server
\* accepts, in whatever order the status server's threads stored the tokens (the
\* gate not having given up on any).
SomeTokenWorks ==
  \A u \in Users :
    LET mine == {r \in Requests : UserOf[r] = u /\ gate[r] # "none"}
    IN (mine # {} /\ \A r \in mine : gate[r] = "answered") =>
         \E r \in mine : utoken[u] = r

\* The chat server refuses a token it was given by the gate only when another
\* request of the user has stored a newer one: the token is in Redis before the
\* client hears of it.
RefusedIfReplaced ==
  \A r \in Requests : login[r] = "Refused" =>
    \E q \in Requests \ {r} : UserOf[q] = UserOf[r] /\ rpc[q] = "replied"
-----------------------------------------------------------------------------
(* Progress: the status server's threads run, and Redis answers.           *)
(* A request waits for _server_mtx behind finitely many others.            *)
FairSpec == Spec /\ \A r \in Requests : WF_vars(StatusStep(r))

\* The status server answers every request it was called with.
CallIsAnswered ==
  \A r \in Requests : rpc[r] = "called" ~> rpc[r] = "replied"
=============================================================================
