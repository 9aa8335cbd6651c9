------------------------- MODULE StatusBalanceProofs -------------------------
(***************************************************************************)
(* Types of StatusBalance, that the server picked was a least-loaded one,  *)
(* and that a token which was handed out works until a newer one replaces  *)
(* it; for any number of chat servers, users and requests.                 *)
(***************************************************************************)
EXTENDS StatusBalance, TLAPS

-----------------------------------------------------------------------------
(* Types.                                                                  *)

LEMMA FirstServer == Order[1] \in Servers /\ Len(Order) \in Nat \ {0}
  BY StatusBalanceAssumption DEF Servers

LEMMA Bounds == MaxConns \in Nat /\ MaxChanges \in Nat
  BY StatusBalanceAssumption

LEMMA Owner == UserOf \in [Requests -> Users] /\ Nil \notin Requests
  BY StatusBalanceAssumption

LEMMA CountIsNat == \A c \in Nat \cup {Nil} : Count(c) \in Nat
  BY DEF Count

LEMMA InitType == Init => TypeOK
  BY FirstServer, Bounds DEF Init, TypeOK

\* HSet keeps the types of what it writes.
LEMMA HSetType ==
  ASSUME TypeOK, NEW counts \in [Servers -> Nat \cup {Nil}], HSet(counts)
  PROVE  /\ loginCount' \in [Servers -> Nat \cup {Nil}]
         /\ window' \in [Requests -> [Servers -> SUBSET (Nat \cup {Nil})]]
  BY DEF TypeOK, HSet

LEMMA FleetType ==
  ASSUME TypeOK, NEW a \in Servers,
         Start(a) \/ Stop(a) \/ Crash(a) \/ OnTimer(a) \/ Leave(a)
  PROVE  TypeOK'
<1>1. CASE Start(a)
  <2>1. [loginCount EXCEPT ![a] = 0] \in [Servers -> Nat \cup {Nil}]
    BY DEF TypeOK
  <2>2. /\ loginCount' \in [Servers -> Nat \cup {Nil}]
        /\ window' \in [Requests -> [Servers -> SUBSET (Nat \cup {Nil})]]
    BY <1>1, <2>1, HSetType DEF Start
  <2>3. changes' \in 0 .. MaxChanges
    BY <1>1, Bounds DEF Start, TypeOK
  <2>4. /\ up' \in [Servers -> BOOLEAN]
        /\ conns' \in [Servers -> 0 .. MaxConns]
    BY <1>1, Bounds DEF Start, TypeOK
  <2> QED  BY <1>1, <2>2, <2>3, <2>4 DEF Start, TypeOK, pick, client
<1>2. CASE Stop(a)
  <2>1. [loginCount EXCEPT ![a] = Nil] \in [Servers -> Nat \cup {Nil}]
    BY DEF TypeOK
  <2>2. /\ loginCount' \in [Servers -> Nat \cup {Nil}]
        /\ window' \in [Requests -> [Servers -> SUBSET (Nat \cup {Nil})]]
    BY <1>2, <2>1, HSetType DEF Stop
  <2>3. changes' \in 0 .. MaxChanges
    BY <1>2, Bounds DEF Stop, TypeOK
  <2>4. /\ up' \in [Servers -> BOOLEAN]
        /\ conns' \in [Servers -> 0 .. MaxConns]
    BY <1>2, Bounds DEF Stop, TypeOK
  <2> QED  BY <1>2, <2>2, <2>3, <2>4 DEF Stop, TypeOK, pick, client
<1>3. CASE Crash(a)
  BY <1>3, Bounds DEF Crash, TypeOK, pick, client
<1>4. CASE OnTimer(a)
  <2>1. [loginCount EXCEPT ![a] = conns[a]] \in [Servers -> Nat \cup {Nil}]
    BY DEF TypeOK
  <2>2. /\ loginCount' \in [Servers -> Nat \cup {Nil}]
        /\ window' \in [Requests -> [Servers -> SUBSET (Nat \cup {Nil})]]
    BY <1>4, <2>1, HSetType DEF OnTimer
  <2> QED  BY <1>4, <2>2, Bounds DEF OnTimer, TypeOK, fleet, pick, client
<1>5. CASE Leave(a)
  BY <1>5, Bounds DEF Leave, TypeOK, pick, client
<1> QED  BY <1>1, <1>2, <1>3, <1>4, <1>5

LEMMA RequestType ==
  ASSUME TypeOK, NEW r \in Requests,
         UserLogin(r) \/ Answer(r) \/ GiveUp(r) \/ StatusStep(r) \/ ChatLogin(r)
  PROVE  TypeOK'
<1> USE DEF TypeOK, fleet, pick, client
<1>1. CASE UserLogin(r)   BY <1>1 DEF UserLogin
<1>2. CASE Answer(r)      BY <1>2 DEF Answer
<1>3. CASE GiveUp(r)      BY <1>3 DEF GiveUp
<1>4. CASE LockServers(r)
  <2>1. [a \in Servers |-> {loginCount[a]}]
          \in [Servers -> SUBSET (Nat \cup {Nil})]
    OBVIOUS
  <2> QED  BY <1>4, <2>1 DEF LockServers
<1>5. CASE ReadFirst(r)
  <2>1. <<Order[1], HGet(Order[1])>> \in Servers \X Nat
    BY FirstServer, CountIsNat DEF HGet
  <2> QED  BY <1>5, <2>1 DEF ReadFirst
<1>6. CASE Scan(r)
  <2>1. Order[next[r]] \in Servers /\ next[r] + 1 \in 1 .. Len(Order) + 1
    BY <1>6, FirstServer DEF Scan, Servers
  <2>2. HGet(Order[next[r]]) \in Nat
    BY <2>1, CountIsNat DEF HGet
  <2> QED  BY <1>6, <2>1, <2>2 DEF Scan
<1>7. CASE UnlockServers(r)  BY <1>7 DEF UnlockServers
<1>8. CASE InsertToken(r)    BY <1>8, Owner DEF InsertToken
<1>9. CASE ChatLogin(r)
  <2>1. best[r][1] \in Servers
    OBVIOUS
  <2>2. conns' \in [Servers -> 0 .. MaxConns]
    BY <1>9, <2>1, Bounds DEF ChatLogin
  <2>3. login' \in [Requests -> {"none", "Success", "Refused"}]
    BY <1>9 DEF ChatLogin
  <2> QED  BY <1>9, <2>2, <2>3 DEF ChatLogin
<1> QED
  BY <1>1, <1>2, <1>3, <1>4, <1>5, <1>6, <1>7, <1>8, <1>9 DEF StatusStep

LEMMA NextType == TypeOK /\ [Next]_vars => TypeOK'
<1> SUFFICES ASSUME TypeOK, [Next]_vars PROVE TypeOK'
  OBVIOUS
<1>1. CASE UNCHANGED vars
  BY <1>1 DEF TypeOK, vars, fleet, pick, client
<1>2. CASE Next
  BY <1>2, FleetType, RequestType DEF Next
<1> QED  BY <1>1, <1>2

\* The variables of the status server, its clients and the chat servers keep
\* their types (TypeOK of StatusBalance).
THEOREM StatusTypeCorrect == Spec => []TypeOK
  BY InitType, NextType, PTL DEF Spec
-----------------------------------------------------------------------------
(* Tokens.                                                                 *)

\* A request the gate has not called with is unknown to the status server, an
\* answer comes after the token was stored, and then the user's token is that
\* of a request of this user which was stored too.
TokenInv ==
  \A r \in Requests :
    /\ gate[r] = "none" => rpc[r] = "none"
    /\ gate[r] = "answered" => rpc[r] = "replied"
    /\ rpc[r] = "replied" =>
         /\ utoken[UserOf[r]] \in Requests
         /\ rpc[utoken[UserOf[r]]] = "replied"
         /\ UserOf[utoken[UserOf[r]]] = UserOf[r]

LEMMA TokenInductive == TypeOK /\ TokenInv /\ [Next]_vars => TokenInv'
<1> SUFFICES ASSUME TypeOK, TokenInv, [Next]_vars PROVE TokenInv'
  OBVIOUS
<1>0. /\ gate \in [Requests -> {"none", "waiting", "answered", "failed"}]
      /\ rpc \in [Requests -> {"none", "called", "first", "scan", "insert",
                               "replied"}]
      /\ utoken \in [Users -> Requests \cup {Nil}]
  BY DEF TypeOK
<1>1. ASSUME UNCHANGED <<rpc, utoken, gate>> PROVE TokenInv'
  BY <1>1 DEF TokenInv
<1>2. ASSUME NEW r \in Requests, UserLogin(r) PROVE TokenInv'
  BY <1>0, <1>2 DEF UserLogin, TokenInv
<1>3. ASSUME NEW r \in Requests, Answer(r) \/ GiveUp(r) PROVE TokenInv'
  BY <1>0, <1>3 DEF Answer, GiveUp, TokenInv
<1>4. ASSUME NEW r \in Requests,
             LockServers(r) \/ ReadFirst(r) \/ UnlockServers(r)
      PROVE  TokenInv'
  <2>1. /\ rpc[r] \notin {"none", "replied"} /\ rpc'[r] # "replied"
        /\ \A q \in Requests : q # r => rpc'[q] = rpc[q]
        /\ UNCHANGED <<gate, utoken>>
    BY <1>0, <1>4 DEF LockServers, ReadFirst, UnlockServers, client
  <2> QED  BY <1>0, <2>1 DEF TokenInv
<1>5. ASSUME NEW r \in Requests, InsertToken(r) PROVE TokenInv'
  <2>1. /\ rpc[r] = "insert" /\ rpc'[r] = "replied" /\ UNCHANGED gate
        /\ \A q \in Requests : q # r => rpc'[q] = rpc[q]
    BY <1>0, <1>5 DEF InsertToken, client
  <2>2. \A q \in Requests :
          utoken'[UserOf[q]] = IF UserOf[q] = UserOf[r] THEN r
                               ELSE utoken[UserOf[q]]
    BY <1>0, <1>5, Owner DEF InsertToken
  <2> QED  BY <1>0, <2>1, <2>2 DEF TokenInv
<1>6. ASSUME NEW a \in Servers,
             Start(a) \/ Stop(a) \/ Crash(a) \/ OnTimer(a) \/ Leave(a)
      PROVE  TokenInv'
  <2>1. UNCHANGED <<rpc, utoken, gate>>
    BY <1>6 DEF Start, Stop, Crash, OnTimer, Leave, client
  <2> QED  BY <1>1, <2>1
<1>7. ASSUME NEW r \in Requests, Scan(r) \/ ChatLogin(r) PROVE TokenInv'
  <2>1. UNCHANGED <<rpc, utoken, gate>>
    BY <1>7 DEF Scan, ChatLogin, client
  <2> QED  BY <1>1, <2>1
<1>8. CASE UNCHANGED vars
  <2>1. UNCHANGED <<rpc, utoken, gate>>
    BY <1>8 DEF vars, client
  <2> QED  BY <1>1, <2>1
<1> QED
  BY <1>2, <1>3, <1>4, <1>5, <1>6, <1>7, <1>8 DEF Next, StatusStep

\* What has been stored and answered stays so.
LEMMA RepliedStays ==
  ASSUME TypeOK, TokenInv, [Next]_vars, NEW q \in Requests,
         rpc[q] = "replied"
  PROVE  rpc'[q] = "replied"
<1>0. rpc \in [Requests -> {"none", "called", "first", "scan", "insert",
                            "replied"}]
  BY DEF TypeOK
<1>1. ASSUME NEW r \in Requests, UserLogin(r) PROVE rpc'[q] = "replied"
  BY <1>0, <1>1 DEF UserLogin, TokenInv
<1>2. ASSUME NEW r \in Requests, StatusStep(r) PROVE rpc'[q] = "replied"
  BY <1>0, <1>2
  DEF StatusStep, LockServers, ReadFirst, Scan, UnlockServers, InsertToken
<1>3. ASSUME NEW r \in Requests, Answer(r) \/ GiveUp(r) \/ ChatLogin(r)
      PROVE  rpc'[q] = "replied"
  BY <1>3 DEF Answer, GiveUp, ChatLogin
<1>4. ASSUME NEW a \in Servers,
             Start(a) \/ Stop(a) \/ Crash(a) \/ OnTimer(a) \/ Leave(a)
      PROVE  rpc'[q] = "replied"
  BY <1>4 DEF Start, Stop, Crash, OnTimer, Leave
<1>5. CASE UNCHANGED vars
  BY <1>5 DEF vars
<1> QED  BY <1>1, <1>2, <1>3, <1>4, <1>5 DEF Next

LEMMA RefusedInductive ==
  TypeOK /\ TokenInv /\ RefusedIfReplaced /\ [Next]_vars => RefusedIfReplaced'
<1> SUFFICES ASSUME TypeOK, TokenInv, RefusedIfReplaced, [Next]_vars,
                    NEW r \in Requests, login'[r] = "Refused"
             PROVE  \E q \in Requests \ {r} :
                      UserOf[q] = UserOf[r] /\ rpc'[q] = "replied"
  BY DEF RefusedIfReplaced
<1>1. CASE login[r] = "Refused"
  BY <1>1, RepliedStays DEF RefusedIfReplaced
<1>2. CASE login[r] # "Refused"
  <2>1. PICK q \in Requests : ChatLogin(q)
    BY <1>2 DEF Next, vars, Start, Stop, Crash, OnTimer, Leave, UserLogin,
                Answer, GiveUp, StatusStep, LockServers, ReadFirst, Scan,
                UnlockServers, InsertToken, client
  <2>2. r = q /\ gate[r] = "answered" /\ utoken[UserOf[r]] # r
    BY <1>2, <2>1 DEF ChatLogin, TypeOK
  <2>3. rpc[r] = "replied"
    BY <2>2 DEF TokenInv
  <2> QED  BY <2>2, <2>3, RepliedStays DEF TokenInv
<1> QED  BY <1>1, <1>2

LEMMA InitToken == Init => TokenInv /\ RefusedIfReplaced
  BY DEF Init, TokenInv, RefusedIfReplaced

\* The chat server refuses a token it was given by the gate only when another
\* request of the same user has stored a newer one (insertToken before the
\* answer, LoginHandler's comparison).
THEOREM RefusedIfReplacedHolds == Spec => []RefusedIfReplaced
<1>1. TypeOK /\ TokenInv /\ RefusedIfReplaced /\ [Next]_vars
        => (TypeOK /\ TokenInv /\ RefusedIfReplaced)'
  BY NextType, TokenInductive, RefusedInductive
<1> QED  BY <1>1, InitType, InitToken, PTL DEF Spec

LEMMA TokenGivesWork == TypeOK /\ TokenInv => SomeTokenWorks
<1> SUFFICES ASSUME TypeOK, TokenInv, NEW u \in Users,
                    NEW r \in Requests, UserOf[r] = u, gate[r] # "none",
                    \A q \in Requests : UserOf[q] = u /\ gate[q] # "none"
                      => gate[q] = "answered"
             PROVE  \E q \in Requests : /\ UserOf[q] = u /\ gate[q] # "none"
                                        /\ utoken[u] = q
  BY DEF SomeTokenWorks
<1>1. rpc[r] = "replied"
  BY DEF TokenInv
<1>2. utoken[u] \in Requests /\ UserOf[utoken[u]] = u /\ gate[utoken[u]] # "none"
  BY <1>1 DEF TokenInv
<1> QED  BY <1>2

\* A user whose requests have all been answered holds a token that works, in
\* whatever order the threads stored them.
THEOREM SomeTokenWorksHolds == Spec => []SomeTokenWorks
<1>1. TypeOK /\ TokenInv /\ [Next]_vars => (TypeOK /\ TokenInv)'
  BY NextType, TokenInductive
<1> QED  BY <1>1, InitType, InitToken, TokenGivesWork, PTL DEF Spec
-----------------------------------------------------------------------------
(* The server picked.                                                      *)

\* A request in flight has seen each server's present count; what it has found
\* so far was a server's count and no larger than those of the servers passed.
PickOf(r) ==
  /\ rpc[r] \in {"none", "called", "first"} => next[r] = 1
  /\ InFlight(r) => \A a \in Servers : loginCount[a] \in window[r][a]
  /\ rpc[r] \in {"scan", "insert", "replied"} =>
       \E c \in window[r][best[r][1]] : best[r][2] = Count(c)
  /\ rpc[r] = "scan" => \A i \in 1 .. Len(Order) : i < next[r] =>
       \E c \in window[r][Order[i]] : best[r][2] <= Count(c)
  /\ rpc[r] \in {"insert", "replied"} => \A a \in Servers :
       \E c \in window[r][a] : best[r][2] <= Count(c)

PickInv == \A r \in Requests : PickOf(r)

\* A step that leaves a request where it is and only adds to its window.
LEMMA PickStays ==
  ASSUME TypeOK, NEW q \in Requests, PickOf(q),
         rpc'[q] = rpc[q], next'[q] = next[q], best'[q] = best[q],
         \A a \in Servers : window[q][a] \subseteq window'[q][a],
         InFlight(q) => \A a \in Servers : loginCount'[a] \in window'[q][a]
  PROVE  PickOf(q)'
<1>1. best[q][1] \in Servers
  BY DEF TypeOK
<1>2. \A i \in 1 .. Len(Order) : Order[i] \in Servers
  BY DEF Servers
<1>3. Order' = Order /\ Servers' = Servers
  BY DEF Servers
<1> QED  BY <1>1, <1>2, <1>3 DEF PickOf, InFlight, Count

\* HSet shows the new counts to every request in flight.
LEMMA PickHSet ==
  ASSUME TypeOK, PickInv, NEW counts \in [Servers -> Nat \cup {Nil}],
         HSet(counts), UNCHANGED <<rpc, next, best>>
  PROVE  PickInv'
<1> SUFFICES ASSUME NEW q \in Requests PROVE PickOf(q)'
  BY DEF PickInv
<1>1. PickOf(q)
  BY DEF PickInv
<1>2. \A a \in Servers : window[q][a] \subseteq window'[q][a]
  BY DEF HSet
<1>3. InFlight(q) => \A a \in Servers : loginCount'[a] \in window'[q][a]
  BY DEF HSet
<1> QED  BY <1>1, <1>2, <1>3, PickStays

\* A step of one request leaves the others alone.
LEMMA PickOthers ==
  ASSUME TypeOK, PickInv, NEW r \in Requests, UNCHANGED loginCount,
         \A q \in Requests : q # r => /\ rpc'[q] = rpc[q] /\ next'[q] = next[q]
                                      /\ best'[q] = best[q]
                                      /\ window'[q] = window[q],
         PickOf(r)'
  PROVE  PickInv'
<1> SUFFICES ASSUME NEW q \in Requests PROVE PickOf(q)'
  BY DEF PickInv
<1>1. CASE q = r
  BY <1>1
<1>2. CASE q # r
  <2>1. PickOf(q)
    BY DEF PickInv
  <2>2. InFlight(q) => \A a \in Servers : loginCount'[a] \in window'[q][a]
    BY <1>2, <2>1 DEF PickOf
  <2> QED  BY <1>2, <2>1, <2>2, PickStays
<1> QED  BY <1>1, <1>2

\* One round of the loop: the smaller of what was found and the entry's count.
LEMMA PickScan ==
  ASSUME TypeOK, PickInv, NEW r \in Requests, Scan(r)
  PROVE  PickInv'
<1> DEFINE a == Order[next[r]]
<1>0. /\ next \in [Requests -> 1 .. Len(Order) + 1]
      /\ best \in [Requests -> Servers \X Nat]
      /\ rpc[r] = "scan" /\ next[r] \in 1 .. Len(Order) /\ Len(Order) \in Nat
  BY FirstServer DEF TypeOK, Scan
<1>1. a \in Servers
  BY <1>0 DEF Servers
<1>2. loginCount[a] \in window[r][a] /\ HGet(a) = Count(loginCount[a])
  BY <1>0, <1>1 DEF PickInv, PickOf, InFlight, HGet
<1>3. HGet(a) \in Nat /\ best[r][2] \in Nat
  BY <1>0, <1>1, CountIsNat DEF HGet, TypeOK
<1>4. /\ next'[r] = next[r] + 1 /\ UNCHANGED <<rpc, loginCount, window>>
      /\ best'[r] = IF HGet(a) < best[r][2] THEN <<a, HGet(a)>> ELSE best[r]
      /\ \A q \in Requests : q # r => next'[q] = next[q] /\ best'[q] = best[q]
  BY <1>0 DEF Scan
<1>5. best'[r][2] \in Nat /\ best'[r][2] <= best[r][2] /\ best'[r][2] <= HGet(a)
  BY <1>3, <1>4
<1>6. \E c \in window[r][best'[r][1]] : best'[r][2] = Count(c)
  BY <1>0, <1>2, <1>4 DEF PickInv, PickOf
<1>7. ASSUME NEW i \in 1 .. Len(Order), i < next'[r]
      PROVE  \E c \in window[r][Order[i]] : best'[r][2] <= Count(c)
  <2>1. CASE i = next[r]
    BY <1>2, <1>5, <2>1
  <2>2. CASE i < next[r]
    <3>1. PICK c \in window[r][Order[i]] : best[r][2] <= Count(c)
      BY <1>0, <2>2 DEF PickInv, PickOf
    <3>2. Count(c) \in Nat
      <4>1. Order[i] \in Servers
        BY DEF Servers
      <4> QED  BY <3>1, <4>1, CountIsNat DEF TypeOK
    <3>3. best'[r][2] <= Count(c)
      BY <1>3, <1>5, <3>1, <3>2
    <3> QED  BY <3>1, <3>3
  <2>3. i <= next[r]
    BY <1>0, <1>4, <1>7
  <2> QED  BY <1>0, <2>1, <2>2, <2>3
<1>8. InFlight(r) /\ \A b \in Servers : loginCount[b] \in window[r][b]
  BY <1>0 DEF PickInv, PickOf, InFlight
<1>9. PickOf(r)'
  BY <1>0, <1>4, <1>6, <1>7, <1>8 DEF PickOf, InFlight, Count, Servers
<1> QED  BY <1>4, <1>9, PickOthers

LEMMA PickInductive ==
  TypeOK /\ TokenInv /\ PickInv /\ [Next]_vars => PickInv'
<1> SUFFICES ASSUME TypeOK, TokenInv, PickInv, [Next]_vars PROVE PickInv'
  OBVIOUS
<1>0. /\ rpc \in [Requests -> {"none", "called", "first", "scan", "insert",
                               "replied"}]
      /\ best \in [Requests -> Servers \X Nat]
      /\ next \in [Requests -> 1 .. Len(Order) + 1]
      /\ window \in [Requests -> [Servers -> SUBSET (Nat \cup {Nil})]]
      /\ loginCount \in [Servers -> Nat \cup {Nil}]
  BY DEF TypeOK
<1>1. ASSUME UNCHANGED <<loginCount, rpc, next, best, window>> PROVE PickInv'
  BY <1>1 DEF PickInv, PickOf, InFlight, Count, Servers
<1>2. ASSUME NEW a \in Servers, Start(a) \/ Stop(a) \/ OnTimer(a)
      PROVE  PickInv'
  <2>1. PICK c \in Nat \cup {Nil} : HSet([loginCount EXCEPT ![a] = c])
    <3>1. conns[a] \in Nat
      BY Bounds DEF TypeOK
    <3> QED  BY <1>2, <3>1 DEF Start, Stop, OnTimer
  <2>2. [loginCount EXCEPT ![a] = c] \in [Servers -> Nat \cup {Nil}]
    BY <1>0
  <2>3. UNCHANGED <<rpc, next, best>>
    BY <1>2 DEF Start, Stop, OnTimer, pick
  <2> QED  BY <2>1, <2>2, <2>3, PickHSet
<1>3. ASSUME NEW a \in Servers, Crash(a) \/ Leave(a) PROVE PickInv'
  <2>1. UNCHANGED <<loginCount, rpc, next, best, window>>
    BY <1>3 DEF Crash, Leave, pick
  <2> QED  BY <1>1, <2>1
<1>4. ASSUME NEW r \in Requests, Answer(r) \/ GiveUp(r) \/ ChatLogin(r)
      PROVE  PickInv'
  <2>1. UNCHANGED <<loginCount, rpc, next, best, window>>
    BY <1>4 DEF Answer, GiveUp, ChatLogin, pick
  <2> QED  BY <1>1, <2>1
<1> DEFINE Alone(r) ==
      /\ UNCHANGED loginCount
      /\ \A q \in Requests : q # r => /\ rpc'[q] = rpc[q] /\ next'[q] = next[q]
                                      /\ best'[q] = best[q]
                                      /\ window'[q] = window[q]
<1>5. ASSUME NEW r \in Requests, LockServers(r) PROVE PickInv'
  <2>1. /\ Alone(r) /\ rpc[r] = "called" /\ rpc'[r] = "first"
        /\ next'[r] = next[r]
    BY <1>0, <1>5 DEF LockServers
  <2>2. \A a \in Servers : loginCount'[a] \in window'[r][a]
    BY <1>0, <1>5 DEF LockServers
  <2>3. next'[r] = 1
    BY <2>1 DEF PickInv, PickOf
  <2>4. PickOf(r)'
    BY <2>1, <2>2, <2>3 DEF PickOf, Servers
  <2> QED  BY <2>1, <2>4, PickOthers
<1>6. ASSUME NEW r \in Requests, ReadFirst(r) PROVE PickInv'
  <2>1. /\ Alone(r) /\ rpc[r] = "first" /\ rpc'[r] = "scan"
        /\ next'[r] = next[r] /\ window' = window /\ loginCount' = loginCount
        /\ best'[r] = <<Order[1], Count(loginCount[Order[1]])>>
    BY <1>0, <1>6 DEF ReadFirst, HGet
  <2>2. next[r] = 1 /\ \A a \in Servers : loginCount[a] \in window[r][a]
    BY <2>1 DEF PickInv, PickOf, InFlight
  <2>3. \E c \in window'[r][best'[r][1]] : best'[r][2] = Count(c)
    BY <2>1, <2>2, FirstServer
  <2>4. PickOf(r)'
    BY <2>1, <2>2, <2>3, FirstServer DEF PickOf, InFlight, Count, Servers
  <2> QED  BY <2>1, <2>4, PickOthers
<1>7. ASSUME NEW r \in Requests, Scan(r) PROVE PickInv'
  BY <1>7, PickScan
<1>8. ASSUME NEW r \in Requests, UnlockServers(r) PROVE PickInv'
  <2>1. /\ Alone(r) /\ rpc[r] = "scan" /\ rpc'[r] = "insert"
        /\ next[r] > Len(Order) /\ UNCHANGED <<next, best, window>>
    BY <1>0, <1>8 DEF UnlockServers
  <2>2. \E c \in window[r][best[r][1]] : best[r][2] = Count(c)
    BY <2>1 DEF PickInv, PickOf
  <2>3. ASSUME NEW a \in Servers
        PROVE  \E c \in window[r][a] : best[r][2] <= Count(c)
    <3>1. PICK i \in 1 .. Len(Order) : Order[i] = a
      BY DEF Servers
    <3>2. i < next[r]
      BY <1>0, <2>1, FirstServer
    <3> QED  BY <2>1, <3>1, <3>2 DEF PickInv, PickOf
  <2>4. PickOf(r)'
    BY <2>1, <2>2, <2>3 DEF PickOf, InFlight, Count, Servers
  <2> QED  BY <2>1, <2>4, PickOthers
<1>9. ASSUME NEW r \in Requests, InsertToken(r) PROVE PickInv'
  <2>1. /\ Alone(r) /\ rpc[r] = "insert" /\ rpc'[r] = "replied"
        /\ UNCHANGED <<next, best, window>>
    BY <1>0, <1>9 DEF InsertToken, pick
  <2>2. PickOf(r)'
    BY <2>1 DEF PickInv, PickOf, InFlight, Count, Servers
  <2> QED  BY <2>1, <2>2, PickOthers
<1>10. ASSUME NEW r \in Requests, UserLogin(r) PROVE PickInv'
  <2>1. /\ Alone(r) /\ gate[r] = "none" /\ rpc'[r] = "called"
        /\ UNCHANGED <<next, best, window>>
    BY <1>0, <1>10 DEF UserLogin, pick
  <2>2. next[r] = 1
    BY <2>1 DEF PickInv, PickOf, TokenInv
  <2>3. PickOf(r)'
    BY <2>1, <2>2 DEF PickOf, InFlight, Count, Servers
  <2> QED  BY <2>1, <2>3, PickOthers
<1>11. CASE UNCHANGED vars
  <2>1. UNCHANGED <<loginCount, rpc, next, best, window>>
    BY <1>11 DEF vars, pick
  <2> QED  BY <1>1, <2>1
<1> QED
  BY <1>2, <1>3, <1>4, <1>5, <1>6, <1>7, <1>8, <1>9, <1>10, <1>11
  DEF Next, StatusStep

LEMMA InitPick == Init => PickInv
  BY DEF Init, PickInv, PickOf, InFlight

\* getChatServer hands out a server whose count it had read was one the server
\* had during the scan, and every server that had a count all through the scan
\* had one no smaller, whatever the chat servers write meanwhile.
THEOREM PickedWasLeastHolds == Spec => []PickedWasLeast
<1>1. TypeOK /\ TokenInv /\ PickInv /\ [Next]_vars
        => (TypeOK /\ TokenInv /\ PickInv)'
  BY NextType, TokenInductive, PickInductive
<1>2. PickInv => PickedWasLeast
  <2> SUFFICES ASSUME PickInv, NEW r \in Requests,
                      rpc[r] \in {"insert", "replied"}
               PROVE  /\ \E c \in window[r][best[r][1]] : best[r][2] = Count(c)
                      /\ \A a \in Servers : Nil \notin window[r][a] =>
                           \E c \in window[r][a] : best[r][2] <= c
    BY DEF PickedWasLeast
  <2>1. PickOf(r)
    BY DEF PickInv
  <2> QED  BY <2>1 DEF PickOf, Count
<1> QED  BY <1>1, <1>2, InitType, InitToken, InitPick, PTL DEF Spec
=============================================================================
