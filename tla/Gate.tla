-------------------------------- MODULE Gate --------------------------------
(***************************************************************************)
(* GateServer with the services behind it: the HTTP connections, each on   *)
(* one io thread, and the handlers for verification codes, registration,   *)
(* password reset and login.  A handler blocks its thread from the request *)
(* to the start of the reply, so that the connections of one thread take   *)
(* turns; handlers of different threads mix step by step.                  *)
(*                                                                         *)
(* VarifyServer's GetVarifyCode runs while the handler waits.  MySQL is    *)
(* modelled as the code uses it: statements of a transaction read the      *)
(* snapshot of its first SELECT, UPDATE user_id waits for the row, and     *)
(* INSERT fails on a duplicate of one of UniqueKeys (the schema is not in  *)
(* the repository).  Codes are counted, so that no two are equal.          *)
(***************************************************************************)
EXTENDS Naturals, FiniteSets

CONSTANTS
  Conns,        \* HTTP connections, one request each
  Threads, OnThread,   \* io threads, and the thread of a connection
  Emails, Names, Pwds,
  Requests,     \* connection -> the requests its client may send
  Accounts0, Mailed0,  \* accounts, and addresses with a code, at the start
  UniqueKeys,   \* the columns of user with a unique index besides uid
  MaxCodes,     \* bound: codes
  MaxFlaws      \* bound: failures of Redis, MySQL, mail, RPCs and clients,
                \* and codes that expire

Wrong == 0      \* a code nobody was sent, and no code
Code  == 1 .. MaxCodes
Account == [uid : Nat, name : Names, email : Emails, pwd : Pwds]
Request == [kind : {"code", "register", "reset", "login",
                    "bad", "odd", "other"},
            name : Names, email : Emails, pwd : Pwds, quotes : Emails]
NoRequest == [kind |-> "none"]
Places == {"none", "getCode", "setCode", "mail", "checkCode", "selectEmail",
           "selectName", "updateId", "insert", "commit", "checkEmail",
           "updatePwd", "checkPwd", "chatServer", "reply", "throw", "ignore"}

ASSUME GateAssumption ==
  /\ OnThread \in [Conns -> Threads]
  /\ Requests \in [Conns -> SUBSET Request]
  /\ Accounts0 \subseteq Account /\ IsFiniteSet(Accounts0)
  /\ \A a \in Accounts0 : a.uid \in 1 .. Cardinality(Accounts0)
  /\ \A a, b \in Accounts0 : a.uid = b.uid => a = b
  /\ Mailed0 \subseteq Emails /\ IsFiniteSet(Mailed0)
  /\ Cardinality(Mailed0) <= MaxCodes
  /\ UniqueKeys \subseteq {"name", "email"}
  /\ MaxCodes \in Nat /\ MaxFlaws \in Nat

VARIABLES
  conn,       \* connection -> "reading", "handling", "writing", "closed"
  armed,      \* connections whose deadline_ is waited for
  stalled,    \* connections no write of which will end: the client does not
              \* read (external), or nothing was written
  at,         \* connection -> the next step of its handler
  req, quoted,  \* connection -> its request, and the code it quotes
  answer,     \* connection -> "none", "ok", "error"
  found,      \* connection -> the code VarifyServer found or made
  snap,       \* connection -> the accounts its transaction sees
  newId,      \* connection -> newId of its registration
  accounts, userId, rowLock,   \* tables user and user_id, user_id's row lock
  code, lasting,  \* Redis: address -> code; addresses whose key has no expiry
  inbox,      \* address -> the codes mailed to it
  made,       \* codes made so far
  flaws       \* failures and expiries so far (bound)

httpVars  == <<conn, armed, stalled>>
reqVars   == <<req, quoted>>
mysqlVars == <<accounts, userId, rowLock>>
codeVars  == <<code, lasting, inbox, made>>
vars == <<httpVars, at, reqVars, answer, found, snap, newId, mysqlVars,
          codeVars, flaws>>

\* Some codes of earlier, all different.
Code0 == CHOOSE f \in [Mailed0 -> 1 .. Cardinality(Mailed0)] :
           \A d, e \in Mailed0 : f[d] = f[e] => d = e

Init ==
  /\ conn = [c \in Conns |-> "reading"] /\ armed = {} /\ stalled = {}
  /\ at = [c \in Conns |-> "none"]
  /\ req = [c \in Conns |-> NoRequest]
  /\ quoted = [c \in Conns |-> Wrong] /\ answer = [c \in Conns |-> "none"]
  /\ found = [c \in Conns |-> Wrong] /\ snap = [c \in Conns |-> {}]
  /\ newId = [c \in Conns |-> 0]
  /\ accounts = Accounts0 /\ userId = Cardinality(Accounts0) /\ rowLock = {}
  /\ made = Cardinality(Mailed0)
  /\ code = [e \in Emails |-> IF e \in Mailed0 THEN Code0[e] ELSE Wrong]
  /\ inbox = [e \in Emails |-> IF e \in Mailed0 THEN {Code0[e]} ELSE {}]
  /\ lasting = {} /\ flaws = 0
-----------------------------------------------------------------------------
(* Where a handler stands.                                                 *)

At(c, p) == conn[c] = "handling" /\ at[c] = p

\* It goes on, or has its answer.
GoesOn(c, p)  == at' = [at EXCEPT ![c] = p] /\ UNCHANGED answer
Answers(c, a) == /\ at' = [at EXCEPT ![c] = "reply"]
                 /\ answer' = [answer EXCEPT ![c] = a]

Fails == flaws < MaxFlaws /\ flaws' = flaws + 1

\* The io thread of c runs no handler.
ThreadFree(c) ==
  \A d \in Conns : OnThread[d] = OnThread[c] => conn[d] # "handling"

FirstStep(kind) ==
  CASE kind = "code" -> "getCode"
    [] kind \in {"register", "reset"} -> "checkCode"
    [] kind = "login" -> "checkPwd"
    [] kind = "bad" -> "reply"
    [] kind = "odd" -> "throw"
    [] kind = "other" -> "ignore"
-----------------------------------------------------------------------------
(* HttpConnection.                                                         *)

\* The request is read and its handler starts.  A "bad" request is one the
\* handler refuses by itself: no JSON, no such URL, a repeated password that
\* differs.  An "odd" one has JSON of other types than the handler converts,
\* an "other" one is neither a GET nor a POST.  The client quotes a code from
\* the mails to the address r.quotes.
HandleReq(c) ==
  /\ conn[c] = "reading" /\ ThreadFree(c)
  /\ conn' = [conn EXCEPT ![c] = "handling"]
  /\ \E r \in Requests[c] :
       /\ req' = [req EXCEPT ![c] = r]
       /\ at' = [at EXCEPT ![c] = FirstStep(r.kind)]
       /\ answer' = IF r.kind = "bad" THEN [answer EXCEPT ![c] = "error"]
                    ELSE answer
       /\ \E q \in IF inbox[r.quotes] = {} THEN {Wrong} ELSE inbox[r.quotes] :
            quoted' = [quoted EXCEPT ![c] = q]
  /\ UNCHANGED <<armed, stalled, found, snap, newId, mysqlVars, codeVars,
                 flaws>>

\* The conversion throws; nothing keeps the connection alive any longer.
Throws(c) ==
  /\ At(c, "throw")
  /\ conn' = [conn EXCEPT ![c] = "closed"] /\ at' = [at EXCEPT ![c] = "none"]
  /\ UNCHANGED <<armed, stalled, reqVars, answer, found, snap, newId, mysqlVars,
                 codeVars, flaws>>

\* HandleReq answers nothing, so that only the deadline ends the connection.
Ignores(c) ==
  /\ At(c, "ignore")
  /\ conn' = [conn EXCEPT ![c] = "writing"] /\ armed' = armed \cup {c}
  /\ stalled' = stalled \cup {c} /\ at' = [at EXCEPT ![c] = "none"]
  /\ UNCHANGED <<reqVars, answer, found, snap, newId, mysqlVars, codeVars,
                 flaws>>

\* The client goes away before its request is complete.
ReadError(c) ==
  /\ conn[c] = "reading" /\ ThreadFree(c)
  /\ Fails /\ conn' = [conn EXCEPT ![c] = "closed"]
  /\ UNCHANGED <<armed, stalled, at, reqVars, answer, found, snap, newId,
                 mysqlVars, codeVars>>

\* Mutant: the deadline is not waited for.
WriteResponse_NoDeadline(c) ==
  /\ At(c, "reply")
  /\ conn' = [conn EXCEPT ![c] = "writing"]
  /\ at' = [at EXCEPT ![c] = "none"]
  /\ UNCHANGED <<armed, stalled, reqVars, answer, found, snap, newId, mysqlVars,
                 codeVars, flaws>>

\* async_write of the response, and CheckDeadline.
WriteResponse(c) ==
  /\ At(c, "reply")
  /\ conn' = [conn EXCEPT ![c] = "writing"] /\ armed' = armed \cup {c}
  /\ at' = [at EXCEPT ![c] = "none"]
  /\ UNCHANGED <<stalled, reqVars, answer, found, snap, newId, mysqlVars,
                 codeVars, flaws>>

\* Mutant: the deadline goes on after the response was written.
WriteEnds_NoCancel(c) ==
  /\ conn[c] = "writing" /\ c \notin stalled /\ ThreadFree(c)
  /\ conn' = [conn EXCEPT ![c] = "closed"]
  /\ UNCHANGED <<armed, stalled, at, reqVars, answer, found, snap, newId,
                 mysqlVars, codeVars, flaws>>

\* The response is written, or the write fails: shutdown and cancel.
WriteEnds(c) ==
  /\ conn[c] = "writing" /\ c \notin stalled /\ ThreadFree(c)
  /\ conn' = [conn EXCEPT ![c] = "closed"] /\ armed' = armed \ {c}
  /\ UNCHANGED <<stalled, at, reqVars, answer, found, snap, newId, mysqlVars,
                 codeVars, flaws>>

\* deadline_ fires: the socket is closed, which ends the write.
DeadlineFires(c) ==
  /\ c \in armed /\ ThreadFree(c)
  /\ conn' = [conn EXCEPT ![c] = "closed"] /\ armed' = armed \ {c}
  /\ UNCHANGED <<stalled, at, reqVars, answer, found, snap, newId, mysqlVars,
                 codeVars, flaws>>

\* The client stops reading and stays connected.
ClientStalls(c) ==
  /\ conn[c] = "writing" /\ c \notin stalled
  /\ Fails /\ stalled' = stalled \cup {c}
  /\ UNCHANGED <<conn, armed, at, reqVars, answer, found, snap, newId,
                 mysqlVars, codeVars>>
-----------------------------------------------------------------------------
(* /get_varifycode: GetVarifyCode of VarifyServer.                         *)

\* A code that is still in Redis is sent again; GetRedis answers null too
\* when Redis fails.
GetRedis(c) ==
  /\ At(c, "getCode")
  /\ \/ /\ code[req[c].email] # Wrong
        /\ found' = [found EXCEPT ![c] = code[req[c].email]]
        /\ GoesOn(c, "mail") /\ UNCHANGED flaws
     \/ /\ code[req[c].email] = Wrong
        /\ GoesOn(c, "setCode") /\ UNCHANGED <<found, flaws>>
     \/ Fails /\ GoesOn(c, "setCode") /\ UNCHANGED found
  /\ UNCHANGED <<httpVars, reqVars, snap, newId, mysqlVars, codeVars>>

\* SET and EXPIRE; either may fail, and EXPIRE after SET was done.
SetRedisExpire(c) ==
  /\ At(c, "setCode") /\ made < MaxCodes
  /\ made' = made + 1 /\ found' = [found EXCEPT ![c] = made + 1]
  /\ LET e == req[c].email IN
     \/ /\ code' = [code EXCEPT ![e] = made + 1] /\ lasting' = lasting \ {e}
        /\ GoesOn(c, "mail") /\ UNCHANGED flaws
     \/ /\ code' = [code EXCEPT ![e] = made + 1]
        /\ lasting' = lasting \cup {e}
        /\ Fails /\ Answers(c, "error")
     \/ Fails /\ Answers(c, "error") /\ UNCHANGED <<code, lasting>>
  /\ UNCHANGED <<httpVars, reqVars, snap, newId, mysqlVars, inbox>>

\* SendMail, and the RPC's reply.
SendMail(c) ==
  /\ At(c, "mail")
  /\ \/ /\ inbox' = [inbox EXCEPT ![req[c].email] = @ \cup {found[c]}]
        /\ Answers(c, "ok") /\ UNCHANGED flaws
     \/ Fails /\ Answers(c, "error") /\ UNCHANGED inbox
  /\ UNCHANGED <<httpVars, reqVars, found, snap, newId, mysqlVars, code,
                 lasting, made>>

\* The key's ten minutes are over.
CodeExpires(e) ==
  /\ Fails /\ code[e] # Wrong /\ e \notin lasting
  /\ code' = [code EXCEPT ![e] = Wrong]
  /\ UNCHANGED <<httpVars, at, reqVars, answer, found, snap, newId, mysqlVars,
                 lasting, inbox, made>>

\* /user_register and /reset_pwd: the code of the address in Redis.
CheckCode(c) ==
  /\ At(c, "checkCode")
  /\ \/ /\ code[req[c].email] # Wrong /\ code[req[c].email] = quoted[c]
        /\ GoesOn(c, IF req[c].kind = "register" THEN "selectEmail"
                     ELSE "checkEmail")
        /\ UNCHANGED flaws
     \/ /\ code[req[c].email] = Wrong \/ code[req[c].email] # quoted[c]
        /\ Answers(c, "error") /\ UNCHANGED flaws
     \/ Fails /\ Answers(c, "error")
  /\ UNCHANGED <<httpVars, reqVars, found, snap, newId, mysqlVars, codeVars>>
-----------------------------------------------------------------------------
(* /user_register: RegUserTransaction.                                     *)

\* An error ends the transaction; what it had written is taken back.
Rollback(c) == Answers(c, "error") /\ rowLock' = rowLock \ {c}

\* No connection of the pool, or an exception in a statement.
StatementFails(c) ==
  /\ \E p \in {"selectEmail", "selectName", "updateId", "insert"} : At(c, p)
  /\ Fails /\ Rollback(c)
  /\ UNCHANGED <<httpVars, reqVars, found, snap, newId, accounts, userId,
                 codeVars>>

\* The first SELECT of the transaction takes its snapshot.
SelectEmail(c) ==
  /\ At(c, "selectEmail")
  /\ snap' = [snap EXCEPT ![c] = accounts]
  /\ IF \E a \in accounts : a.email = req[c].email THEN Answers(c, "error")
     ELSE GoesOn(c, "selectName")
  /\ UNCHANGED <<httpVars, reqVars, found, newId, mysqlVars, codeVars, flaws>>

SelectName(c) ==
  /\ At(c, "selectName")
  /\ IF \E a \in snap[c] : a.name = req[c].name THEN Answers(c, "error")
     ELSE GoesOn(c, "updateId")
  /\ UNCHANGED <<httpVars, reqVars, found, snap, newId, mysqlVars, codeVars,
                 flaws>>

\* Mutant: the new id is computed from the one read before, without the lock.
UpdateId_ReadFirst(c) ==
  /\ At(c, "updateId")
  /\ newId' = [newId EXCEPT ![c] = userId + 1]
  /\ GoesOn(c, "insert")
  /\ UNCHANGED <<httpVars, reqVars, found, snap, mysqlVars, codeVars, flaws>>

\* UPDATE user_id waits for the row and keeps it until the transaction ends;
\* SELECT id then reads what this transaction has written.
UpdateId(c) ==
  /\ At(c, "updateId") /\ rowLock = {}
  /\ rowLock' = {c} /\ newId' = [newId EXCEPT ![c] = userId + 1]
  /\ GoesOn(c, "insert")
  /\ UNCHANGED <<httpVars, reqVars, found, snap, accounts, userId, codeVars,
                 flaws>>

\* A duplicate of a unique column is an exception like any other.
Insert(c) ==
  /\ At(c, "insert")
  /\ IF \E a \in accounts :
          \/ a.uid = newId[c]
          \/ "email" \in UniqueKeys /\ a.email = req[c].email
          \/ "name" \in UniqueKeys /\ a.name = req[c].name
     THEN Rollback(c)
     ELSE GoesOn(c, "commit") /\ UNCHANGED rowLock
  /\ UNCHANGED <<httpVars, reqVars, found, snap, newId, accounts, userId,
                 codeVars, flaws>>

Committed(c) ==
  /\ accounts' = accounts \cup
       {[uid |-> newId[c], name |-> req[c].name, email |-> req[c].email,
         pwd |-> req[c].pwd]}
  /\ userId' = newId[c]

\* A commit whose answer is lost may have been done.
Commit(c) ==
  /\ At(c, "commit") /\ rowLock' = rowLock \ {c}
  /\ \/ Committed(c) /\ Answers(c, "ok") /\ UNCHANGED flaws
     \/ Fails /\ Answers(c, "error")
        /\ (Committed(c) \/ UNCHANGED <<accounts, userId>>)
  /\ UNCHANGED <<httpVars, reqVars, found, snap, newId, codeVars>>
-----------------------------------------------------------------------------
(* /reset_pwd and /user_login.                                             *)

\* Mutant: it is enough that there is such a user.
CheckEmail_Exists(c) ==
  /\ At(c, "checkEmail")
  /\ \/ /\ \E a \in accounts : a.name = req[c].name
        /\ GoesOn(c, "updatePwd") /\ UNCHANGED flaws
     \/ /\ ~\E a \in accounts : a.name = req[c].name
        /\ Answers(c, "error") /\ UNCHANGED flaws
     \/ Fails /\ Answers(c, "error")
  /\ UNCHANGED <<httpVars, reqVars, found, snap, newId, mysqlVars, codeVars>>

\* The address of the first user of that name.
CheckEmail(c) ==
  /\ At(c, "checkEmail")
  /\ LET rows == {a \in accounts : a.name = req[c].name} IN
     \/ /\ \E a \in rows : a.email = req[c].email
        /\ GoesOn(c, "updatePwd") /\ UNCHANGED flaws
     \/ /\ rows = {} \/ \E a \in rows : a.email # req[c].email
        /\ Answers(c, "error") /\ UNCHANGED flaws
     \/ Fails /\ Answers(c, "error")
  /\ UNCHANGED <<httpVars, reqVars, found, snap, newId, mysqlVars, codeVars>>

\* Every row of that name; the update counts the rows it changes, so that the
\* old password as the new one is a failure.  Its answer may be lost.
UpdatePwd(c) ==
  /\ At(c, "updatePwd")
  /\ LET hit == {a \in accounts : a.name = req[c].name /\ a.pwd # req[c].pwd}
         updated == (accounts \ hit)
                      \cup {[a EXCEPT !.pwd = req[c].pwd] : a \in hit}
     IN \/ /\ accounts' = updated
           /\ Answers(c, IF hit = {} THEN "error" ELSE "ok") /\ UNCHANGED flaws
        \/ Fails /\ Answers(c, "error") /\ accounts' \in {accounts, updated}
  /\ UNCHANGED <<httpVars, reqVars, found, snap, newId, userId, rowLock,
                 codeVars>>

\* The password of the first user of that address.
CheckPwd(c) ==
  /\ At(c, "checkPwd")
  /\ LET rows == {a \in accounts : a.email = req[c].email} IN
     \/ /\ \E a \in rows : a.pwd = req[c].pwd
        /\ GoesOn(c, "chatServer") /\ UNCHANGED flaws
     \/ /\ rows = {} \/ \E a \in rows : a.pwd # req[c].pwd
        /\ Answers(c, "error") /\ UNCHANGED flaws
     \/ Fails /\ Answers(c, "error")
  /\ UNCHANGED <<httpVars, reqVars, found, snap, newId, mysqlVars, codeVars>>

\* StatusServer's GetChatServer, which StatusBalance models.
GetChatServer(c) ==
  /\ At(c, "chatServer")
  /\ \/ Answers(c, "ok") /\ UNCHANGED flaws
     \/ Fails /\ Answers(c, "error")
  /\ UNCHANGED <<httpVars, reqVars, found, snap, newId, mysqlVars, codeVars>>
-----------------------------------------------------------------------------
HandlerStep(c) ==
  \/ GetRedis(c) \/ SetRedisExpire(c) \/ SendMail(c) \/ CheckCode(c)
  \/ SelectEmail(c) \/ SelectName(c) \/ UpdateId(c) \/ Insert(c) \/ Commit(c)
  \/ StatementFails(c) \/ CheckEmail(c) \/ UpdatePwd(c) \/ CheckPwd(c)
  \/ GetChatServer(c) \/ WriteResponse(c) \/ Throws(c) \/ Ignores(c)

Next ==
  \/ \E c \in Conns : HandleReq(c) \/ ReadError(c) \/ HandlerStep(c)
  \/ \E c \in Conns : WriteEnds(c) \/ DeadlineFires(c) \/ ClientStalls(c)
  \/ \E e \in Emails : CodeExpires(e)

Spec == Init /\ [][Next]_vars

(* The services answer, the io threads serve what is ready, and time       *)
(* passes.  Clients need not send, read or go away.                        *)
Progress == \E c \in Conns : HandlerStep(c) \/ WriteEnds(c) \/ DeadlineFires(c)

FairSpec == Spec /\ WF_vars(Progress)
-----------------------------------------------------------------------------
(* Properties                                                              *)

\* The variables keep their types, and a deadline is waited for only while a
\* response is being written.
TypeOK ==
  /\ conn \in [Conns -> {"reading", "handling", "writing", "closed"}]
  /\ armed \subseteq {c \in Conns : conn[c] = "writing"}
  /\ stalled \subseteq Conns /\ at \in [Conns -> Places]
  /\ req \in [Conns -> Request \cup {NoRequest}]
  /\ quoted \in [Conns -> Code \cup {Wrong}]
  /\ answer \in [Conns -> {"none", "ok", "error"}]
  /\ found \in [Conns -> Code \cup {Wrong}]
  /\ snap \in [Conns -> SUBSET Account] /\ newId \in [Conns -> Nat]
  /\ accounts \subseteq Account /\ userId \in Nat /\ rowLock \subseteq Conns
  /\ code \in [Emails -> Code \cup {Wrong}] /\ lasting \subseteq Emails
  /\ inbox \in [Emails -> SUBSET Code] /\ made \in 0 .. MaxCodes
  /\ flaws \in 0 .. MaxFlaws

\* However registrations mix, no two accounts get one uid, and whoever is told
\* that the registration succeeded has an account of that uid, name and
\* address: the id is taken by UPDATE before it is read.
EachItsAccount ==
  /\ \A a, b \in accounts : a.uid = b.uid => a = b
  /\ \A c \in Conns : req[c].kind = "register" /\ answer[c] = "ok" =>
       \E a \in accounts : /\ a.uid = newId[c] /\ a.name = req[c].name
                            /\ a.email = req[c].email
  /\ \A c, d \in Conns :
       /\ req[c].kind = "register" /\ answer[c] = "ok"
       /\ req[d].kind = "register" /\ answer[d] = "ok"
       /\ newId[c] = newId[d]
       => c = d

\* The passwords of the accounts of an address.
PwdsOf(e) == {a.pwd : a \in {b \in accounts : b.email = e}}

\* An account appears, and its password changes, only in the step of a request
\* for the account's own address that quotes a code mailed to it, whatever
\* name the request gives and whatever the other requests do between the
\* check of the code, the check of the address and the update.  (It needs the
\* unique index on the name, because the update goes by the name.)
ByMail ==
  \A e \in Emails : PwdsOf(e)' # PwdsOf(e) =>
    \E c \in Conns : /\ at[c] \in {"commit", "updatePwd"} /\ at'[c] = "reply"
                     /\ req[c].email = e /\ quoted[c] \in inbox[e]
OnlyByMail == [][ByMail]_vars

\* A connection whose request was read is closed in the end, whatever fails on
\* the way and even if its client stops reading the response.  (Before the
\* request is complete nothing limits it: see the README.)
RequestEnds ==
  \A c \in Conns : conn[c] = "handling" ~> conn[c] = "closed"
=============================================================================
