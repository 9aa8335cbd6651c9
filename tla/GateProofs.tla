----------------------------- MODULE GateProofs -----------------------------
(***************************************************************************)
(* Gate for any number of connections, threads, addresses and accounts:    *)
(* its types, that every registration gets an account and an id of its     *)
(* own, and that only who reads an address's mail can create its account   *)
(* or change its password.                                                 *)
(***************************************************************************)
EXTENDS Gate, FiniteSetTheorems, FunctionTheorems, TLAPS

-----------------------------------------------------------------------------
(* The initial state.                                                      *)

\* The codes of earlier are numbered from 1, one per address.
LEMMA Code0Type ==
  /\ Code0 \in [Mailed0 -> 1 .. Cardinality(Mailed0)]
  /\ \A d, e \in Mailed0 : Code0[d] = Code0[e] => d = e
<1>1. ExistsBijection(Mailed0, 1 .. Cardinality(Mailed0))
  BY GateAssumption, FS_CardinalityType, Fun_ExistsBijSymmetric
<1>2. PICK f \in Bijection(Mailed0, 1 .. Cardinality(Mailed0)) : TRUE
  BY <1>1 DEF ExistsBijection
<1>3. /\ f \in [Mailed0 -> 1 .. Cardinality(Mailed0)]
      /\ \A d, e \in Mailed0 : f[d] = f[e] => d = e
  BY <1>2 DEF Bijection, Injection, IsInjective, Surjection
<1> QED  BY <1>3 DEF Code0

LEMMA Sizes ==
  /\ Cardinality(Mailed0) \in Nat /\ Cardinality(Accounts0) \in Nat
  /\ Cardinality(Mailed0) <= MaxCodes /\ MaxCodes \in Nat /\ MaxFlaws \in Nat
  BY GateAssumption, FS_CardinalityType

\* Where a handler can be, by the kind of its request: it is given a kind once
\* and goes through the steps of that kind only.
StepsOf(kind) ==
  CASE kind = "code" -> {"getCode", "setCode", "mail", "reply"}
    [] kind = "register" -> {"checkCode", "selectEmail", "selectName",
                             "updateId", "insert", "commit", "reply"}
    [] kind = "reset" -> {"checkCode", "checkEmail", "updatePwd", "reply"}
    [] kind = "login" -> {"checkPwd", "chatServer", "reply"}
    [] kind = "bad" -> {"reply"}
    [] kind = "odd" -> {"throw"}
    [] kind = "other" -> {"ignore"}

HandlerInv ==
  \A c \in Conns :
    /\ conn[c] = "reading" => answer[c] = "none" /\ req[c] = NoRequest
    /\ conn[c] = "handling" => req[c] \in Request /\ at[c] \in StepsOf(req[c].kind)
    /\ conn[c] # "handling" => at[c] = "none"
    /\ answer[c] # "none" => at[c] \in {"reply", "none"}
    /\ at[c] = "mail" => found[c] \in Code

LEMMA InitType == Init => TypeOK /\ HandlerInv
<1> SUFFICES ASSUME Init PROVE TypeOK /\ HandlerInv
  OBVIOUS
<1>1. code \in [Emails -> Code \cup {Wrong}]
  BY Sizes, Code0Type DEF Init, Code, Wrong
<1>2. inbox \in [Emails -> SUBSET Code]
  BY Sizes, Code0Type DEF Init, Code
<1>3. made \in 0 .. MaxCodes /\ flaws \in 0 .. MaxFlaws /\ userId \in Nat
  BY Sizes DEF Init
<1>4. accounts \subseteq Account
  BY GateAssumption DEF Init
<1>5. TypeOK
  BY <1>1, <1>2, <1>3, <1>4 DEF Init, TypeOK, Places, Wrong
<1>6. HandlerInv
  BY DEF Init, HandlerInv
<1> QED  BY <1>5, <1>6
-----------------------------------------------------------------------------
(* Types.                                                                  *)

\* The steps that only a connection takes.
LEMMA HttpType ==
  ASSUME TypeOK, HandlerInv, NEW c \in Conns,
         HandleReq(c) \/ ReadError(c) \/ WriteResponse(c) \/ Throws(c)
         \/ Ignores(c) \/ WriteEnds(c) \/ DeadlineFires(c) \/ ClientStalls(c)
  PROVE  TypeOK' /\ HandlerInv'
<1> USE DEF httpVars, reqVars, mysqlVars, codeVars
<1>1. CASE HandleReq(c)
  <2>1. PICK r \in Requests[c] :
          /\ req' = [req EXCEPT ![c] = r]
          /\ at' = [at EXCEPT ![c] = FirstStep(r.kind)]
          /\ answer' = IF r.kind = "bad" THEN [answer EXCEPT ![c] = "error"]
                       ELSE answer
          /\ \E q \in IF inbox[r.quotes] = {} THEN {Wrong} ELSE inbox[r.quotes] :
               quoted' = [quoted EXCEPT ![c] = q]
    BY <1>1 DEF HandleReq
  <2>2. r \in Request
    BY GateAssumption
  <2>3. FirstStep(r.kind) \in StepsOf(r.kind) /\ FirstStep(r.kind) \in Places
    BY <2>2 DEF FirstStep, StepsOf, Places, Request
  <2>4. quoted' \in [Conns -> Code \cup {Wrong}]
    BY <2>1, <2>2 DEF TypeOK, Request
  <2>5. TypeOK'
    BY <1>1, <2>1, <2>2, <2>3, <2>4 DEF HandleReq, TypeOK
  <2>6. HandlerInv'
    <3>1. FirstStep(r.kind) # "mail" /\ (r.kind = "bad" => FirstStep(r.kind) = "reply")
      BY <2>2 DEF FirstStep, Request
    <3> QED
      BY <1>1, <2>1, <2>2, <2>3, <3>1 DEF HandleReq, TypeOK, HandlerInv
  <2> QED  BY <2>5, <2>6
<1>2. CASE ReadError(c) \/ Throws(c) \/ WriteEnds(c) \/ DeadlineFires(c)
  <2>1. TypeOK'
    BY <1>2, Sizes
    DEF ReadError, Throws, WriteEnds, DeadlineFires, TypeOK, Fails, Places, At
  <2>2. HandlerInv'
    BY <1>2
    DEF ReadError, Throws, WriteEnds, DeadlineFires, TypeOK, HandlerInv, At
  <2> QED  BY <2>1, <2>2
<1>3. CASE WriteResponse(c) \/ Ignores(c) \/ ClientStalls(c)
  <2>1. TypeOK'
    BY <1>3, Sizes
    DEF WriteResponse, Ignores, ClientStalls, TypeOK, Fails, Places, At
  <2>2. HandlerInv'
    BY <1>3 DEF WriteResponse, Ignores, ClientStalls, TypeOK, HandlerInv, At
  <2> QED  BY <2>1, <2>2
<1> QED  BY <1>1, <1>2, <1>3

\* A handler goes on to another step of its kind, or has its answer.
LEMMA HandlerGoesOn ==
  ASSUME TypeOK, HandlerInv, NEW c \in Conns, conn[c] = "handling",
         at[c] \notin {"reply", "none", "throw", "ignore"},
         UNCHANGED <<conn, req>>, at'[c] = "mail" => found'[c] \in Code,
         \A d \in Conns \ {c} : found'[d] = found[d],
         \/ \E p \in StepsOf(req[c].kind) \cap Places : GoesOn(c, p)
         \/ \E a \in {"ok", "error"} : Answers(c, a)
  PROVE  /\ HandlerInv'
         /\ at' \in [Conns -> Places]
         /\ answer' \in [Conns -> {"none", "ok", "error"}]
<1>1. req[c] \in Request /\ answer[c] = "none"
  BY DEF HandlerInv
<1>2. CASE \E p \in StepsOf(req[c].kind) \cap Places : GoesOn(c, p)
  BY <1>1, <1>2 DEF HandlerInv, TypeOK, GoesOn
<1>3. CASE \E a \in {"ok", "error"} : Answers(c, a)
  <2>1. "reply" \in Places
    BY DEF Places
  <2>2. "reply" \in StepsOf(req[c].kind)
    <3>1. req[c].kind \in {"code", "register", "reset", "login", "bad", "odd",
                           "other"}
      BY <1>1 DEF Request
    <3>2. req[c].kind \notin {"odd", "other"}
      BY <3>1 DEF HandlerInv, StepsOf
    <3> QED  BY <3>1, <3>2 DEF StepsOf
  <2> QED  BY <1>1, <1>3, <2>1, <2>2 DEF HandlerInv, TypeOK, Answers
<1> QED  BY <1>2, <1>3

\* The handlers for codes.
LEMMA CodeType ==
  ASSUME TypeOK, HandlerInv, NEW c \in Conns,
         GetRedis(c) \/ SetRedisExpire(c) \/ SendMail(c) \/ CheckCode(c)
  PROVE  TypeOK' /\ HandlerInv'
<1> USE DEF httpVars, reqVars, mysqlVars, codeVars
<1>0. /\ req[c] \in Request /\ conn[c] = "handling" /\ req[c].email \in Emails
      /\ at[c] \in {"getCode", "setCode", "mail", "checkCode"}
      /\ at[c] \in StepsOf(req[c].kind)
  BY DEF HandlerInv, GetRedis, SetRedisExpire, SendMail, CheckCode, At, Request
<1>1. flaws' \in 0 .. MaxFlaws
  BY Sizes DEF GetRedis, SetRedisExpire, SendMail, CheckCode, Fails, TypeOK
<1>2. /\ HandlerInv'
      /\ at' \in [Conns -> Places]
      /\ answer' \in [Conns -> {"none", "ok", "error"}]
  <2>1. /\ at[c] \in {"getCode", "setCode", "mail"} => req[c].kind = "code"
        /\ at[c] = "checkCode" => req[c].kind \in {"register", "reset"}
    BY <1>0 DEF StepsOf, Request
  <2>2. \/ \E p \in StepsOf(req[c].kind) \cap Places : GoesOn(c, p)
        \/ \E a \in {"ok", "error"} : Answers(c, a)
    BY <2>1 DEF GetRedis, SetRedisExpire, SendMail, CheckCode, At, StepsOf,
                Places
  <2>3. UNCHANGED <<conn, req>>
    BY DEF GetRedis, SetRedisExpire, SendMail, CheckCode
  <2>4. /\ at'[c] = "mail" => found'[c] \in Code
        /\ \A d \in Conns \ {c} : found'[d] = found[d]
    <3>1. made < MaxCodes => made + 1 \in Code
      BY Sizes DEF TypeOK, Code
    <3> QED
      BY <1>0, <3>1 DEF GetRedis, SetRedisExpire, SendMail, CheckCode, TypeOK,
                        GoesOn, Answers, At
  <2> QED  BY <1>0, <2>2, <2>3, <2>4, HandlerGoesOn
<1>3. CASE GetRedis(c)
  <2>1. found' \in [Conns -> Code \cup {Wrong}]
    BY <1>0, <1>3 DEF GetRedis, TypeOK
  <2> QED  BY <1>1, <1>2, <1>3, <2>1 DEF GetRedis, TypeOK
<1>4. CASE SetRedisExpire(c)
  <2>1. made + 1 \in Code /\ made' \in 0 .. MaxCodes
    BY <1>4, Sizes DEF SetRedisExpire, TypeOK, Code
  <2>2. /\ found' \in [Conns -> Code \cup {Wrong}]
        /\ code' \in [Emails -> Code \cup {Wrong}] /\ lasting' \subseteq Emails
    BY <1>0, <1>4, <2>1 DEF SetRedisExpire, TypeOK
  <2> QED  BY <1>1, <1>2, <1>4, <2>1, <2>2 DEF SetRedisExpire, TypeOK
<1>5. CASE SendMail(c)
  <2>1. found[c] \in Code
    BY <1>5 DEF SendMail, At, HandlerInv
  <2>2. inbox' \in [Emails -> SUBSET Code]
    BY <1>0, <1>5, <2>1 DEF SendMail, TypeOK
  <2> QED  BY <1>1, <1>2, <1>5, <2>2 DEF SendMail, TypeOK
<1>6. CASE CheckCode(c)
  BY <1>1, <1>2, <1>6 DEF CheckCode, TypeOK
<1> QED  BY <1>3, <1>4, <1>5, <1>6

\* The handlers that work on the accounts.
LEMMA AccountType ==
  ASSUME TypeOK, HandlerInv, NEW c \in Conns,
         SelectEmail(c) \/ SelectName(c) \/ UpdateId(c) \/ Insert(c)
         \/ Commit(c) \/ StatementFails(c) \/ CheckEmail(c) \/ UpdatePwd(c)
         \/ CheckPwd(c) \/ GetChatServer(c)
  PROVE  TypeOK' /\ HandlerInv'
<1> USE DEF httpVars, reqVars, mysqlVars, codeVars
<1>0. /\ req[c] \in Request /\ conn[c] = "handling"
      /\ req[c].name \in Names /\ req[c].email \in Emails /\ req[c].pwd \in Pwds
      /\ at[c] \in {"selectEmail", "selectName", "updateId", "insert", "commit",
                    "checkEmail", "updatePwd", "checkPwd", "chatServer"}
      /\ at[c] \in StepsOf(req[c].kind)
  BY DEF HandlerInv, SelectEmail, SelectName, UpdateId, Insert, Commit,
         StatementFails, CheckEmail, UpdatePwd, CheckPwd, GetChatServer, At,
         Request
<1>1. flaws' \in 0 .. MaxFlaws
  BY Sizes DEF SelectEmail, SelectName, UpdateId, Insert, Commit,
               StatementFails, CheckEmail, UpdatePwd, CheckPwd, GetChatServer,
               Fails, TypeOK
<1>2. /\ HandlerInv'
      /\ at' \in [Conns -> Places]
      /\ answer' \in [Conns -> {"none", "ok", "error"}]
  <2>1. /\ at[c] \in {"selectEmail", "selectName", "updateId", "insert",
                      "commit"} => req[c].kind = "register"
        /\ at[c] \in {"checkEmail", "updatePwd"} => req[c].kind = "reset"
        /\ at[c] \in {"checkPwd", "chatServer"} => req[c].kind = "login"
    BY <1>0 DEF StepsOf, Request
  <2>2. CASE SelectEmail(c) \/ SelectName(c) \/ UpdateId(c) \/ Insert(c)
             \/ Commit(c) \/ StatementFails(c)
    <3>1. req[c].kind = "register"
      BY <1>0, <2>1, <2>2 DEF SelectEmail, SelectName, UpdateId, Insert, Commit,
                              StatementFails, At
    <3>2. \/ \E p \in {"selectName", "updateId", "insert", "commit"} :
               GoesOn(c, p)
          \/ \E a \in {"ok", "error"} : Answers(c, a)
      BY <2>2 DEF SelectEmail, SelectName, UpdateId, Insert, Commit,
                  StatementFails, Rollback
    <3>3. {"selectName", "updateId", "insert", "commit"}
            \subseteq StepsOf(req[c].kind) \cap Places
      BY <3>1 DEF StepsOf, Places
    <3>4. UNCHANGED <<conn, req, found>> /\ at'[c] # "mail"
      BY <1>0, <2>2, <3>2 DEF SelectEmail, SelectName, UpdateId, Insert, Commit,
                       StatementFails, TypeOK, GoesOn, Answers
    <3> QED  BY <1>0, <3>2, <3>3, <3>4, HandlerGoesOn
  <2>3. CASE CheckEmail(c) \/ UpdatePwd(c) \/ CheckPwd(c) \/ GetChatServer(c)
    <3>1. \/ \E p \in StepsOf(req[c].kind) \cap Places :
               GoesOn(c, p) /\ p # "mail"
          \/ \E a \in {"ok", "error"} : Answers(c, a)
      BY <2>1, <2>3 DEF CheckEmail, UpdatePwd, CheckPwd, GetChatServer, At,
                        StepsOf, Places
    <3>2. UNCHANGED <<conn, req, found>> /\ at'[c] # "mail"
      BY <1>0, <2>3, <3>1 DEF CheckEmail, UpdatePwd, CheckPwd, GetChatServer,
                              TypeOK, GoesOn, Answers
    <3> QED  BY <1>0, <3>1, <3>2, HandlerGoesOn
  <2> QED  BY <2>2, <2>3
<1>3. CASE SelectEmail(c) \/ SelectName(c) \/ Insert(c) \/ StatementFails(c)
  <2>1. snap' \in [Conns -> SUBSET Account] /\ rowLock' \subseteq Conns
    BY <1>0, <1>3 DEF SelectEmail, SelectName, Insert, StatementFails, Rollback,
                      TypeOK
  <2>2. UNCHANGED <<httpVars, reqVars, found, newId, accounts, userId, codeVars>>
    BY <1>3 DEF SelectEmail, SelectName, Insert, StatementFails
  <2> QED  BY <1>1, <1>2, <2>1, <2>2 DEF TypeOK
<1>4. CASE UpdateId(c)
  <2>1. newId' \in [Conns -> Nat] /\ rowLock' \subseteq Conns
    BY <1>0, <1>4 DEF UpdateId, TypeOK
  <2> QED  BY <1>1, <1>2, <1>4, <2>1 DEF UpdateId, TypeOK
<1>5. CASE Commit(c)
  <2>1. newId[c] \in Nat
    BY DEF TypeOK
  <2>2. [uid |-> newId[c], name |-> req[c].name, email |-> req[c].email,
         pwd |-> req[c].pwd] \in Account
    BY <1>0, <2>1 DEF Account
  <2>3. Committed(c) \/ UNCHANGED <<accounts, userId>>
    BY <1>5 DEF Commit
  <2>4. accounts' \subseteq Account /\ userId' \in Nat
    BY <2>1, <2>2, <2>3 DEF Committed, TypeOK
  <2> QED  BY <1>1, <1>2, <1>5, <2>4 DEF Commit, TypeOK
<1>6. CASE UpdatePwd(c)
  <2>1. \A a \in accounts : [a EXCEPT !.pwd = req[c].pwd] \in Account
    BY <1>0 DEF Account, TypeOK
  <2>2. accounts' \subseteq Account
    BY <1>6, <2>1 DEF UpdatePwd, TypeOK
  <2> QED  BY <1>1, <1>2, <1>6, <2>2 DEF UpdatePwd, TypeOK
<1>7. CASE CheckEmail(c) \/ CheckPwd(c) \/ GetChatServer(c)
  <2>1. UNCHANGED <<httpVars, reqVars, found, snap, newId, mysqlVars, codeVars>>
    BY <1>7 DEF CheckEmail, CheckPwd, GetChatServer
  <2> QED  BY <1>1, <1>2, <2>1 DEF TypeOK
<1> QED  BY <1>3, <1>4, <1>5, <1>6, <1>7

LEMMA NextType == TypeOK /\ HandlerInv /\ [Next]_vars => TypeOK' /\ HandlerInv'
<1> SUFFICES ASSUME TypeOK, HandlerInv, [Next]_vars PROVE TypeOK' /\ HandlerInv'
  OBVIOUS
<1>1. CASE UNCHANGED vars
  BY <1>1 DEF TypeOK, HandlerInv, vars, httpVars, reqVars, mysqlVars, codeVars
<1>2. ASSUME NEW e \in Emails, CodeExpires(e) PROVE TypeOK' /\ HandlerInv'
  <2>1. flaws' \in 0 .. MaxFlaws /\ code' \in [Emails -> Code \cup {Wrong}]
    BY <1>2, Sizes DEF CodeExpires, Fails, TypeOK
  <2>2. TypeOK'
    BY <1>2, <2>1 DEF CodeExpires, TypeOK, httpVars, reqVars, mysqlVars
  <2>3. HandlerInv'
    BY <1>2 DEF CodeExpires, HandlerInv, httpVars, reqVars, mysqlVars
  <2> QED  BY <2>2, <2>3
<1> QED
  BY <1>1, <1>2, HttpType, CodeType, AccountType DEF Next, HandlerStep

\* The gate's variables keep their types (TypeOK of Gate): in particular a
\* deadline is waited for only while a response is being written.
THEOREM GateTypeCorrect == Spec => []TypeOK
<1>1. Init => TypeOK /\ HandlerInv
  BY InitType
<1>2. TypeOK /\ HandlerInv /\ [Next]_vars => (TypeOK /\ HandlerInv)'
  BY NextType
<1> QED  BY <1>1, <1>2, PTL DEF Spec
-----------------------------------------------------------------------------
(* Every registration gets an account and an id of its own.                *)

\* c was told that its registration succeeded.
Registered(c) == req[c].kind = "register" /\ answer[c] = "ok"
AccountOf(c) ==
  \E a \in accounts : /\ a.uid = newId[c] /\ a.name = req[c].name
                      /\ a.email = req[c].email

\* userId is the largest id in use; only who holds its row has the next one.
IdInv ==
  /\ \A a \in accounts : a.uid <= userId
  /\ \A a, b \in accounts : a.uid = b.uid => a = b
  /\ \A c \in Conns : at[c] \in {"insert", "commit"} =>
       rowLock = {c} /\ newId[c] = userId + 1
  /\ \A c \in Conns : Registered(c) => newId[c] <= userId /\ AccountOf(c)
  /\ \A c, d \in Conns :
       Registered(c) /\ Registered(d) /\ newId[c] = newId[d] => c = d

\* A step of a connection that is not about to insert, or leaves that place.
LEMMA IdStays ==
  ASSUME TypeOK, HandlerInv, IdInv, NEW c \in Conns,
         \A d \in Conns \ {c} : at'[d] = at[d] /\ req'[d] = req[d]
                                /\ answer'[d] = answer[d],
         UNCHANGED <<newId, accounts, userId>>,
         rowLock' \in {rowLock, rowLock \ {c}},
         at'[c] \in {"insert", "commit"} => at[c] = "insert" /\ rowLock' = rowLock,
         Registered(c)' => Registered(c) /\ req'[c] = req[c]
  PROVE  IdInv'
<1>1. \A d \in Conns : Registered(d)' => Registered(d) /\ req'[d] = req[d]
  BY DEF Registered
<1>2. \A d \in Conns : Registered(d)' => AccountOf(d)'
  BY <1>1 DEF IdInv, AccountOf
<1>3. ASSUME NEW d \in Conns, at'[d] \in {"insert", "commit"}
      PROVE  rowLock' = {d} /\ newId'[d] = userId' + 1
  BY <1>3 DEF IdInv
<1> QED  BY <1>1, <1>2, <1>3 DEF IdInv

LEMMA IdHandler ==
  ASSUME TypeOK, HandlerInv, IdInv, NEW c \in Conns,
         HandleReq(c) \/ ReadError(c) \/ WriteResponse(c) \/ Throws(c)
         \/ Ignores(c) \/ WriteEnds(c) \/ DeadlineFires(c) \/ ClientStalls(c)
         \/ GetRedis(c) \/ SetRedisExpire(c) \/ SendMail(c) \/ CheckCode(c)
         \/ SelectEmail(c) \/ SelectName(c) \/ Insert(c) \/ StatementFails(c)
         \/ CheckEmail(c) \/ CheckPwd(c) \/ GetChatServer(c)
  PROVE  IdInv'
<1> USE DEF httpVars, reqVars, mysqlVars, codeVars
<1>1. CASE HandleReq(c)
  <2>1. PICK r \in Requests[c] :
          /\ req' = [req EXCEPT ![c] = r]
          /\ at' = [at EXCEPT ![c] = FirstStep(r.kind)]
          /\ answer' = IF r.kind = "bad" THEN [answer EXCEPT ![c] = "error"]
                       ELSE answer
    BY <1>1 DEF HandleReq
  <2>2. r \in Request
    BY GateAssumption
  <2>3. FirstStep(r.kind) \notin {"insert", "commit"}
    BY <2>2 DEF FirstStep, Request
  <2>4. answer'[c] # "ok"
    BY <1>1, <2>1 DEF HandleReq, HandlerInv, TypeOK
  <2> QED
    BY <1>1, <2>1, <2>3, <2>4, IdStays DEF HandleReq, Registered, TypeOK
<1>2. CASE ReadError(c) \/ WriteResponse(c) \/ Throws(c) \/ Ignores(c)
           \/ WriteEnds(c) \/ DeadlineFires(c) \/ ClientStalls(c)
  <2>1. /\ UNCHANGED <<req, answer, newId, accounts, userId, rowLock>>
        /\ \A d \in Conns \ {c} : at'[d] = at[d]
        /\ at'[c] = at[c] \/ at'[c] = "none"
    BY <1>2 DEF ReadError, WriteResponse, Throws, Ignores, WriteEnds,
                DeadlineFires, ClientStalls, TypeOK
  <2>2. at[c] # "commit" \/ at'[c] = "commit"
    BY <1>2 DEF ReadError, WriteResponse, Throws, Ignores, WriteEnds,
                DeadlineFires, ClientStalls, HandlerInv, TypeOK, At
  <2>3. \A d \in Conns : at'[d] \in {"insert", "commit"} => at[d] = at'[d]
    BY <2>1
  <2> QED
    BY <2>1, <2>3 DEF IdInv, Registered, AccountOf
<1>3. CASE GetRedis(c) \/ SetRedisExpire(c) \/ SendMail(c) \/ CheckCode(c)
           \/ CheckEmail(c) \/ CheckPwd(c) \/ GetChatServer(c)
  <2>1. req[c].kind # "register" \/ answer'[c] # "ok"
    BY <1>3 DEF GetRedis, SetRedisExpire, SendMail, CheckCode, CheckEmail,
                CheckPwd, GetChatServer, HandlerInv, At, StepsOf, Request,
                GoesOn, Answers, TypeOK
  <2>2. /\ UNCHANGED <<req, newId, accounts, userId, rowLock>>
        /\ \A d \in Conns \ {c} : at'[d] = at[d] /\ answer'[d] = answer[d]
        /\ at'[c] \notin {"insert", "commit"}
    BY <1>3 DEF GetRedis, SetRedisExpire, SendMail, CheckCode, CheckEmail,
                CheckPwd, GetChatServer, GoesOn, Answers, TypeOK
  <2> QED  BY <2>1, <2>2, IdStays DEF Registered
<1>4. CASE SelectEmail(c) \/ SelectName(c) \/ Insert(c) \/ StatementFails(c)
  <2>1. answer'[c] # "ok"
    BY <1>4 DEF SelectEmail, SelectName, Insert, StatementFails, Rollback,
                HandlerInv, At, GoesOn, Answers, TypeOK
  <2>2. /\ UNCHANGED <<req, newId, accounts, userId>>
        /\ \A d \in Conns \ {c} : at'[d] = at[d] /\ answer'[d] = answer[d]
        /\ rowLock' \in {rowLock, rowLock \ {c}}
        /\ at'[c] \in {"insert", "commit"} =>
             at[c] = "insert" /\ rowLock' = rowLock
    BY <1>4 DEF SelectEmail, SelectName, Insert, StatementFails, Rollback,
                At, GoesOn, Answers, TypeOK
  <2> QED  BY <2>1, <2>2, IdStays DEF Registered
<1> QED  BY <1>1, <1>2, <1>3, <1>4

LEMMA IdUpdateId ==
  ASSUME TypeOK, HandlerInv, IdInv, NEW c \in Conns, UpdateId(c)
  PROVE  IdInv'
<1>1. /\ UNCHANGED <<req, accounts, userId, answer>>
      /\ rowLock = {} /\ rowLock' = {c}
      /\ newId'[c] = userId + 1 /\ answer[c] # "ok"
      /\ \A d \in Conns \ {c} : at'[d] = at[d] /\ newId'[d] = newId[d]
  BY DEF UpdateId, HandlerInv, TypeOK, At, GoesOn, reqVars
<1>2. \A d \in Conns : at[d] \notin {"insert", "commit"}
  BY <1>1 DEF IdInv
<1> QED  BY <1>1, <1>2 DEF IdInv, Registered, AccountOf

LEMMA IdCommit ==
  ASSUME TypeOK, HandlerInv, IdInv, NEW c \in Conns, Commit(c)
  PROVE  IdInv'
<1> DEFINE new == [uid |-> newId[c], name |-> req[c].name,
                   email |-> req[c].email, pwd |-> req[c].pwd]
<1>0. userId \in Nat /\ \A a \in accounts : a.uid \in Nat
  BY DEF TypeOK, Account
<1>1. /\ rowLock = {c} /\ newId[c] = userId + 1 /\ rowLock' = {}
      /\ UNCHANGED <<req, newId>> /\ at'[c] = "reply"
      /\ \A d \in Conns \ {c} : at'[d] = at[d] /\ answer'[d] = answer[d]
  BY DEF Commit, IdInv, At, Answers, TypeOK, reqVars
<1>2. \A d \in Conns : at'[d] \notin {"insert", "commit"}
  BY <1>1 DEF IdInv
<1>3. \A d \in Conns \ {c} : Registered(d)' <=> Registered(d)
  BY <1>1 DEF Registered
<1>4. CASE Committed(c)
  <2>1. accounts' = accounts \cup {new} /\ userId' = userId + 1
    BY <1>1, <1>4 DEF Committed
  <2>2. \A a \in accounts' : a.uid <= userId'
    BY <1>0, <1>1, <2>1 DEF IdInv
  <2>3. \A a, b \in accounts' : a.uid = b.uid => a = b
    BY <1>0, <1>1, <2>1 DEF IdInv
  <2>4. ASSUME NEW d \in Conns, Registered(d)'
        PROVE  newId'[d] <= userId' /\ AccountOf(d)'
    <3>1. CASE d = c
      <4>1. newId'[c] <= userId'
        BY <1>0, <1>1, <2>1
      <4>2. /\ new \in accounts' /\ new.uid = newId'[c]
            /\ new.name = req'[c].name /\ new.email = req'[c].email
        BY <1>1, <2>1
      <4> HIDE DEF new
      <4>3. AccountOf(c)'
        BY <4>2 DEF AccountOf
      <4> QED  BY <3>1, <4>1, <4>3
    <3>2. CASE d # c
      <4>1. newId[d] <= userId /\ AccountOf(d)
        BY <1>3, <2>4, <3>2 DEF IdInv
      <4>2. newId[d] \in Nat
        BY DEF TypeOK
      <4> QED  BY <1>0, <1>1, <2>1, <4>1, <4>2 DEF AccountOf
    <3> QED  BY <3>1, <3>2
  <2>5. ASSUME NEW d \in Conns, NEW e \in Conns, Registered(d)',
               Registered(e)', newId'[d] = newId'[e]
        PROVE  d = e
    <3>1. \A f \in Conns \ {c} : Registered(f)' => newId[f] <= userId
      BY <1>3 DEF IdInv
    <3>2. \A f \in Conns : newId[f] \in Nat
      BY DEF TypeOK
    <3>3. (d = c) <=> (e = c)
      BY <1>0, <1>1, <2>5, <3>1, <3>2
    <3> QED  BY <1>1, <1>3, <2>5, <3>3 DEF IdInv
  <2> QED  BY <1>2, <2>2, <2>3, <2>4, <2>5 DEF IdInv
<1>5. CASE UNCHANGED <<accounts, userId>> /\ Answers(c, "error")
  <2>1. ~Registered(c)'
    BY <1>5 DEF Registered, Answers, TypeOK
  <2> QED  BY <1>1, <1>2, <1>3, <1>5, <2>1 DEF IdInv, AccountOf
<1> QED  BY <1>4, <1>5 DEF Commit

\* An update of passwords keeps every account's id, name and address.
LEMMA PwdUpdated ==
  ASSUME TypeOK, HandlerInv, NEW c \in Conns, UpdatePwd(c)
  PROVE  \E p : accounts' =
           {IF p /\ a.name = req[c].name /\ a.pwd # req[c].pwd
            THEN [a EXCEPT !.pwd = req[c].pwd] ELSE a : a \in accounts}
<1> DEFINE hit == {a \in accounts : a.name = req[c].name /\ a.pwd # req[c].pwd}
           updated == (accounts \ hit)
                        \cup {[a EXCEPT !.pwd = req[c].pwd] : a \in hit}
           As(p) == {IF p /\ a.name = req[c].name /\ a.pwd # req[c].pwd
                     THEN [a EXCEPT !.pwd = req[c].pwd] ELSE a : a \in accounts}
<1>1. accounts' \in {accounts, updated}
  BY DEF UpdatePwd
<1>2. updated = As(TRUE)
  OBVIOUS
<1>3. accounts = As(FALSE)
  OBVIOUS
<1> QED  BY <1>1, <1>2, <1>3

LEMMA IdUpdatePwd ==
  ASSUME TypeOK, HandlerInv, IdInv, NEW c \in Conns, UpdatePwd(c)
  PROVE  IdInv'
<1>1. PICK p : accounts' =
           {IF p /\ a.name = req[c].name /\ a.pwd # req[c].pwd
            THEN [a EXCEPT !.pwd = req[c].pwd] ELSE a : a \in accounts}
  BY PwdUpdated
<1> DEFINE New(a) == IF p /\ a.name = req[c].name /\ a.pwd # req[c].pwd
                     THEN [a EXCEPT !.pwd = req[c].pwd] ELSE a
<1>2. \A a \in accounts : /\ New(a).uid = a.uid /\ New(a).name = a.name
                          /\ New(a).email = a.email
  BY DEF TypeOK, Account
<1>3. accounts' = {New(a) : a \in accounts}
  BY <1>1
<1> HIDE DEF New
<1>4. /\ \A a \in accounts' : a.uid <= userId
      /\ \A a, b \in accounts' : a.uid = b.uid => a = b
  BY <1>2, <1>3 DEF IdInv
<1>5. /\ UNCHANGED <<req, newId, userId, rowLock>>
      /\ \A d \in Conns \ {c} : at'[d] = at[d] /\ answer'[d] = answer[d]
      /\ at'[c] = "reply" /\ req[c].kind = "reset"
  BY DEF UpdatePwd, Answers, At, HandlerInv, StepsOf, Request, TypeOK, reqVars
<1>6. \A d \in Conns : Registered(d)' => Registered(d)
  BY <1>5 DEF Registered
<1>7. \A d \in Conns : AccountOf(d) => AccountOf(d)'
  BY <1>2, <1>3, <1>5 DEF AccountOf
<1> QED  BY <1>4, <1>5, <1>6, <1>7 DEF IdInv

LEMMA IdInductive ==
  TypeOK /\ HandlerInv /\ IdInv /\ [Next]_vars => IdInv'
<1> SUFFICES ASSUME TypeOK, HandlerInv, IdInv, [Next]_vars PROVE IdInv'
  OBVIOUS
<1>1. CASE UNCHANGED vars
  BY <1>1 DEF IdInv, Registered, AccountOf, vars, reqVars, mysqlVars
<1>2. ASSUME NEW e \in Emails, CodeExpires(e) PROVE IdInv'
  BY <1>2 DEF IdInv, Registered, AccountOf, CodeExpires, reqVars, mysqlVars
<1> QED
  BY <1>1, <1>2, IdHandler, IdUpdateId, IdCommit, IdUpdatePwd
  DEF Next, HandlerStep

LEMMA InitId == Init => IdInv
<1> SUFFICES ASSUME Init PROVE IdInv
  OBVIOUS
<1>1. \A a \in accounts : a.uid \in Nat /\ a.uid <= userId
  BY GateAssumption, Sizes DEF Init
<1>2. \A a, b \in accounts : a.uid = b.uid => a = b
  BY GateAssumption DEF Init
<1> QED  BY <1>1, <1>2 DEF Init, IdInv, Registered

\* However many registrations run side by side, on however many threads, and
\* whatever fails, no two accounts have one uid and no two clients are told of
\* the same account (RegUserTransaction).
THEOREM EachItsAccountHolds == Spec => []EachItsAccount
<1>1. TypeOK /\ HandlerInv /\ IdInv /\ [Next]_vars
        => (TypeOK /\ HandlerInv /\ IdInv)'
  BY NextType, IdInductive
<1>2. IdInv => EachItsAccount
  BY DEF IdInv, EachItsAccount, Registered, AccountOf
<1> QED  BY <1>1, <1>2, InitType, InitId, PTL DEF Spec
-----------------------------------------------------------------------------
(* Only the mail's reader.                                                 *)

\* Code k concerns address e: it is in Redis or in a mail to e, or VarifyServer
\* is about to mail it there.
Known(k, e) ==
  \/ code[e] = k \/ k \in inbox[e]
  \/ \E c \in Conns : at[c] = "mail" /\ req[c].email = e /\ found[c] = k

\* A code concerns one address, and those to come are new.
CodesApart ==
  \A k \in Code, e \in Emails : Known(k, e) =>
    /\ k <= made
    /\ \A f \in Emails : Known(k, f) => e = f

\* What a handler quotes was mailed to the address of its request once the
\* code was compared; before, to the address the client read.
Checked == {"selectEmail", "selectName", "updateId", "insert", "commit",
            "checkEmail", "updatePwd"}
QuotesMail ==
  \A c \in Conns : conn[c] = "handling" =>
    /\ quoted[c] = Wrong \/ quoted[c] \in inbox[req[c].quotes]
    /\ at[c] \in Checked => quoted[c] \in inbox[req[c].email]

MailInv == CodesApart /\ QuotesMail

\* A step after which no code concerns an address that it did not concern
\* before, apart from a new one.
LEMMA ApartStays ==
  ASSUME TypeOK, CodesApart, NEW e0 \in Emails, made' \in {made, made + 1},
         \A k \in Code, e \in Emails : Known(k, e)' =>
           Known(k, e) \/ (k = made + 1 /\ e = e0 /\ made' = made + 1)
  PROVE  CodesApart'
<1>0. made \in Nat /\ Code \subseteq Nat
  BY Sizes DEF TypeOK, Code
<1> SUFFICES ASSUME NEW k \in Code, NEW e \in Emails, Known(k, e)'
             PROVE  /\ k <= made'
                    /\ \A f \in Emails : Known(k, f)' => e = f
  BY DEF CodesApart, Code
<1>1. CASE k = made + 1
  <2>1. \A f \in Emails : ~Known(k, f)
    BY <1>0, <1>1 DEF CodesApart
  <2> QED  BY <1>0, <1>1, <2>1
<1>2. CASE k # made + 1
  <2>1. \A f \in Emails : Known(k, f)' => Known(k, f)
    BY <1>2
  <2> QED  BY <1>0, <2>1 DEF CodesApart
<1> QED  BY <1>1, <1>2

\* A step that leaves the codes and the mails alone.
LEMMA ApartKept ==
  ASSUME TypeOK, CodesApart, UNCHANGED <<code, inbox, made>>,
         \A c \in Conns : at'[c] = "mail" =>
           at[c] = "mail" /\ req'[c] = req[c] /\ found'[c] = found[c]
  PROVE  CodesApart'
  BY DEF CodesApart, Known, Code

LEMMA ApartGetRedis ==
  ASSUME TypeOK, HandlerInv, CodesApart, NEW c \in Conns, GetRedis(c)
  PROVE  CodesApart'
<1>0. req[c] \in Request /\ req[c].email \in Emails
  BY DEF GetRedis, At, HandlerInv, Request
<1>1. UNCHANGED <<code, inbox, made, req>>
  BY DEF GetRedis, codeVars, reqVars
<1>2. \A d \in Conns \ {c} : at'[d] = at[d] /\ found'[d] = found[d]
  BY DEF GetRedis, GoesOn, TypeOK
<1>3. at'[c] = "mail" => found'[c] = code[req[c].email]
  BY DEF GetRedis, GoesOn, TypeOK
<1>4. \A k \in Code, e \in Emails : Known(k, e)' => Known(k, e)
  BY <1>1, <1>2, <1>3 DEF Known
<1> QED  BY <1>0, <1>1, <1>4, ApartStays

LEMMA ApartSetRedis ==
  ASSUME TypeOK, HandlerInv, CodesApart, NEW c \in Conns, SetRedisExpire(c)
  PROVE  CodesApart'
<1>0. req[c] \in Request /\ req[c].email \in Emails
  BY DEF SetRedisExpire, At, HandlerInv, Request
<1>1. UNCHANGED <<inbox, req>> /\ made' = made + 1
  BY DEF SetRedisExpire, reqVars
<1>2. /\ \A d \in Conns \ {c} : at'[d] = at[d] /\ found'[d] = found[d]
      /\ found'[c] = made + 1
  BY DEF SetRedisExpire, GoesOn, Answers, TypeOK
<1>3. code' = code \/ code' = [code EXCEPT ![req[c].email] = made + 1]
  BY DEF SetRedisExpire
<1>4. \A e \in Emails :
        code'[e] = code[e] \/ (e = req[c].email /\ code'[e] = made + 1)
  BY <1>3 DEF TypeOK
<1>5. \A k \in Code, e \in Emails : Known(k, e)' =>
        Known(k, e) \/ (k = made + 1 /\ e = req[c].email)
  BY <1>1, <1>2, <1>4 DEF Known
<1> QED  BY <1>0, <1>1, <1>5, ApartStays

LEMMA ApartSendMail ==
  ASSUME TypeOK, HandlerInv, CodesApart, NEW c \in Conns, SendMail(c)
  PROVE  CodesApart'
<1>0. req[c] \in Request /\ req[c].email \in Emails /\ at[c] = "mail"
  BY DEF SendMail, At, HandlerInv, Request
<1>1. UNCHANGED <<code, made, req, found>>
  BY DEF SendMail, reqVars
<1>2. \A d \in Conns : at'[d] = "mail" => at[d] = "mail"
  BY DEF SendMail, Answers, TypeOK
<1>3. \A e \in Emails : \/ inbox'[e] = inbox[e]
                        \/ /\ e = req[c].email
                           /\ inbox'[e] = inbox[e] \cup {found[c]}
  BY DEF SendMail, TypeOK
<1>4. \A k \in Code, e \in Emails : Known(k, e)' => Known(k, e)
  BY <1>0, <1>1, <1>2, <1>3 DEF Known
<1> QED  BY <1>0, <1>1, <1>4, ApartStays

LEMMA ApartInductive ==
  TypeOK /\ HandlerInv /\ CodesApart /\ [Next]_vars => CodesApart'
<1> SUFFICES ASSUME TypeOK, HandlerInv, CodesApart, [Next]_vars
             PROVE  CodesApart'
  OBVIOUS
<1> USE DEF httpVars, reqVars, mysqlVars, codeVars
<1>1. CASE UNCHANGED vars
  BY <1>1, ApartKept DEF vars
<1>2. ASSUME NEW e \in Emails, CodeExpires(e) PROVE CodesApart'
  <2>1. /\ UNCHANGED <<inbox, made, at, req, found>>
        /\ \A f \in Emails : code'[f] = code[f] \/ code'[f] = Wrong
    BY <1>2 DEF CodeExpires, TypeOK
  <2>2. Wrong \notin Code
    BY DEF Wrong, Code
  <2>3. \A k \in Code, f \in Emails : Known(k, f)' => Known(k, f)
    BY <2>1, <2>2 DEF Known
  <2> QED  BY <2>1, <2>3, ApartStays
<1>3. ASSUME NEW c \in Conns, HandleReq(c) PROVE CodesApart'
  <2>1. PICK r \in Requests[c] : /\ req' = [req EXCEPT ![c] = r]
                                 /\ at' = [at EXCEPT ![c] = FirstStep(r.kind)]
    BY <1>3 DEF HandleReq
  <2>2. r \in Request
    BY GateAssumption
  <2>3. FirstStep(r.kind) # "mail"
    BY <2>2 DEF FirstStep, Request
  <2> QED  BY <1>3, <2>1, <2>3, ApartKept DEF HandleReq, TypeOK
<1>4. ASSUME NEW c \in Conns,
             ReadError(c) \/ WriteResponse(c) \/ Throws(c) \/ Ignores(c)
             \/ WriteEnds(c) \/ DeadlineFires(c) \/ ClientStalls(c)
      PROVE  CodesApart'
  <2>1. /\ UNCHANGED <<code, inbox, made, req, found>>
        /\ \A d \in Conns : at'[d] = "mail" => at[d] = "mail"
    BY <1>4 DEF ReadError, WriteResponse, Throws, Ignores, WriteEnds,
                DeadlineFires, ClientStalls, TypeOK
  <2> QED  BY <2>1, ApartKept
<1>5. ASSUME NEW c \in Conns,
             CheckCode(c) \/ SelectEmail(c) \/ SelectName(c) \/ UpdateId(c)
             \/ Insert(c) \/ StatementFails(c) \/ Commit(c) \/ CheckEmail(c)
             \/ UpdatePwd(c) \/ CheckPwd(c) \/ GetChatServer(c)
      PROVE  CodesApart'
  <2>1. /\ UNCHANGED <<code, inbox, made, req, found>>
        /\ \E p \in Places \ {"mail"} : at' = [at EXCEPT ![c] = p]
    BY <1>5 DEF CheckCode, SelectEmail, SelectName, UpdateId, Insert,
                StatementFails, Commit, CheckEmail, UpdatePwd, CheckPwd,
                GetChatServer, Rollback, GoesOn, Answers, Places
  <2> QED  BY <2>1, ApartKept DEF TypeOK
<1> QED
  BY <1>1, <1>2, <1>3, <1>4, <1>5, ApartGetRedis, ApartSetRedis, ApartSendMail
  DEF Next, HandlerStep

\* A handler whose request and quoted code stay, and which is no further than
\* it was with its check.
LEMMA QuotesKept ==
  ASSUME TypeOK, HandlerInv, QuotesMail, UNCHANGED <<req, quoted>>,
         \A e \in Emails : inbox[e] \subseteq inbox'[e],
         \A c \in Conns : conn'[c] = "handling" =>
           conn[c] = "handling" /\ (at'[c] \in Checked => at[c] \in Checked)
  PROVE  QuotesMail'
<1> SUFFICES ASSUME NEW c \in Conns, conn'[c] = "handling"
             PROVE  /\ quoted'[c] = Wrong \/ quoted'[c] \in inbox'[req'[c].quotes]
                    /\ at'[c] \in Checked => quoted'[c] \in inbox'[req'[c].email]
  BY DEF QuotesMail, Checked
<1>1. req[c].quotes \in Emails /\ req[c].email \in Emails
  BY DEF HandlerInv, Request
<1> QED  BY <1>1 DEF QuotesMail

\* The comparison: the code of the address is the one quoted, and as a code
\* concerns one address, it was mailed there.
LEMMA QuotesCheckCode ==
  ASSUME TypeOK, HandlerInv, MailInv, NEW c \in Conns, CheckCode(c)
  PROVE  QuotesMail'
<1>0. /\ conn[c] = "handling" /\ at[c] = "checkCode"
      /\ req[c].email \in Emails /\ req[c].quotes \in Emails
  BY DEF CheckCode, At, HandlerInv, Request
<1>1. /\ UNCHANGED <<conn, req, quoted, inbox>>
      /\ \A d \in Conns \ {c} : at'[d] = at[d]
  BY DEF CheckCode, GoesOn, Answers, TypeOK, httpVars, reqVars, codeVars
<1>2. at'[c] \in Checked =>
        code[req[c].email] # Wrong /\ code[req[c].email] = quoted[c]
  BY DEF CheckCode, GoesOn, Answers, TypeOK, Checked
<1>3. at'[c] \in Checked => quoted[c] \in inbox[req[c].email]
  <2> SUFFICES ASSUME at'[c] \in Checked PROVE quoted[c] \in inbox[req[c].email]
    OBVIOUS
  <2>1. quoted[c] # Wrong /\ quoted[c] \in inbox[req[c].quotes]
    BY <1>0, <1>2 DEF MailInv, QuotesMail
  <2>2. quoted[c] \in Code
    BY <2>1 DEF TypeOK
  <2>3. Known(quoted[c], req[c].email) /\ Known(quoted[c], req[c].quotes)
    BY <1>2, <2>1 DEF Known
  <2>4. req[c].email = req[c].quotes
    BY <1>0, <2>2, <2>3 DEF MailInv, CodesApart
  <2> QED  BY <2>1, <2>4
<1> QED  BY <1>1, <1>3 DEF MailInv, QuotesMail

LEMMA QuotesInductive ==
  TypeOK /\ HandlerInv /\ MailInv /\ [Next]_vars => QuotesMail'
<1> SUFFICES ASSUME TypeOK, HandlerInv, MailInv, [Next]_vars PROVE QuotesMail'
  OBVIOUS
<1> USE DEF httpVars, reqVars, mysqlVars, codeVars, MailInv
<1>1. CASE UNCHANGED vars
  BY <1>1 DEF QuotesMail, vars
<1>2. ASSUME NEW e \in Emails, CodeExpires(e) PROVE QuotesMail'
  BY <1>2 DEF CodeExpires, QuotesMail
<1>3. ASSUME NEW c \in Conns, HandleReq(c) PROVE QuotesMail'
  <2>1. PICK r \in Requests[c] :
          /\ req' = [req EXCEPT ![c] = r]
          /\ at' = [at EXCEPT ![c] = FirstStep(r.kind)]
          /\ \E q \in IF inbox[r.quotes] = {} THEN {Wrong} ELSE inbox[r.quotes] :
               quoted' = [quoted EXCEPT ![c] = q]
    BY <1>3 DEF HandleReq
  <2>2. r \in Request
    BY GateAssumption
  <2>3. FirstStep(r.kind) \notin Checked
    BY <2>2 DEF FirstStep, Request, Checked
  <2>4. quoted'[c] = Wrong \/ quoted'[c] \in inbox[r.quotes]
    BY <2>1 DEF TypeOK
  <2>5. UNCHANGED inbox /\ \A d \in Conns \ {c} :
           conn'[d] = conn[d] /\ at'[d] = at[d] /\ req'[d] = req[d]
           /\ quoted'[d] = quoted[d]
    BY <1>3, <2>1 DEF HandleReq, TypeOK
  <2>6. req'[c] = r /\ at'[c] \notin Checked
    BY <2>1, <2>3 DEF TypeOK
  <2> QED  BY <2>4, <2>5, <2>6 DEF QuotesMail
<1>4. ASSUME NEW c \in Conns,
             ReadError(c) \/ WriteResponse(c) \/ Throws(c) \/ Ignores(c)
             \/ WriteEnds(c) \/ DeadlineFires(c) \/ ClientStalls(c)
      PROVE  QuotesMail'
  <2>1. /\ UNCHANGED <<inbox, req, quoted>>
        /\ \A d \in Conns : conn'[d] = "handling" =>
             conn[d] = "handling" /\ at'[d] = at[d]
    BY <1>4 DEF ReadError, WriteResponse, Throws, Ignores, WriteEnds,
                DeadlineFires, ClientStalls, TypeOK, At
  <2> QED  BY <2>1, QuotesKept
<1>5. ASSUME NEW c \in Conns,
             GetRedis(c) \/ SetRedisExpire(c) \/ SendMail(c) \/ SelectEmail(c)
             \/ SelectName(c) \/ UpdateId(c) \/ Insert(c) \/ StatementFails(c)
             \/ Commit(c) \/ CheckEmail(c) \/ UpdatePwd(c) \/ CheckPwd(c)
             \/ GetChatServer(c)
      PROVE  QuotesMail'
  <2>1. UNCHANGED <<conn, req, quoted>>
    BY <1>5 DEF GetRedis, SetRedisExpire, SendMail, SelectEmail, SelectName,
                UpdateId, Insert, StatementFails, Commit, CheckEmail, UpdatePwd,
                CheckPwd, GetChatServer
  <2>2. \A e \in Emails : inbox[e] \subseteq inbox'[e]
    BY <1>5 DEF GetRedis, SetRedisExpire, SendMail, SelectEmail, SelectName,
                UpdateId, Insert, StatementFails, Commit, CheckEmail, UpdatePwd,
                CheckPwd, GetChatServer, TypeOK
  <2>3. \A d \in Conns : at'[d] \in Checked => at[d] \in Checked
    BY <1>5 DEF GetRedis, SetRedisExpire, SendMail, SelectEmail, SelectName,
                UpdateId, Insert, StatementFails, Commit, CheckEmail, UpdatePwd,
                CheckPwd, GetChatServer, Rollback, GoesOn, Answers, At, TypeOK,
                Checked
  <2> QED  BY <2>1, <2>2, <2>3, QuotesKept
<1> QED
  BY <1>1, <1>2, <1>3, <1>4, <1>5, QuotesCheckCode DEF Next, HandlerStep

LEMMA InitMail == Init => MailInv
<1> SUFFICES ASSUME Init PROVE MailInv
  OBVIOUS
<1>1. Wrong \notin Code
  BY DEF Wrong, Code
<1>2. \A k \in Code, e \in Emails : Known(k, e) =>
        e \in Mailed0 /\ k = Code0[e]
  BY <1>1 DEF Init, Known
<1>3. \A e \in Mailed0 : Code0[e] <= made
  BY Code0Type, Sizes DEF Init
<1>4. CodesApart
  BY <1>2, <1>3, Code0Type DEF CodesApart
<1>5. QuotesMail
  BY DEF Init, QuotesMail
<1> QED  BY <1>4, <1>5 DEF MailInv

\* With a unique index on the name: names are unique, a registration about to
\* commit has a new one, and a reset about to update found its address.
NameInv ==
  /\ \A a, b \in accounts : a.name = b.name => a = b
  /\ \A c \in Conns : at[c] = "commit" =>
       /\ rowLock = {c} /\ \A a \in accounts : a.name # req[c].name
  /\ \A c \in Conns : at[c] = "insert" => rowLock = {c}
  /\ \A c \in Conns : at[c] = "updatePwd" =>
       \E a \in accounts : a.name = req[c].name /\ a.email = req[c].email

\* A step that leaves the accounts alone.
LEMMA NamesKept ==
  ASSUME TypeOK, HandlerInv, NameInv, NEW c \in Conns, UNCHANGED accounts,
         \A d \in Conns \ {c} : at'[d] = at[d] /\ req'[d] = req[d],
         \/ UNCHANGED rowLock
         \/ rowLock' = rowLock \ {c} /\ at'[c] \notin {"insert", "commit"},
         at'[c] \in {"insert", "commit", "updatePwd"} =>
           at'[c] = at[c] /\ req'[c] = req[c]
  PROVE  NameInv'
<1>1. \A d \in Conns : at'[d] = "commit" => at[d] = "commit"
                                          /\ req'[d] = req[d] /\ rowLock' = {d}
  BY DEF NameInv
<1>2. \A d \in Conns : at'[d] = "insert" => rowLock' = {d}
  BY DEF NameInv
<1>3. \A d \in Conns : at'[d] = "updatePwd" => at[d] = "updatePwd"
                                             /\ req'[d] = req[d]
  OBVIOUS
<1> QED  BY <1>1, <1>2, <1>3 DEF NameInv

\* Those steps.
LEMMA NamesHandler ==
  ASSUME TypeOK, HandlerInv, NameInv, NEW c \in Conns,
         HandleReq(c) \/ ReadError(c) \/ WriteResponse(c) \/ Throws(c)
         \/ Ignores(c) \/ WriteEnds(c) \/ DeadlineFires(c) \/ ClientStalls(c)
         \/ GetRedis(c) \/ SetRedisExpire(c) \/ SendMail(c) \/ CheckCode(c)
         \/ SelectEmail(c) \/ SelectName(c) \/ StatementFails(c)
         \/ CheckPwd(c) \/ GetChatServer(c)
  PROVE  NameInv'
<1> USE DEF httpVars, reqVars, mysqlVars, codeVars
<1>1. CASE HandleReq(c)
  <2>1. PICK r \in Requests[c] : /\ req' = [req EXCEPT ![c] = r]
                                 /\ at' = [at EXCEPT ![c] = FirstStep(r.kind)]
    BY <1>1 DEF HandleReq
  <2>2. r \in Request
    BY GateAssumption
  <2>3. FirstStep(r.kind) \notin {"insert", "commit", "updatePwd"}
    BY <2>2 DEF FirstStep, Request
  <2> QED  BY <1>1, <2>1, <2>3, NamesKept DEF HandleReq, TypeOK
<1>2. CASE ReadError(c) \/ WriteResponse(c) \/ Throws(c) \/ Ignores(c)
           \/ WriteEnds(c) \/ DeadlineFires(c) \/ ClientStalls(c)
  <2>1. /\ UNCHANGED <<accounts, req, rowLock>>
        /\ \A d \in Conns \ {c} : at'[d] = at[d]
        /\ at'[c] = at[c] \/ at'[c] = "none"
    BY <1>2 DEF ReadError, WriteResponse, Throws, Ignores, WriteEnds,
                DeadlineFires, ClientStalls, TypeOK
  <2> QED  BY <2>1, NamesKept
<1>3. CASE GetRedis(c) \/ SetRedisExpire(c) \/ SendMail(c) \/ CheckCode(c)
           \/ SelectEmail(c) \/ SelectName(c) \/ StatementFails(c)
           \/ CheckPwd(c) \/ GetChatServer(c)
  <2>1. /\ UNCHANGED <<accounts, req>>
        /\ \A d \in Conns \ {c} : at'[d] = at[d]
        /\ rowLock' = rowLock
           \/ (rowLock' = rowLock \ {c} /\ at'[c] \notin {"insert", "commit"})
    BY <1>3 DEF GetRedis, SetRedisExpire, SendMail, CheckCode, SelectEmail,
                SelectName, StatementFails, CheckPwd, GetChatServer, Rollback,
                GoesOn, Answers, TypeOK
  <2>2. at'[c] \notin {"insert", "commit", "updatePwd"}
    BY <1>3 DEF GetRedis, SetRedisExpire, SendMail, CheckCode, SelectEmail,
                SelectName, StatementFails, CheckPwd, GetChatServer, Rollback,
                GoesOn, Answers, TypeOK
  <2> QED  BY <2>1, <2>2, NamesKept
<1> QED  BY <1>1, <1>2, <1>3

\* The row of user_id, the check of the index, and the reset's first half.
LEMMA NamesChecked ==
  ASSUME TypeOK, HandlerInv, NameInv, "name" \in UniqueKeys, NEW c \in Conns,
         UpdateId(c) \/ Insert(c) \/ CheckEmail(c)
  PROVE  NameInv'
<1> USE DEF httpVars, reqVars, mysqlVars, codeVars
<1>0. /\ UNCHANGED <<accounts, req>>
      /\ \A d \in Conns \ {c} : at'[d] = at[d]
  BY DEF UpdateId, Insert, CheckEmail, Rollback, GoesOn, Answers, TypeOK
<1>1. CASE UpdateId(c)
  <2>1. rowLock = {} /\ rowLock' = {c} /\ at'[c] = "insert"
    BY <1>1 DEF UpdateId, GoesOn, TypeOK
  <2>2. \A d \in Conns : at[d] \notin {"insert", "commit"}
    BY <2>1 DEF NameInv
  <2> QED  BY <1>0, <2>1, <2>2 DEF NameInv
<1>2. CASE Insert(c)
  <2>1. rowLock = {c}
    BY <1>2 DEF Insert, At, NameInv
  <2>2. CASE GoesOn(c, "commit") /\ UNCHANGED rowLock
             /\ \A a \in accounts : a.name # req[c].name
    <3>1. at'[c] = "commit"
      BY <2>2 DEF GoesOn, TypeOK
    <3> QED  BY <1>0, <2>1, <2>2, <3>1 DEF NameInv
  <2>3. CASE Rollback(c)
    <3>1. at'[c] = "reply" /\ rowLock' = rowLock \ {c}
      BY <2>3 DEF Rollback, Answers, TypeOK
    <3> QED  BY <1>0, <3>1, NamesKept
  <2> QED  BY <1>2, <2>2, <2>3 DEF Insert
<1>3. CASE CheckEmail(c)
  <2>1. /\ UNCHANGED rowLock /\ at'[c] \in {"updatePwd", "reply"}
        /\ at'[c] = "updatePwd" =>
             \E a \in accounts : a.name = req[c].name /\ a.email = req[c].email
    BY <1>3 DEF CheckEmail, GoesOn, Answers, TypeOK
  <2> QED  BY <1>0, <2>1 DEF NameInv
<1> QED  BY <1>1, <1>2, <1>3

LEMMA NamesCommit ==
  ASSUME TypeOK, HandlerInv, NameInv, NEW c \in Conns, Commit(c)
  PROVE  NameInv'
<1>1. /\ rowLock = {c} /\ UNCHANGED req /\ at'[c] = "reply"
      /\ \A d \in Conns \ {c} : at'[d] = at[d]
      /\ \A a \in accounts : a.name # req[c].name
  BY DEF Commit, NameInv, At, Answers, TypeOK, reqVars
<1>2. accounts' = accounts \/ \E new \in Account :
        accounts' = accounts \cup {new} /\ new.name = req[c].name
  <2>1. CASE Committed(c)
    <3>1. req[c] \in Request
      BY DEF Commit, At, HandlerInv
    <3> QED  BY <2>1, <3>1 DEF Committed, Account, Request, TypeOK
  <2> QED  BY <2>1 DEF Commit
<1>3. \A a, b \in accounts' : a.name = b.name => a = b
  BY <1>1, <1>2 DEF NameInv
<1>4. \A d \in Conns : at'[d] \notin {"insert", "commit"}
  BY <1>1 DEF NameInv
<1> QED  BY <1>1, <1>2, <1>3, <1>4 DEF NameInv

LEMMA NamesUpdatePwd ==
  ASSUME TypeOK, HandlerInv, NameInv, NEW c \in Conns, UpdatePwd(c)
  PROVE  NameInv'
<1>1. PICK p : accounts' =
           {IF p /\ a.name = req[c].name /\ a.pwd # req[c].pwd
            THEN [a EXCEPT !.pwd = req[c].pwd] ELSE a : a \in accounts}
  BY PwdUpdated
<1> DEFINE New(a) == IF p /\ a.name = req[c].name /\ a.pwd # req[c].pwd
                     THEN [a EXCEPT !.pwd = req[c].pwd] ELSE a
<1>2. \A a \in accounts : New(a).name = a.name /\ New(a).email = a.email
  BY DEF TypeOK, Account
<1>3. accounts' = {New(a) : a \in accounts}
  BY <1>1
<1> HIDE DEF New
<1>4. /\ UNCHANGED <<req, rowLock>> /\ at'[c] = "reply"
      /\ \A d \in Conns \ {c} : at'[d] = at[d]
  BY DEF UpdatePwd, Answers, TypeOK, reqVars
<1>5. \A a, b \in accounts' : a.name = b.name => a = b
  BY <1>2, <1>3 DEF NameInv
<1>6. \A d \in Conns : at'[d] = "commit" =>
        rowLock' = {d} /\ \A a \in accounts' : a.name # req'[d].name
  BY <1>2, <1>3, <1>4 DEF NameInv
<1>7. \A d \in Conns : at'[d] = "updatePwd" => \E a \in accounts' :
        a.name = req'[d].name /\ a.email = req'[d].email
  BY <1>2, <1>3, <1>4 DEF NameInv
<1> QED  BY <1>4, <1>5, <1>6, <1>7 DEF NameInv

LEMMA NamesInductive ==
  ASSUME "name" \in UniqueKeys, TypeOK, HandlerInv, NameInv, [Next]_vars
  PROVE  NameInv'
<1>1. CASE UNCHANGED vars
  BY <1>1 DEF NameInv, vars, reqVars, mysqlVars
<1>2. ASSUME NEW e \in Emails, CodeExpires(e) PROVE NameInv'
  BY <1>2 DEF NameInv, CodeExpires, reqVars, mysqlVars
<1> QED
  BY <1>1, <1>2, NamesHandler, NamesChecked, NamesCommit, NamesUpdatePwd
  DEF Next, HandlerStep
-----------------------------------------------------------------------------
\* The step that changes the passwords of an address.
LEMMA MailStep ==
  ASSUME TypeOK, HandlerInv, MailInv, NameInv, [Next]_vars, NEW e \in Emails,
         PwdsOf(e)' # PwdsOf(e)
  PROVE  \E c \in Conns : /\ at[c] \in {"commit", "updatePwd"}
                          /\ at'[c] = "reply" /\ req[c].email = e
                          /\ quoted[c] \in inbox[e]
<1>1. accounts' # accounts
  BY DEF PwdsOf
<1>2. PICK c \in Conns : Commit(c) \/ UpdatePwd(c)
  BY <1>1
  DEF Next, HandlerStep, HandleReq, ReadError, WriteResponse, Throws, Ignores,
      WriteEnds, DeadlineFires, ClientStalls, GetRedis, SetRedisExpire,
      SendMail, CodeExpires, CheckCode, SelectEmail, SelectName, UpdateId,
      Insert, StatementFails, CheckEmail, CheckPwd, GetChatServer, vars,
      mysqlVars
<1>3. /\ conn[c] = "handling" /\ at[c] \in {"commit", "updatePwd"}
      /\ at'[c] = "reply" /\ req[c] \in Request
  BY <1>2 DEF Commit, UpdatePwd, At, Answers, TypeOK, HandlerInv
<1>4. quoted[c] \in inbox[req[c].email]
  BY <1>3 DEF MailInv, QuotesMail, Checked
<1>5. req[c].email = e
  <2>1. CASE Commit(c)
    <3>1. Committed(c)
      BY <1>1, <2>1 DEF Commit
    <3> DEFINE new == [uid |-> newId[c], name |-> req[c].name,
                       email |-> req[c].email, pwd |-> req[c].pwd]
    <3>2. accounts' = accounts \cup {new} /\ new.email = req[c].email
      BY <3>1 DEF Committed
    <3> HIDE DEF new
    <3>3. SUFFICES ASSUME req[c].email # e PROVE FALSE
      OBVIOUS
    <3>4. {b \in accounts' : b.email = e} = {b \in accounts : b.email = e}
      BY <3>2, <3>3
    <3> QED  BY <3>4 DEF PwdsOf
  <2>2. CASE UpdatePwd(c)
    <3>1. PICK p : accounts' =
             {IF p /\ a.name = req[c].name /\ a.pwd # req[c].pwd
              THEN [a EXCEPT !.pwd = req[c].pwd] ELSE a : a \in accounts}
      BY <2>2, PwdUpdated
    <3>2. \A a \in accounts : a.name = req[c].name => a.email = req[c].email
      BY <2>2 DEF UpdatePwd, At, NameInv
    <3> DEFINE New(a) == IF p /\ a.name = req[c].name /\ a.pwd # req[c].pwd
                         THEN [a EXCEPT !.pwd = req[c].pwd] ELSE a
    <3>3. \A a \in accounts : /\ New(a).email = a.email
                              /\ a.email # req[c].email => New(a) = a
      BY <3>2 DEF TypeOK, Account
    <3>4. accounts' = {New(a) : a \in accounts}
      BY <3>1
    <3> HIDE DEF New
    <3>5. SUFFICES ASSUME req[c].email # e PROVE FALSE
      OBVIOUS
    <3>6. {b \in accounts' : b.email = e} = {b \in accounts : b.email = e}
      BY <3>3, <3>4, <3>5
    <3> QED  BY <3>6 DEF PwdsOf
  <2> QED  BY <1>2, <2>1, <2>2
<1> QED  BY <1>3, <1>4, <1>5

\* If the index on the name is unique, as the transaction takes it to be, an
\* account of an address appears, and its password changes, only by a request
\* for that address which quotes a code mailed there.
THEOREM OnlyByMailHolds ==
  ASSUME "name" \in UniqueKeys,
         \A a, b \in Accounts0 : a.name = b.name => a = b
  PROVE  Spec => OnlyByMail
<1>1. Init => NameInv
  BY DEF Init, NameInv
<1>2. TypeOK /\ HandlerInv /\ MailInv /\ NameInv /\ [Next]_vars
        => (TypeOK /\ HandlerInv /\ MailInv /\ NameInv)'
  BY NextType, ApartInductive, QuotesInductive, NamesInductive DEF MailInv
<1>3. TypeOK /\ HandlerInv /\ MailInv /\ NameInv /\ [Next]_vars => ByMail
  BY MailStep DEF ByMail
<1> QED  BY <1>1, <1>2, <1>3, InitType, InitMail, PTL DEF Spec, OnlyByMail
=============================================================================
