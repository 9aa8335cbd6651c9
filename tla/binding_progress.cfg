\* One server where a login has to get its lock, the first connection failing in
\* every way, and a crash.
CONSTANTS
  a1 = a1 a2 = a2 s1 = s1 s2 = s2 u1 = u1
  Servers = {a1}
  Sessions = {s1, s2}
  Users = {u1}
  NoUser = NoUser
  Nil = Nil
  Orphan = Orphan
  Home <- HomeOneServer
  Wants <- WantsAll
  Faults <- FirstAll
  MaxRequests = 1
  MaxCrashes = 1
  LoginMayTimeOut = FALSE
  LockMayExpire = FALSE
  RpcMayFail = FALSE
SPECIFICATION FairSpec
INVARIANTS TypeOK RouteConsistent CleanupInv
PROPERTIES ClosedLeaves LoginEnds LockComesFree
CHECK_DEADLOCK FALSE
