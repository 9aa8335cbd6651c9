\* A login that goes on without the lock.
CONSTANTS
  a1 = a1 a2 = a2 s1 = s1 s2 = s2 u1 = u1
  Servers = {a1}
  Sessions = {s1, s2}
  Users = {u1}
  NoUser = NoUser
  Nil = Nil
  Orphan = Orphan
  Home <- HomeOneServer
  Wants <- WantsAll
  Faults <- FirstGone
  MaxRequests = 1
  MaxCrashes = 0
  LoginMayTimeOut = TRUE
  LockMayExpire = FALSE
  RpcMayFail = FALSE
SPECIFICATION Spec
PROPERTY NeverSteal
CHECK_DEADLOCK FALSE
