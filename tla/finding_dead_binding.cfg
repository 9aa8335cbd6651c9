\* One connection that is lost while its login is being handled.
CONSTANTS
  a1 = a1 a2 = a2 s1 = s1 s2 = s2 u1 = u1
  Servers = {a1}
  Sessions = {s1}
  Users = {u1}
  NoUser = NoUser
  Nil = Nil
  Orphan = Orphan
  Home <- HomeOneServer
  Wants <- WantsAll
  Faults <- FirstGone
  MaxRequests = 1
  MaxCrashes = 0
  LoginMayTimeOut = FALSE
  LockMayExpire = FALSE
  RpcMayFail = FALSE
SPECIFICATION Spec
INVARIANT NoDeadBinding
CHECK_DEADLOCK FALSE
