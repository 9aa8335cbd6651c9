\* Two servers, one of which may crash and restart; the first connection may fail in every way.
CONSTANTS
  a1 = a1 a2 = a2 s1 = s1 s2 = s2 u1 = u1
  Servers = {a1, a2}
  Sessions = {s1, s2}
  Users = {u1}
  NoUser = NoUser
  Nil = Nil
  Orphan = Orphan
  Home <- HomeTwoServers
  Wants <- WantsAll
  Faults <- FirstAll
  MaxRequests = 1
  MaxCrashes = 1
  LoginMayTimeOut = FALSE
  LockMayExpire = FALSE
  RpcMayFail = FALSE
SPECIFICATION Spec
INVARIANT SingleLogin
PROPERTIES NeverSteal PresenceSpec
CHECK_DEADLOCK FALSE
