\* Locks that run out, logins that do not get theirs, kicks that fail.
CONSTANTS
  a1 = a1 a2 = a2 s1 = s1 s2 = s2 u1 = u1
  Servers = {a1, a2}
  Sessions = {s1, s2}
  Users = {u1}
  NoUser = NoUser
  Nil = Nil
  Orphan = Orphan
  Home <- HomeTwoServers
  Wants <- WantsAll
  Faults <- FirstGone
  MaxRequests = 1
  MaxCrashes = 1
  LoginMayTimeOut = TRUE
  LockMayExpire = TRUE
  RpcMayFail = TRUE
SPECIFICATION Spec
INVARIANT HolderWorks
PROPERTY ReleaseOnlyOwn
CHECK_DEADLOCK FALSE
