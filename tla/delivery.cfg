\* A user who moves between two servers, clients of one who apply to him.
CONSTANTS
  a1 = a1 a2 = a2 s1 = s1 s2 = s2 u1 = u1 u2 = u2 u3 = u3
  Servers = {a1, a2}
  Sessions = {s1, s2}
  Users = {u1, u2, u3}
  NoUser = NoUser
  Nil = Nil
  Orphan = Orphan
  Home <- HomeTwoServers
  Wants <- WantsFirst
  Faults <- SecondGone
  MaxRequests = 1
  MaxCrashes = 1
  MaxFlaws = 1
  Mortal = {a1}
  Swept = {}
  LoginMayTimeOut = FALSE
  LockMayExpire = FALSE
  RpcMayFail = TRUE
  Requests <- FromSecond
  BindsToFrom = {a2}
  ListsApplies = {a2}
  ListLimit = 1
SPECIFICATION DeliverySpec
INVARIANTS DeliveryTypeOK SteadyIsPushed PartedByFlaws
PROPERTIES InOrder AppliedIsListed AcceptedIsSettled
CHECK_DEADLOCK FALSE
