\* Two chat servers that start, stop and crash; two requests of one user.
CONSTANTS
  a1 = a1 a2 = a2 u1 = u1 r1 = r1 r2 = r2
  Order <- TwoServers
  Users = {u1}
  Requests = {r1, r2}
  UserOf <- SameUser
  Nil = Nil
  MaxConns = 2
  MaxChanges = 3
  GateMayGiveUp = TRUE
SPECIFICATION FairSpec
INVARIANTS TypeOK PickedWasLeast SomeTokenWorks RefusedIfReplaced
PROPERTY CallIsAnswered
CHECK_DEADLOCK FALSE
