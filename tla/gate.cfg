\* Two registrations, a code request, and a reset or a login.
CONSTANTS
  h1 = h1 h2 = h2 h3 = h3 i1 = i1 i2 = i2
  e0 = e0 e1 = e1 e2 = e2 n0 = n0 n1 = n1 n2 = n2 p0 = p0 p1 = p1
  Conns = {h1, h2, h3}
  Threads = {i1, i2}
  OnThread <- ThreadOf
  Emails = {e0, e1, e2}
  Names = {n0, n1, n2}
  Pwds = {p0, p1}
  Requests <- RequestsOf
  Accounts0 <- OldUser
  Mailed0 = {e0, e1, e2}
  UniqueKeys = {"name", "email"}
  MaxCodes = 5
  MaxFlaws = 1
SPECIFICATION FairSpec
INVARIANTS TypeOK EachItsAccount
PROPERTIES OnlyByMail RequestEnds
CHECK_DEADLOCK FALSE
