\* Two io threads with two messages each, and a shutdown at any point.
CONSTANTS
  p1 = p1 p2 = p2
  Posters = {p1, p2}
  MaxPosts = 2
SPECIFICATION FairSpec
INVARIANTS TypeOK NoLostPost StopServesAll QueueInv
PROPERTIES MailboxSpec AcceptedIsServed
CHECK_DEADLOCK FALSE
