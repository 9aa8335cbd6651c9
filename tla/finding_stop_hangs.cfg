\* One io thread, one message, and the destructor.
CONSTANTS
  p1 = p1 p2 = p2
  Posters = {p1}
  MaxPosts = 1
SPECIFICATION FairSpec
PROPERTY StopEnds
CHECK_DEADLOCK FALSE
