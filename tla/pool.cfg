\* Two threads and one connection, three calls, an outage and a Close.
CONSTANTS
  w1 = w1 w2 = w2 c1 = c1
  Workers = {w1, w2}
  Conns = {c1}
  Nil = Nil
  MaxCalls = 3
  MaxOutages = 1
SPECIFICATION FairSpec
INVARIANTS TypeOK PoolInv
PROPERTIES CallsEnd Recovers
CHECK_DEADLOCK FALSE
