------------------------------ MODULE ConPoolMC ------------------------------
(* Small instances of ConPool: more threads than connections, so that some  *)
(* wait while others spin on the lock, and an outage.                       *)
EXTENDS ConPool

CONSTANTS w1, w2,       \* threads that call RedisMgr
          c1            \* connections
=============================================================================
