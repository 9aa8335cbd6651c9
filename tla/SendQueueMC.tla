---------------------------- MODULE SendQueueMC ----------------------------
(* Small instances of SendQueue: two threads, enough messages to fill the   *)
(* queue, to be refused, and to be accepted again afterwards.               *)
EXTENDS SendQueue

CONSTANTS t1, t2      \* calling threads
=============================================================================
