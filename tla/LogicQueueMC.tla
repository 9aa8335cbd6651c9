---------------------------- MODULE LogicQueueMC ----------------------------
(* Small instances of LogicQueue: two io threads suffice for every order of *)
(* two posts; a shutdown may come between any two steps.                    *)
EXTENDS LogicQueue

CONSTANTS p1, p2      \* io threads
=============================================================================
