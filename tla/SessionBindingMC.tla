-------------------------- MODULE SessionBindingMC --------------------------
(***************************************************************************)
(* Small clusters for SessionBinding, with one user: two servers and a     *)
(* connection to each, or one server with both.  s1 is the one that fails. *)
(***************************************************************************)
EXTENDS SessionBinding

CONSTANTS a1, a2, s1, s2, u1

HomeTwoServers == [s \in Sessions |-> IF s = s2 THEN a2 ELSE a1]
HomeOneServer == [s \in Sessions |-> a1]
WantsAll == [s \in Sessions |-> Users]

FirstGone == [s \in Sessions |-> IF s = s1 THEN {"gone"} ELSE {}]
FirstAll == [s \in Sessions |->
               IF s = s1 THEN {"gone", "silent", "badHeader"} ELSE {}]
=============================================================================
