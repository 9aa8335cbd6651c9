--------------------------- MODULE StatusBalanceMC ---------------------------
(***************************************************************************)
(* A small instance of StatusBalance: two chat servers, of which one can   *)
(* be the wrong choice, and two requests of one user, which share a token. *)
(***************************************************************************)
EXTENDS StatusBalance

CONSTANTS a1, a2, u1, r1, r2   \* servers, user, requests

TwoServers == <<a1, a2>>
SameUser == [r \in Requests |-> u1]
=============================================================================
