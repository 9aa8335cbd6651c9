--------------------------- MODULE ChatDeliveryMC ---------------------------
(***************************************************************************)
(* Two servers; u1 logs in on either, the connection to the second breaks; *)
(* clients of the second server apply to u1, one after the other, and u1   *)
(* accepts the first there; a list of applications has one row.            *)
(***************************************************************************)
EXTENDS ChatDelivery, TLC

CONSTANTS a1, a2, s1, s2, u1, u2, u3

HomeTwoServers == [s \in Sessions |-> IF s = s2 THEN a2 ELSE a1]
WantsFirst == [s \in Sessions |-> {u1}]
SecondGone == [s \in Sessions |-> IF s = s2 THEN {"gone"} ELSE {}]

Apply == [kind |-> "apply", from |-> u2, to |-> u1]
ApplyToo == [kind |-> "apply", from |-> u3, to |-> u1]
Accepted == [kind |-> "accept", from |-> u1, to |-> u2]
FromSecond == [a \in Servers |-> IF a = a1 THEN <<>>
                                 ELSE <<Apply, ApplyToo, Accepted>>]
=============================================================================
