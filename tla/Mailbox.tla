------------------------------ MODULE Mailbox ------------------------------
(***************************************************************************)
(* What PostMsgToQue promises its callers: the messages accepted are       *)
(* served one by one, in the order of acceptance, none twice and none      *)
(* skipped.                                                                *)
(***************************************************************************)
EXTENDS Naturals, Sequences

CONSTANT Message

VARIABLES accepted, served

Init == accepted = <<>> /\ served = <<>>

Accept(m) == accepted' = Append(accepted, m) /\ UNCHANGED served

Serve ==
  /\ Len(served) < Len(accepted)
  /\ served' = Append(served, accepted[Len(served) + 1])
  /\ UNCHANGED accepted

Next == Serve \/ \E m \in Message : Accept(m)

Spec == Init /\ [][Next]_<<accepted, served>>
=============================================================================
