------------------------------- MODULE Outbox -------------------------------
(***************************************************************************)
(* What CSession::Send promises the threads that call it: the messages     *)
(* accepted go out one by one in the order of acceptance, none twice and   *)
(* none skipped; a message is turned away only when Limit others are on    *)
(* their way, never more than Limit + 1 are, and nothing goes out after    *)
(* the connection was closed.                                              *)
(***************************************************************************)
EXTENDS Naturals, Sequences

CONSTANTS Message, Limit

VARIABLES
  accepted,   \* messages taken from the callers
  delivered,  \* messages written to the socket
  refused,    \* messages turned away
  conn        \* "open" or "closed"

vars == <<accepted, delivered, refused, conn>>

OnTheWay == Len(accepted) - Len(delivered)

Init ==
  /\ accepted = <<>> /\ delivered = <<>> /\ refused = {} /\ conn = "open"

Accept(m) ==
  /\ OnTheWay <= Limit
  /\ accepted' = Append(accepted, m)
  /\ UNCHANGED <<delivered, refused, conn>>

Refuse(m) ==
  /\ OnTheWay >= Limit
  /\ refused' = refused \cup {m}
  /\ UNCHANGED <<accepted, delivered, conn>>

Deliver ==
  /\ conn = "open" /\ OnTheWay > 0
  /\ delivered' = Append(delivered, accepted[Len(delivered) + 1])
  /\ UNCHANGED <<accepted, refused, conn>>

Break == conn' = "closed" /\ UNCHANGED <<accepted, delivered, refused>>

Next == Deliver \/ Break \/ \E m \in Message : Accept(m) \/ Refuse(m)

Spec == Init /\ [][Next]_vars
=============================================================================
