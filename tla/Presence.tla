------------------------------ MODULE Presence ------------------------------
(***************************************************************************)
(* What the cluster promises about where a user is, with no lock, queue or *)
(* thread in sight.  A user is owned by at most one session.  Ownership    *)
(* passes to a session only when the previous owner has lost its seat (its *)
(* entry in a server's session table), and it is given up only after the   *)
(* owner's connection was closed.                                          *)
(***************************************************************************)
CONSTANTS Sessions, Uids, Nil

VARIABLES
  owner,   \* the session a user is on, or Nil
  seated,  \* the sessions in some server's table
  conn     \* the connection of each session

vars == <<owner, seated, conn>>

Init ==
  /\ owner = [u \in Uids |-> Nil]
  /\ seated = {}
  /\ conn = [s \in Sessions |-> "new"]

Connect(s) ==
  /\ conn[s] = "new"
  /\ conn' = [conn EXCEPT ![s] = "open"]
  /\ UNCHANGED <<owner, seated>>

Seat(s) ==
  /\ conn[s] # "new"
  /\ seated' = seated \cup {s}
  /\ UNCHANGED <<owner, conn>>

Unseat(s) ==
  /\ seated' = seated \ {s}
  /\ UNCHANGED <<owner, conn>>

\* Connections close together when a server looks for silent sessions.
Disconnect(S) ==
  /\ \A s \in S : conn[s] # "new"
  /\ conn' = [s \in Sessions |-> IF s \in S THEN "closed" ELSE conn[s]]
  /\ UNCHANGED <<owner, seated>>

\* A server dies: its sessions lose connection and seat at once.
Fail(S) ==
  /\ \A s \in S : conn[s] # "new"
  /\ conn' = [s \in Sessions |-> IF s \in S THEN "closed" ELSE conn[s]]
  /\ seated' = seated \ S
  /\ UNCHANGED owner

TakeOver(u, s) ==
  /\ conn[s] # "new"
  /\ owner[u] \notin seated \ {s}
  /\ owner' = [owner EXCEPT ![u] = s]
  /\ UNCHANGED <<seated, conn>>

GiveUp(u) ==
  /\ owner[u] # Nil /\ conn[owner[u]] = "closed"
  /\ owner' = [owner EXCEPT ![u] = Nil]
  /\ UNCHANGED <<seated, conn>>

Next ==
  \/ \E s \in Sessions : Connect(s) \/ Seat(s) \/ Unseat(s)
  \/ \E S \in SUBSET Sessions : Disconnect(S) \/ Fail(S)
  \/ \E u \in Uids : GiveUp(u) \/ \E s \in Sessions : TakeOver(u, s)

Spec == Init /\ [][Next]_vars
=============================================================================
