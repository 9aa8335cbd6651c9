------------------------------- MODULE GateMC -------------------------------
(* A small instance of Gate: two registrations, or a registration and a     *)
(* request for its code, mix on two io threads, while an older user resets  *)
(* a password, logs in or sends nonsense on one of them.                    *)
EXTENDS Gate, TLC

CONSTANTS h1, h2, h3,       \* HTTP connections
          i1, i2,           \* io threads
          e0, e1, e2,       \* addresses
          n0, n1, n2,       \* names
          p0, p1            \* passwords

ThreadOf == (h1 :> i1) @@ (h2 :> i2) @@ (h3 :> i1)

Ask(kind, name, email, pwd, quotes) ==
  [kind |-> kind, name |-> name, email |-> email, pwd |-> pwd,
   quotes |-> quotes]

RequestsOf ==
  (h1 :> {Ask("code", n0, e1, p0, e1), Ask("register", n1, e1, p1, e1)}) @@
  (h2 :> {Ask("register", n2, e2, p1, e2), Ask("register", n1, e2, p0, e2),
          Ask("register", n2, e1, p0, e1), Ask("code", n0, e1, p0, e1)}) @@
  (h3 :> {Ask("reset", n0, e0, p1, e0), Ask("reset", n0, e1, p1, e1),
          Ask("reset", n0, e0, p1, e1), Ask("login", n0, e0, p0, e0),
          Ask("bad", n0, e0, p0, e0), Ask("odd", n0, e0, p0, e0),
          Ask("other", n0, e0, p0, e0)})

\* An account of earlier, and the codes of earlier requests.
OldUser == {[uid |-> 1, name |-> n0, email |-> e0, pwd |-> p0]}
=============================================================================
