----------------------------- MODULE SendQueue -----------------------------
(***************************************************************************)
(* The outgoing messages of one CSession.  Send is called by the logic     *)
(* thread, by the gRPC threads and by the logic threads' pushes to other   *)
(* users; HandleWrite runs on the session's io thread when an async_write  *)
(* has ended; the timer or a read error may close the socket at any time.  *)
(*                                                                         *)
(* Send and the good branch of HandleWrite hold _send_lock from beginning  *)
(* to end and are one action each.  An asynchronous write is a record with *)
(* the message whose buffer it uses: it is busy, then has ended well or    *)
(* with an error while its handler waits for the io thread.                *)
(***************************************************************************)
EXTENDS Naturals, Sequences

CONSTANTS
  Senders,     \* the threads that call Send
  MaxSends,    \* bound: messages per thread
  MaxSendQue   \* MAX_SENDQUE

ASSUME SendQueueAssumption == MaxSends \in Nat /\ MaxSendQue \in Nat

Message == [from : Senders, n : 1 .. MaxSends]
WriteOp == [msg : Message, state : {"busy", "ok", "error"}]

VARIABLES
  sendQue,    \* _send_que
  writes,     \* the asynchronous writes of the session
  sock,       \* _socket
  peer,       \* the client: there, gone, or stalled (connected, not reading)
  cleaned,    \* has HandleWrite called DealExceptionSession?
  sent,       \* messages per thread so far (bound)
  accepted,   \* history: messages Send queued
  refused,    \* history: messages Send dropped
  delivered   \* history: messages written to the socket

vars == <<sendQue, writes, sock, peer, cleaned, sent, accepted, refused,
          delivered>>

Init ==
  /\ sendQue = <<>> /\ writes = {}
  /\ sock = "open" /\ peer = "there" /\ cleaned = FALSE
  /\ sent = [t \in Senders |-> 0]
  /\ accepted = <<>> /\ refused = {} /\ delivered = <<>>
-----------------------------------------------------------------------------
\* async_write of a message that stays in the queue meanwhile.
AsyncWrite(m) == [msg |-> m, state |-> "busy"]
Ended(w, how) == [w EXCEPT !.state = how]

\* Mutant: the limit is not looked at.
Send_NoLimit(t) ==
  LET m == [from |-> t, n |-> sent[t] + 1]
  IN /\ sent[t] < MaxSends
     /\ sent' = [sent EXCEPT ![t] = @ + 1]
     /\ sendQue' = Append(sendQue, m)
     /\ accepted' = Append(accepted, m)
     /\ writes' = IF sendQue = <<>> THEN writes \cup {AsyncWrite(m)} ELSE writes
     /\ UNCHANGED <<refused, sock, peer, cleaned, delivered>>

\* Mutant: every Send starts a write of its own message.
Send_AlwaysWrite(t) ==
  LET m == [from |-> t, n |-> sent[t] + 1]
  IN /\ sent[t] < MaxSends
     /\ sent' = [sent EXCEPT ![t] = @ + 1]
     /\ sendQue' = Append(sendQue, m)
     /\ accepted' = Append(accepted, m)
     /\ writes' = writes \cup {AsyncWrite(m)}
     /\ UNCHANGED <<refused, sock, peer, cleaned, delivered>>

\* Send does not ask whether the session is closed.  It drops the message of a
\* queue longer than MAX_SENDQUE, and starts a write on an empty queue only.
Send(t) ==
  LET m == [from |-> t, n |-> sent[t] + 1]
  IN /\ sent[t] < MaxSends
     /\ sent' = [sent EXCEPT ![t] = @ + 1]
     /\ IF Len(sendQue) > MaxSendQue
        THEN /\ refused' = refused \cup {m}
             /\ UNCHANGED <<sendQue, writes, accepted>>
        ELSE /\ sendQue' = Append(sendQue, m)
             /\ accepted' = Append(accepted, m)
             /\ writes' = IF sendQue = <<>> THEN writes \cup {AsyncWrite(m)}
                          ELSE writes
             /\ UNCHANGED refused
     /\ UNCHANGED <<sock, peer, cleaned, delivered>>

\* The whole message is in the socket.
WriteEnds(w) ==
  /\ w.state = "busy" /\ sock = "open" /\ peer = "there"
  /\ delivered' = Append(delivered, w.msg)
  /\ writes' = (writes \ {w}) \cup {Ended(w, "ok")}
  /\ UNCHANGED <<sendQue, sock, peer, cleaned, sent, accepted, refused>>

\* The client is gone, or Close() aborts the write.
WriteFails(w) ==
  /\ w.state = "busy" /\ (sock = "closed" \/ peer = "gone")
  /\ writes' = (writes \ {w}) \cup {Ended(w, "error")}
  /\ UNCHANGED <<sendQue, sock, peer, cleaned, sent, accepted, refused,
                 delivered>>

\* Mutant: the next write is left to the next Send.
HandleWrite_NoNext(w) ==
  /\ w.state = "ok"
  /\ sendQue' = Tail(sendQue)
  /\ writes' = writes \ {w}
  /\ UNCHANGED <<sock, peer, cleaned, sent, accepted, refused, delivered>>

\* HandleWrite without error: drop the head and write the next message, be the
\* socket closed or not.
HandleWrite(w) ==
  /\ w.state = "ok"
  /\ sendQue' = Tail(sendQue)
  /\ writes' = (writes \ {w}) \cup
                 IF Tail(sendQue) = <<>> THEN {}
                 ELSE {AsyncWrite(Head(Tail(sendQue)))}
  /\ UNCHANGED <<sock, peer, cleaned, sent, accepted, refused, delivered>>

\* Mutant: the failed message is dropped and the session left open.
HandleWriteError_NoClose(w) ==
  /\ w.state = "error"
  /\ cleaned' = TRUE
  /\ writes' = writes \ {w}
  /\ UNCHANGED <<sendQue, sock, peer, sent, accepted, refused, delivered>>

\* HandleWrite with an error: Close and DealExceptionSession.  The queue keeps
\* its head, so no Send starts a write again.
HandleWriteError(w) ==
  /\ w.state = "error"
  /\ sock' = "closed"
  /\ cleaned' = TRUE
  /\ writes' = writes \ {w}
  /\ UNCHANGED <<sendQue, peer, sent, accepted, refused, delivered>>

\* Close() of a read error, of the timer or of CheckValid.
Close ==
  /\ sock = "open"
  /\ sock' = "closed"
  /\ UNCHANGED <<sendQue, writes, peer, cleaned, sent, accepted, refused,
                 delivered>>

\* The client goes away, which nothing on this side has noticed so far, or it
\* only stops reading while its heartbeats go on.
PeerChanges ==
  /\ peer = "there"
  /\ peer' \in {"gone", "stalled"}
  /\ UNCHANGED <<sendQue, writes, sock, cleaned, sent, accepted, refused,
                 delivered>>

IoStep(w) ==
  WriteEnds(w) \/ WriteFails(w) \/ HandleWrite(w) \/ HandleWriteError(w)

Next ==
  \/ \E t \in Senders : Send(t)
  \/ \E w \in writes : IoStep(w)
  \/ Close \/ PeerChanges

Spec == Init /\ [][Next]_vars
-----------------------------------------------------------------------------
(* What must hold.                                                         *)

\* Types, and the bound the code keeps: one message more than MAX_SENDQUE.
TypeOK ==
  /\ sendQue \in Seq(Message) /\ Len(sendQue) <= MaxSendQue + 1
  /\ writes \subseteq WriteOp
  /\ sock \in {"open", "closed"} /\ peer \in {"there", "stalled", "gone"}
  /\ cleaned \in BOOLEAN
  /\ sent \in [Senders -> 0 .. MaxSends]
  /\ accepted \in Seq(Message) /\ delivered \in Seq(Message)
  /\ refused \subseteq Message

\* There is one write at a time (two would mix their bytes), and the buffer it
\* uses is still owned by the queue, of which it is the head.
OneWrite == \A v, w \in writes : v = w
BufferAlive ==
  \A w \in writes : sendQue # <<>> /\ Head(sendQue) = w.msg
WriteOwnsHead == OneWrite /\ BufferAlive

\* Messages never wait for a write that nobody starts: when the queue holds
\* one and no write is under way, the connection was closed and its clean-up
\* has been started by the write that failed.
StuckIsClosed == sendQue # <<>> /\ writes = {} => sock = "closed" /\ cleaned

\* The queue keeps Outbox's promise: order, no gap, no duplicate, and no
\* message dropped while there is room.
O == INSTANCE Outbox WITH Limit <- MaxSendQue, conn <- sock
OutboxSpec == O!Spec

\* The messages that are accepted and not delivered are the queue, whose head
\* may have been written while its handler waits.
Undelivered ==
  IF \E w \in writes : w.state = "ok" THEN Tail(sendQue) ELSE sendQue

\* Whatever Send, the io thread and Close do between each other's steps: one
\* write at a time and of the queue's head, no queue that waits for nothing,
\* and every accepted message written or still in the queue, in its order.
SendInv == WriteOwnsHead /\ StuckIsClosed /\ accepted = delivered \o Undelivered
-----------------------------------------------------------------------------
(* Progress: an asynchronous write ends, well or with an error, and the io *)
(* thread runs its handler.  Nobody is assumed to close anything.          *)
Fairness == WF_vars(\E w \in writes : IoStep(w))

FairSpec == Spec /\ Fairness

\* A message that Send has queued goes out, or the connection is closed, unless
\* the client stops reading: nothing limits how long one write may take.
AcceptedGoesOut ==
  \A k \in 1 .. MaxSends :
    Len(accepted) >= k ~>
      Len(delivered) >= k \/ sock = "closed" \/ peer = "stalled"
=============================================================================
