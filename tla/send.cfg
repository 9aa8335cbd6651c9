\* Two threads with three messages each and a queue of two.
CONSTANTS
  t1 = t1 t2 = t2
  Senders = {t1, t2}
  MaxSends = 3
  MaxSendQue = 1
SPECIFICATION FairSpec
INVARIANTS TypeOK SendInv
PROPERTIES OutboxSpec AcceptedGoesOut
CHECK_DEADLOCK FALSE
