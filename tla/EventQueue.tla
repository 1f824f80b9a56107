----------------------------- MODULE EventQueue -----------------------------
(***************************************************************************)
(* What an event ring promises the guest: events come out in the order in  *)
(* which they went in, and one is lost only when a full ring is written    *)
(* to.  Then nearly all of them are: a ring whose write index can say      *)
(* "full" keeps the event that was written and nothing else, a ring that   *)
(* has no such mark looks empty.                                           *)
(***************************************************************************)
EXTENDS Naturals, Sequences, SequencesExt

None == <<>>

CONSTANTS
  Size,     \* slots
  Batches   \* the sequences of events written in one go

VARIABLES
  queue,    \* what has been written and not read
  out,      \* the event that has just been read, or None
  marks     \* TRUE if the write index can say that the ring is full

Room == IF marks THEN Size ELSE Size - 1

Queued(q, e) ==
  IF Len(q) < Room THEN Append(q, e) ELSE IF marks THEN <<e>> ELSE <<>>

Write(es) ==
  /\ queue' = FoldLeft(Queued, queue, es)
  /\ out' = None

Read ==
  /\ queue # <<>>
  /\ out' = Head(queue)
  /\ queue' = Tail(queue)

Init == queue = <<>> /\ out = None /\ marks \in BOOLEAN

Next ==
  /\ Read \/ \E es \in Batches : Write(es)
  /\ UNCHANGED marks

Spec == Init /\ [][Next]_<<queue, out, marks>>
=============================================================================
