------------------------------ MODULE EventRing ------------------------------
(***************************************************************************)
(* The rings of events in guest memory, as the host writes them            *)
(* (traps.cpp) and the guest reads them.  The write index of the rings of  *)
(* Intuition and VKeyboard is -1 when they are full; the rings of VMouse   *)
(* and of the pointer are empty when the indexes are equal, and no index   *)
(* says that they are full.                                                *)
(*                                                                         *)
(* A ring is [buf, rd, wr], with slots from 0.  The guest leaves what it   *)
(* has read in its slot; here the slot is blank, for it is written again   *)
(* before it is read.                                                      *)
(***************************************************************************)
EXTENDS Integers, Sequences, FiniteSets

Blank == <<>>

NewRing(size) == [buf |-> [i \in 0 .. size - 1 |-> Blank], rd |-> 0, wr |-> 0]

RingSize(r) == Cardinality(DOMAIN r.buf)

(* The slot after slot i.                                                  *)
After(r, i) == (i + 1) % RingSize(r)

(* Mutant: the mark is forgotten.                                          *)
PushMarked_Unmarked(r, e) ==
  LET slot == IF r.wr < 0 THEN r.rd ELSE r.wr
  IN  [r EXCEPT !.buf[slot] = e, !.wr = After(r, slot)]

(* push_intuition_event, and the ring of VKeyboard in on_sdl_event.        *)
PushMarked(r, e) ==
  LET slot == IF r.wr < 0 THEN r.rd ELSE r.wr
  IN  [r EXCEPT !.buf[slot] = e,
                !.wr = IF After(r, slot) = r.rd THEN -1 ELSE After(r, slot)]

(* mouse_event_move and mouse_event_buttons.                               *)
PushPlain(r, e) == [r EXCEPT !.buf[r.wr] = e, !.wr = After(r, r.wr)]

Readable(r) == r.rd # r.wr

(* The guest takes the oldest event.                                       *)
Oldest(r) == r.buf[r.rd]

Pull(r) ==
  [r EXCEPT !.buf[r.rd] = Blank,
            !.rd = After(r, r.rd),
            !.wr = IF @ < 0 THEN r.rd ELSE @]

(* The events in the ring, oldest first.                                   *)
Content(r) ==
  LET n == IF r.wr < 0 THEN RingSize(r) ELSE (r.wr - r.rd) % RingSize(r)
  IN  [i \in 1 .. n |-> r.buf[(r.rd + i - 1) % RingSize(r)]]
=============================================================================
