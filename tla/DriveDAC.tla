------------------------------ MODULE DriveDAC ------------------------------
(***************************************************************************)
(* What the virtual drive's transport relies on from the half that makes   *)
(* sound: a track is started, heard in buffers, and over once all of it    *)
(* has been heard; a pause lets at most the buffer already being mixed     *)
(* through.  CDPlayer, with its decoder thread and its audio callback, is  *)
(* shown to implement this.                                                *)
(***************************************************************************)
EXTENDS Integers

CONSTANT
  Burst     \* samples heard at a time: what the audio callback asks for

ASSUME DacConstants == Burst \in Nat \ {0}

VARIABLE
  dac   \* on, heard (samples), over, paused, late (a buffer is under way)

DacInit ==
  dac = [on |-> FALSE, heard |-> 0, over |-> FALSE,
         paused |-> FALSE, late |-> FALSE]

Started(d) == [d EXCEPT !.on = TRUE, !.heard = 0, !.over = FALSE,
                        !.paused = FALSE, !.late = FALSE]
Shut(d)    == [d EXCEPT !.on = FALSE, !.heard = 0, !.over = FALSE]

Start == dac' = Started(dac)
Off   == dac' = Shut(dac)

(* The flag is all a pause sets: the callback may have tested it already.  *)
Pause(b) == \E l \in {FALSE, b} : dac' = [dac EXCEPT !.paused = b, !.late = l]

(* A buffer is heard.  Nothing of a track that is over is heard again.     *)
Hear ==
  /\ ~dac.paused \/ dac.late
  /\ \E n \in 0 .. Burst, o \in BOOLEAN :
       /\ n > 0 => dac.on /\ ~dac.over
       /\ dac' = [dac EXCEPT !.heard = @ + n, !.late = FALSE,
                             !.over = @ \/ (o /\ dac.on)]

(* The end of the track is reached without another sample being due.       *)
End == dac.on /\ dac' = [dac EXCEPT !.over = TRUE]

DacNext == Start \/ Off \/ (\E b \in BOOLEAN : Pause(b)) \/ Hear \/ End

DacSpec == DacInit /\ [][DacNext]_dac
=============================================================================
