------------------------------ MODULE MCScreen ------------------------------
(***************************************************************************)
(* The screen with Alt and Return, which skip a movie and together make    *)
(* the chord for full screen; a movie of seven frames; two places of the   *)
(* pointer.                                                                *)
(***************************************************************************)
EXTENDS Screen

MCKeys == {"Alt", "Return"}

MCCode == [Alt |-> 59, Return |-> 72]

MCQualifier == 59 :> "alt"

MCChordOf == [Alt |-> "none", Return |-> "fullscreen"]
=============================================================================
