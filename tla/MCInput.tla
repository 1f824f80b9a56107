------------------------------ MODULE MCInput -------------------------------
(***************************************************************************)
(* Input with Alt, the two Return keys, which have one code, and V, which  *)
(* opens the console; rings of two slots.                                  *)
(***************************************************************************)
EXTENDS Input

MCKeys == {"Alt", "Return", "Enter", "V"}

MCCode == [Alt |-> 59, Return |-> 72, Enter |-> 72, V |-> 33]

MCQualifier == 59 :> "alt"

MCChordOf == [Alt |-> "none", Return |-> "fullscreen", Enter |-> "fullscreen",
              V |-> "console"]
=============================================================================
