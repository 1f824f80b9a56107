------------------------------ MODULE MCSplice ------------------------------
(***************************************************************************)
(* Splice with a stack deep enough for a splice inside a splice inside a   *)
(* splice, and two host calls, so that one can follow an abort.            *)
(***************************************************************************)
EXTENDS Splice
=============================================================================
