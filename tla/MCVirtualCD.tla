---------------------------- MODULE MCVirtualCD ----------------------------
(***************************************************************************)
(* VirtualCD with a gap in the numbering (track 3 is not in the rip), a    *)
(* track without a length (2), and two moods, one of which may choose the  *)
(* track that is missing.  Any track may end before a sample is heard.     *)
(***************************************************************************)
EXTENDS VirtualCD, TLC

MCTracks     == {1, 2, 4}
MCDuration   == 1 :> 2 @@ 2 :> 0 @@ 4 :> 1
MCList       == 1 :> {1, 2} @@ 2 :> {3, 4}
=============================================================================
