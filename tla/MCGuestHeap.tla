---------------------------- MODULE MCGuestHeap ----------------------------
(***************************************************************************)
(* GuestHeap on an arena of a few units.  One unit of address is 8 bytes   *)
(* of the real arena, so Align 2 and MinSplit 4 are the code's 16 and 32.  *)
(***************************************************************************)
EXTENDS GuestHeap

ASSUME NoWrap
=============================================================================
