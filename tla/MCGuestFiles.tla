---------------------------- MODULE MCGuestFiles ----------------------------
(***************************************************************************)
(* GuestFiles with units of one byte, groups of two and three units, and   *)
(* saves of three provinces, the last with the larger group, as map23 has. *)
(***************************************************************************)
EXTENDS GuestFiles

MCGroups == <<2, 3>>

Prov(gap, group) == [gap |-> gap, size |-> Len(group), group |-> group]

(* Two game states; a group of the second holds bytes that could be        *)
(* counters.                                                               *)
MCWorlds ==
  { << Prov(<<0>>, <<12, 1>>), Prov(<<1, 1>>, <<13, 0>>),
       Prov(<<>>, <<12, 0, 13>>) >>,
    << Prov(<<6>>, <<4, 1>>), Prov(<<0>>, <<12, 6>>),
       Prov(<<2>>, <<14, 1, 12>>) >> }

(* The worlds are such as the theorems about saves are for; and so are the *)
(* saves of earlier sessions, but where an overflow is wanted.             *)
ASSUME WorldsLegible /\ (3 \in OldSaves \/ OldSavesFit)
=============================================================================
