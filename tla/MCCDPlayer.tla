----------------------------- MODULE MCCDPlayer -----------------------------
(***************************************************************************)
(* CDPlayer with a ring and buffers of two samples, tracks of four         *)
(* packets and two opens, so that one track replaces another.              *)
(***************************************************************************)
EXTENDS CDPlayer
=============================================================================
