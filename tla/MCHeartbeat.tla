---------------------------- MODULE MCHeartbeat ----------------------------
(***************************************************************************)
(* Heartbeat with sleeps shorter and longer than the timer's interval, a   *)
(* clamp below the longest one, and a sleep inside a slice of sound.       *)
(***************************************************************************)
EXTENDS Heartbeat
=============================================================================
