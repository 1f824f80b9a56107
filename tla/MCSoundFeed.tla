---------------------------- MODULE MCSoundFeed ----------------------------
(***************************************************************************)
(* SoundFeed in units of about 15 ms: a device buffer is 46 ms, a fragment *)
(* 91 ms, the target between 120 and 400 ms.                               *)
(***************************************************************************)
EXTENDS SoundFeed
=============================================================================
