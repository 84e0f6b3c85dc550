---------------------------- MODULE MCBroadcast ----------------------------
(* An instance of Broadcast for TLC. *)
EXTENDS Broadcast, TLC
=============================================================================
