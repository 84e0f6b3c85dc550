------------------------------ MODULE MCPolling ------------------------------
(* Instances of Polling for TLC. *)
EXTENDS Polling

CONSTANTS k1, k2

(* Updates 1 and 3 come from one user, update 2 from another. *)
MCKeyOf == [u \in 1..MaxUpdate |-> IF u % 2 = 1 THEN k1 ELSE k2]
=============================================================================
