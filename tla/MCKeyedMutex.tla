----------------------------- MODULE MCKeyedMutex -----------------------------
(* An instance of KeyedMutex for TLC. *)
EXTENDS KeyedMutex

=============================================================================
