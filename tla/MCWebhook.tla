------------------------------ MODULE MCWebhook ------------------------------
(* Instances of Webhook for TLC. *)
EXTENDS Webhook, TLC

CONSTANTS u1, u2, u3, k1, k2

(* Two updates of one user, one of another. *)
MCKeyOf == [u \in Updates |-> IF u = u3 THEN k2 ELSE k1]

Symmetry == Permutations(Requests) \cup Permutations(Workers)
=============================================================================
