--------------------------- MODULE MCRedisStorage ---------------------------
(* Instances of RedisStorage for TLC: goroutines dispatching updates of one  *)
(* user (h1, h2) or of another, whose handlers keep to their own             *)
(* conversation.                                                             *)
EXTENDS RedisStorage

CONSTANTS k1, k2, h1, h2

MCOwnKey  == [h \in Handlers |-> IF h \in {h1, h2} THEN k1 ELSE k2]
MCOwnOnly == [h \in Handlers |-> {OwnKey[h]}]

(* What the last call was is not read by any action. *)
View == <<stateKey, dataKey, pc, call, idle>>
=============================================================================
