---------------------------- MODULE TokenBucket ----------------------------
(* What a token bucket promises (broadcastPacer in broadcast.go, RateLimiter *)
(* in middleware.go): one part of a token arrives per unit of time while the *)
(* bucket is not full, and each event takes a whole token.  Over any stretch *)
(* of t units there are hence at most (Burst + t) / Cost events.             *)
EXTENDS Integers

CONSTANTS
  Burst,  \* capacity, in parts of a token
  Cost    \* parts in one token

VARIABLE level

Init == level = Burst

Refill == level < Burst /\ level' = level + 1

Take == level >= Cost /\ level' = level - Cost

Next == Refill \/ Take

Spec == Init /\ [][Next]_level
=============================================================================
