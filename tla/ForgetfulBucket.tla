-------------------------- MODULE ForgetfulBucket --------------------------
(* What RateLimiter promises of a sender (middleware.go): a TokenBucket that *)
(* a call takes a token of if there is one, and that may be full again at    *)
(* once, but only for a sender who has not called for longer than IdleTTL.   *)
(* Who calls more often than that keeps to the rate.                         *)
EXTENDS TokenBucket

CONSTANTS
  IdleTTL,  \* how long a sender is remembered
  Oldest    \* bound: a silence is not told from a longer one

VARIABLE silent  \* the time since the sender's last call

Call ==
  /\ Take \/ (level < Cost /\ UNCHANGED level)
  /\ silent' = 0

Pass ==
  /\ Refill \/ (level = Burst /\ UNCHANGED level)
  /\ silent' = IF silent < Oldest THEN silent + 1 ELSE Oldest

Forget ==
  /\ silent > IdleTTL
  /\ level' = Burst
  /\ UNCHANGED silent

ForgetfulInit == Init /\ silent = 0

ForgetfulNext == Call \/ Pass \/ Forget
=============================================================================
