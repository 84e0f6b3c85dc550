---------------------------- MODULE RateLimiter ----------------------------
(***************************************************************************)
(* RateLimiter and its middleware (middleware.go): one bucket per key,     *)
(* made full on first use, refilled when it is asked, dropped by a sweep   *)
(* once nobody has asked for longer than IdleTTL.  A unit of time is what  *)
(* one part of a token takes to come, as in TokenBucket; lastRefill and    *)
(* lastAccess are always set together, so one age stands for both.         *)
(***************************************************************************)
EXTENDS Integers

CONSTANTS
  Keys,     \* sender ids
  Nobody,   \* what the middleware finds where an update has no sender
  Absent,   \* no bucket
  Burst,    \* capacity, in parts of a token
  Cost,     \* parts in one token
  IdleTTL,  \* idleTTL after NewRateLimiter's defaults
  Second    \* units of time in a second, the least interval between sweeps

(* NewRateLimiter raises burst to at least one token and takes any idle time *)
(* above zero, be it shorter than a bucket takes to fill or not.             *)
RateLimiterAssumption ==
  /\ Nobody \notin Keys /\ Absent \notin [tokens : Nat, age : Nat]
  /\ Cost \in Nat \ {0} /\ Burst \in Nat /\ Burst >= Cost
  /\ IdleTTL \in Nat \ {0}
  /\ Second \in Nat \ {0}

VARIABLES
  buckets,  \* rl.buckets
  timer,    \* until the ticker of cleanupLoop fires
  closed,   \* stopCleanup is closed
  silent    \* history: silent[k] is the time since k's last call

vars == <<buckets, timer, closed, silent>>

-----------------------------------------------------------------------------

Least(a, b)    == IF a < b THEN a ELSE b
Greatest(a, b) == IF a > b THEN a ELSE b

Interval == Greatest(IdleTTL \div 2, Second)
Oldest   == Greatest(IdleTTL, Burst) + 1  \* bound: an age is not told from a greater one

Level(k) == IF buckets[k] = Absent THEN Burst
                                   ELSE Least(Burst, buckets[k].tokens + buckets[k].age)

Init ==
  /\ buckets = [k \in Keys |-> Absent]
  /\ timer = Interval
  /\ closed = FALSE
  /\ silent = [k \in Keys |-> 0]

(* Mutant of Allow: a refused call does not restart the clock it was paid by. *)
AllowRefusedKeepsAge(k) ==
  /\ buckets' = [buckets EXCEPT ![k] =
       IF Level(k) >= Cost THEN [tokens |-> Level(k) - Cost, age |-> 0]
       ELSE [tokens |-> Level(k), age |-> buckets[k].age]]
  /\ silent' = [silent EXCEPT ![k] = 0]
  /\ UNCHANGED <<timer, closed>>

(* Both answers of Allow: a bucket below one token is only brought up to date. *)
Allow(k) ==
  /\ buckets' = [buckets EXCEPT ![k] =
       [tokens |-> IF Level(k) >= Cost THEN Level(k) - Cost ELSE Level(k), age |-> 0]]
  /\ silent' = [silent EXCEPT ![k] = 0]
  /\ UNCHANGED <<timer, closed>>

(* RateLimitMiddleware asks for From's id, RateLimitMiddlewareBySender for   *)
(* Sender's; an update without one goes on to the handler unasked.           *)
Middleware(sender) ==
  \/ sender \in Keys /\ Allow(sender)
  \/ sender = Nobody /\ UNCHANGED vars

(* Mutant of evictExpired: buckets go as soon as they are idle at all. *)
EvictIdle ==
  /\ ~closed /\ timer = 0
  /\ buckets' = [k \in Keys |-> IF buckets[k] # Absent /\ buckets[k].age > 0
                                THEN Absent ELSE buckets[k]]
  /\ timer' = Interval
  /\ UNCHANGED <<closed, silent>>

evictExpired ==
  /\ ~closed /\ timer = 0
  /\ buckets' = [k \in Keys |-> IF buckets[k] # Absent /\ buckets[k].age > IdleTTL
                                THEN Absent ELSE buckets[k]]
  /\ timer' = Interval
  /\ UNCHANGED <<closed, silent>>

Close ==
  /\ ~closed
  /\ closed' = TRUE
  /\ UNCHANGED <<buckets, timer, silent>>

(* The sweep runs when its ticker fires: cleanupLoop waits for nothing else. *)
Tick ==
  /\ closed \/ timer > 0
  /\ timer' = IF closed THEN timer ELSE timer - 1
  /\ buckets' = [k \in Keys |-> IF buckets[k] = Absent THEN Absent
                                ELSE [buckets[k] EXCEPT !.age = Least(Oldest, @ + 1)]]
  /\ silent' = [k \in Keys |-> Least(Oldest, silent[k] + 1)]
  /\ UNCHANGED closed

Next == (\E sender \in Keys \cup {Nobody} : Middleware(sender)) \/ evictExpired \/ Close \/ Tick

Spec == Init /\ [][Next]_vars

-----------------------------------------------------------------------------
(* Properties *)

Bucket(k) == INSTANCE ForgetfulBucket WITH level <- Level(k), silent <- silent[k]

(* "a per-key token bucket: rate tokens/second refill, burst tokens          *)
(* capacity" (RateLimiter): refilling only when asked, and forgetting idle   *)
(* senders, lets no sender do more than a bucket that is filled all the      *)
(* time, whatever the idle time - but for a sender who was silent for longer *)
(* than that, who may find a full one (ForgetfulBucket).                     *)
KeepsRate ==
  /\ \A k \in Keys : Bucket(k)!ForgetfulInit
  /\ [][\A k \in Keys : [Bucket(k)!ForgetfulNext]_<<Level(k), silent[k]>>]_vars
=============================================================================
