----------------------------- MODULE PartsProofs -----------------------------
(***************************************************************************)
(* Theorems about the parts that work alone: the lifecycle of a bot        *)
(* (bot.go), the rate limiter (middleware.go), the freezing of routers     *)
(* (router.go), the in-memory storage (fsm_memory.go), the Redis storage   *)
(* (storage/redis/storage.go) and the admin cache (admin_cache.go) with    *)
(* the calls it makes.                                                     *)
(***************************************************************************)
EXTENDS AdminCache, Parts, SequenceTheorems, TLAPS

-----------------------------------------------------------------------------
(* The bot's lifecycle *)

Places ==
  {"out", "Run", "StartWorkers", "StopWorkers", "startup", "start", "poll",
   "stopping", "once", "wait", "stopped", "shutdown"}

BotTypes ==
  /\ ran \in BOOLEAN /\ updateChan \in BOOLEAN
  /\ place \in [Starters -> Places]
  /\ queue \in Nat
  /\ stopOnce \in {"unused", "running", "done"}
  /\ worker \in [Workers -> {"unborn", "ready", "busy", "exited"}]

(* Before the first call has set the flag nothing has begun, and those on    *)
(* their way to the flag are all starting the bot or all stopping it.        *)
UnmarkedInv ==
  ~ran =>
    /\ stopOnce = "unused"
    /\ \A c \in Starters : place[c] \in {"out", "Run", "StartWorkers", "StopWorkers"}
    /\ \A c, d \in Starters :
         place[c] \in {"Run", "StartWorkers"} => place[d] # "StopWorkers"

(* While one caller starts the bot nobody is stopping it. *)
StartingInv ==
  \A c \in Starters :
    place[c] \in {"startup", "start", "poll"} =>
      /\ stopOnce = "unused"
      /\ \A d \in Starters \ {c} : place[d] \in {"out", "Run", "StartWorkers"}

(* stopOnce, and what the caller inside it waits for *)
OnceInv ==
  /\ updateChan <=> stopOnce # "unused"
  /\ \A c \in Starters : place[c] = "wait" =>
       stopOnce = "running" /\ \A d \in Starters \ {c} : place[d] # "wait"
  /\ \A c \in Starters : place[c] \in {"stopped", "shutdown"} => stopOnce = "done"
  /\ stopOnce = "done" => \A w \in Workers : worker[w] \in {"unborn", "exited"}

(* Workers who have not started, and those who have gone *)
WorkerInv ==
  \A w \in Workers :
    /\ worker[w] = "unborn" => queue = 0 /\ \A c \in Starters : place[c] # "poll"
    /\ worker[w] = "exited" => queue = 0 /\ updateChan

(* After the stop only a caller still inside StopWorkers delays the status. *)
StatusInv ==
  stopOnce = "done" /\ status # "stopped" =>
    \E c \in Starters : place[c] \in {"once", "stopped"}

BotInv == BotTypes /\ UnmarkedInv /\ StartingInv /\ OnceInv /\ WorkerInv /\ StatusInv

USE DEF Places

LEMMA BotInitInd ==
  ASSUME Bot!Init
  PROVE  BotInv
BY DEF Bot!Init, BotInv, BotTypes, UnmarkedInv, StartingInv, OnceInv, WorkerInv, StatusInv

(* A call begins. *)
LEMMA CallInd ==
  ASSUME BotInv, NEW c \in Starters,
         Bot!CallRunOrStartWorkers(c) \/ Bot!CallStopWorkers(c)
  PROVE  BotInv'
<1>. USE DEF BotInv
<1>1. /\ place[c] = "out"
      /\ UNCHANGED <<ran, running, queue, updateChan, stopOnce, worker, status>>
      /\ \/ /\ place' = [place EXCEPT ![c] = "StopWorkers"]
            /\ \A d \in Starters : place[d] \notin {"startup", "start", "poll"}
            /\ ran \/ \A d \in Starters : place[d] \notin {"Run", "StartWorkers"}
         \/ /\ \E method \in {"Run", "StartWorkers"} : place' = [place EXCEPT ![c] = method]
            /\ ran \/ \A d \in Starters : place[d] # "StopWorkers"
  BY DEF Bot!CallRunOrStartWorkers, Bot!CallStopWorkers, Bot!Goes, Bot!Starting
<1>2. BotTypes'
  BY <1>1 DEF BotTypes
<1>3. UnmarkedInv'
  BY <1>1 DEF BotTypes, UnmarkedInv
<1>4. StartingInv'
  BY <1>1 DEF BotTypes, StartingInv
<1>5. OnceInv' /\ WorkerInv' /\ StatusInv'
  BY <1>1 DEF BotTypes, OnceInv, WorkerInv, StatusInv
<1>. QED
  BY <1>2, <1>3, <1>4, <1>5

LEMMA markRanInd ==
  ASSUME BotInv, NEW c \in Starters, Bot!markRan(c)
  PROVE  BotInv'
<1>. USE DEF BotInv
<1>1. /\ place[c] \in {"Run", "StartWorkers", "StopWorkers"}
      /\ ran' = TRUE
      /\ UNCHANGED <<queue, updateChan, stopOnce, worker, status>>
      /\ \/ place[c] = "StopWorkers" /\ place' = [place EXCEPT ![c] = "stopping"]
         \/ place[c] # "StopWorkers" /\ ran /\ place' = [place EXCEPT ![c] = "out"]
         \/ place[c] # "StopWorkers" /\ ~ran
              /\ \E to \in {"startup", "start"} : place' = [place EXCEPT ![c] = to]
  BY DEF Bot!markRan, Bot!Goes, Bot!Unmarked
<1>2. BotTypes' /\ UnmarkedInv'
  BY <1>1 DEF BotTypes, UnmarkedInv
<1>3. StartingInv'
  BY <1>1 DEF BotTypes, UnmarkedInv, StartingInv
<1>4. OnceInv' /\ WorkerInv' /\ StatusInv'
  BY <1>1 DEF BotTypes, OnceInv, WorkerInv, StatusInv
<1>. QED
  BY <1>2, <1>3, <1>4

(* Run and StartWorkers once the flag is theirs *)
LEMMA StartInd ==
  ASSUME BotInv, NEW c \in Starters,
         Bot!StartupFails(c) \/ Bot!startWorkers(c) \/ Bot!Send(c) \/ Bot!Canceled(c)
  PROVE  BotInv'
<1>. USE DEF BotInv
<1>1. place[c] \in {"startup", "start", "poll"} /\ UNCHANGED <<ran, updateChan, stopOnce>>
  BY DEF Bot!StartupFails, Bot!startWorkers, Bot!Send, Bot!Canceled
<1>2. \/ /\ place' = [place EXCEPT ![c] = "out"] /\ UNCHANGED <<queue, worker>>
      \/ /\ \E to \in {"poll", "out"} : place' = [place EXCEPT ![c] = to]
         /\ worker' = [w \in Workers |-> "ready"] /\ queue' = queue
      \/ place[c] = "poll" /\ queue' = queue + 1 /\ UNCHANGED <<place, worker>>
      \/ place' = [place EXCEPT ![c] = "StopWorkers"] /\ UNCHANGED <<queue, worker>>
  BY DEF Bot!StartupFails, Bot!startWorkers, Bot!Send, Bot!Canceled, Bot!Goes
<1>3. ran /\ stopOnce = "unused"
  BY <1>1 DEF UnmarkedInv, StartingInv
<1>4. BotTypes' /\ UnmarkedInv' /\ StatusInv'
  BY <1>1, <1>2, <1>3 DEF BotTypes, UnmarkedInv, StatusInv
<1>5. StartingInv'
  BY <1>1, <1>2 DEF BotTypes, StartingInv
<1>6. OnceInv'
  BY <1>1, <1>2, <1>3 DEF BotTypes, OnceInv
<1>7. WorkerInv'
  BY <1>1, <1>2, <1>3 DEF BotTypes, OnceInv, WorkerInv
<1>. QED
  BY <1>4, <1>5, <1>6, <1>7

(* The ways through StopWorkers and out of Run *)
LEMMA StopInd ==
  ASSUME BotInv, NEW c \in Starters,
         \/ Bot!Stopping(c) \/ Bot!CloseUpdateChan(c) \/ Bot!Drained(c) \/ Bot!SkipOnce(c)
         \/ Bot!Stopped(c) \/ Bot!RunReturns(c)
  PROVE  BotInv'
<1>. USE DEF BotInv
<1>1. place[c] \in {"stopping", "once", "wait", "stopped", "shutdown"}
      /\ UNCHANGED <<ran, queue, worker>>
  BY DEF Bot!Stopping, Bot!CloseUpdateChan, Bot!Drained, Bot!SkipOnce, Bot!Stopped,
         Bot!RunReturns
<1>2. \/ /\ place[c] = "stopping" /\ place' = [place EXCEPT ![c] = "once"]
         /\ UNCHANGED <<updateChan, stopOnce>>
      \/ /\ place[c] = "once" /\ place' = [place EXCEPT ![c] = "wait"]
         /\ stopOnce = "unused" /\ stopOnce' = "running" /\ updateChan'
      \/ /\ place[c] = "wait" /\ place' = [place EXCEPT ![c] = "stopped"]
         /\ \A w \in Workers : worker[w] \in {"unborn", "exited"}
         /\ stopOnce' = "done" /\ UNCHANGED <<updateChan, status>>
      \/ /\ place[c] = "once" /\ place' = [place EXCEPT ![c] = "stopped"]
         /\ stopOnce = "done" /\ UNCHANGED <<updateChan, stopOnce, status>>
      \/ /\ place[c] = "stopped"
         /\ \E to \in {"shutdown", "out"} : place' = [place EXCEPT ![c] = to]
         /\ status' = "stopped" /\ UNCHANGED <<updateChan, stopOnce>>
      \/ /\ place[c] = "shutdown" /\ place' = [place EXCEPT ![c] = "out"]
         /\ UNCHANGED <<updateChan, stopOnce, status>>
  BY DEF Bot!Stopping, Bot!CloseUpdateChan, Bot!Drained, Bot!SkipOnce, Bot!Stopped,
         Bot!RunReturns, Bot!Goes
<1>3. ran /\ \A d \in Starters : place[d] \notin {"startup", "start", "poll"}
  BY <1>1 DEF BotTypes, UnmarkedInv, StartingInv
<1>4. BotTypes'
  BY <1>1, <1>2 DEF BotTypes, OnceInv
<1>5. UnmarkedInv' /\ StartingInv'
  BY <1>1, <1>2, <1>3 DEF BotTypes, UnmarkedInv, StartingInv
<1>6. OnceInv'
  BY <1>1, <1>2 DEF BotTypes, OnceInv
<1>7. WorkerInv'
  BY <1>1, <1>2, <1>3 DEF BotTypes, WorkerInv
<1>8. StatusInv'
  BY <1>1, <1>2 DEF BotTypes, StatusInv
<1>. QED
  BY <1>4, <1>5, <1>6, <1>7, <1>8

LEMMA WorkerInd ==
  ASSUME BotInv, NEW w \in Workers, Bot!Receive(w) \/ Bot!Handled(w) \/ Bot!Exit(w)
  PROVE  BotInv'
<1>. USE DEF BotInv
<1>1. /\ UNCHANGED <<ran, place, updateChan, stopOnce, status>>
      /\ worker[w] \in {"ready", "busy"}
      /\ \/ worker' = [worker EXCEPT ![w] = "busy"] /\ queue > 0 /\ queue' = queue - 1
         \/ worker' = [worker EXCEPT ![w] = "ready"] /\ queue' = queue
         \/ /\ worker' = [worker EXCEPT ![w] = "exited"] /\ queue' = queue
            /\ queue = 0 /\ updateChan
  BY DEF Bot!Receive, Bot!Handled, Bot!Exit
<1>2. BotTypes' /\ UnmarkedInv' /\ StartingInv' /\ StatusInv'
  BY <1>1 DEF BotTypes, UnmarkedInv, StartingInv, StatusInv
<1>3. OnceInv'
  BY <1>1 DEF BotTypes, OnceInv
<1>4. WorkerInv'
  BY <1>1 DEF BotTypes, WorkerInv
<1>. QED
  BY <1>2, <1>3, <1>4

(* A stop is for good, however often Run, StartWorkers and StopWorkers are   *)
(* called, if nobody stops the bot while another goroutine's Run or          *)
(* StartWorkers is on its way: nobody is on the way to sending on the closed *)
(* channel, who has come through stopOnce finds no handler running and       *)
(* nothing queued, and after the last call has returned the status says so.  *)
THEOREM StopsForGood == Bot!Spec => []StopIsFinal
<1>. Bot!LifecycleAssumption
  BY BotAssumed
<1>1. Bot!Init => BotInv
  BY BotInitInd
<1>2. BotInv /\ [Bot!Next]_(Bot!vars) => BotInv'
  <2>. SUFFICES ASSUME BotInv, [Bot!Next]_(Bot!vars) PROVE BotInv'
    OBVIOUS
  <2>1. CASE UNCHANGED Bot!vars
    BY <2>1 DEF Bot!vars, BotInv, BotTypes, UnmarkedInv, StartingInv, OnceInv, WorkerInv,
                StatusInv
  <2>2. CASE Bot!Next
    BY <2>2, CallInd, markRanInd, StartInd, StopInd, WorkerInd DEF Bot!Next
  <2>. QED
    BY <2>1, <2>2
<1>3. BotInv => Bot!StopIsFinal
  <2>. SUFFICES ASSUME BotInv PROVE Bot!StopIsFinal
    OBVIOUS
  <2>. USE DEF BotInv
  <2>1. updateChan => \A c \in Starters : place[c] \notin {"startup", "start", "poll"}
    BY DEF OnceInv, StartingInv
  <2>2. ASSUME NEW c \in Starters, place[c] \in {"stopped", "shutdown"}
        PROVE  queue = 0 /\ \A w \in Workers : worker[w] \in {"unborn", "exited"}
    BY <2>2 DEF OnceInv, WorkerInv, Bot!LifecycleAssumption
  <2>3. ASSUME stopOnce = "done",
               \A c \in Starters : place[c] \in {"Run", "StartWorkers", "StopWorkers", "out"}
        PROVE  status = "stopped"
    BY <2>3 DEF StatusInv
  <2>. QED
    BY <2>1, <2>2, <2>3 DEF Bot!StopIsFinal, Bot!Starting, Bot!Unmarked
<1>. QED
  BY <1>1, <1>2, <1>3, PTL DEF Bot!Spec, StopIsFinal

-----------------------------------------------------------------------------
(* The rate limiter *)

Bucket == [tokens : 0..Burst, age : 0..Limiter!Oldest]

(* A bucket that is there is as old as its sender's last call. *)
BucketsInv ==
  /\ buckets \in [Keys -> Bucket \cup {Absent}]
  /\ silent \in [Keys -> 0..Limiter!Oldest]
  /\ \A k \in Keys : buckets[k] # Absent => buckets[k].age = silent[k]

(* Of a bucket that is there, and of one that is not, the level is what a    *)
(* bucket filled all the time would hold; and a record is never Absent.      *)
LEMMA Levels ==
  ASSUME Limiter!RateLimiterAssumption, BucketsInv, NEW k \in Keys
  PROVE  /\ Limiter!Level(k) \in 0..Burst
         /\ buckets[k] = Absent => Limiter!Level(k) = Burst
         /\ buckets[k] # Absent =>
              /\ buckets[k] \in Bucket
              /\ Limiter!Level(k) = IF Burst < buckets[k].tokens + buckets[k].age THEN Burst
                                    ELSE buckets[k].tokens + buckets[k].age
BY DEF Limiter!RateLimiterAssumption, BucketsInv, Bucket, Limiter!Level, Limiter!Least,
       Limiter!Oldest, Limiter!Greatest

LEMMA NotAbsent ==
  ASSUME Limiter!RateLimiterAssumption, NEW b \in [tokens : Nat, age : Nat]
  PROVE  b # Absent
BY DEF Limiter!RateLimiterAssumption

(* An age is counted beyond what fills a bucket. *)
LEMMA OldestIsLong ==
  ASSUME Limiter!RateLimiterAssumption
  PROVE  Limiter!Oldest \in Nat /\ Limiter!Oldest > Burst
BY DEF Limiter!RateLimiterAssumption, Limiter!Oldest, Limiter!Greatest

(* A step of the limiter is, for each sender, a step of a bucket that is     *)
(* filled all the time and forgotten after a silence, or none.               *)
BucketStep(k) == [Limiter!Bucket(k)!ForgetfulNext]_<<Limiter!Level(k), silent[k]>>

LEMMA AllowStep ==
  ASSUME Limiter!RateLimiterAssumption, BucketsInv, NEW k \in Keys, Limiter!Allow(k)
  PROVE  BucketsInv' /\ \A j \in Keys : BucketStep(j)
<1>. DEFINE after == IF Limiter!Level(k) >= Cost THEN Limiter!Level(k) - Cost
                     ELSE Limiter!Level(k)
            b     == [tokens |-> after, age |-> 0]
<1>1. buckets' = [buckets EXCEPT ![k] = b]
  BY DEF Limiter!Allow
<1>2. Cost \in Nat /\ Burst \in Nat
  BY DEF Limiter!RateLimiterAssumption
<1>3. Limiter!Level(k) \in 0..Burst
  BY Levels
<1>4. after \in 0..Burst
  BY <1>2, <1>3
<1>5. b \in Bucket /\ b \in [tokens : Nat, age : Nat]
  BY <1>2, <1>4, OldestIsLong DEF Bucket
<1>7. /\ buckets'[k] = b /\ silent'[k] = 0
      /\ \A j \in Keys \ {k} : buckets'[j] = buckets[j] /\ silent'[j] = silent[j]
  BY <1>1 DEF BucketsInv, Limiter!Allow
<1>6. BucketsInv'
  <2>1. buckets' \in [Keys -> Bucket \cup {Absent}] /\ silent' \in [Keys -> 0..Limiter!Oldest]
    BY <1>1, <1>5, OldestIsLong DEF BucketsInv, Limiter!Allow
  <2>2. b.age = 0
    OBVIOUS
  <2>. QED
    BY <1>7, <2>1, <2>2 DEF BucketsInv
<1>8. b # Absent
  BY <1>5, NotAbsent
<1>9. Limiter!Level(k)' = after
  BY <1>2, <1>4, <1>7, <1>8 DEF Limiter!Level, Limiter!Least
<1>10. BucketStep(k)
  BY <1>2, <1>3, <1>7, <1>9 DEF BucketStep, Limiter!Bucket!ForgetfulNext, Limiter!Bucket!Call, Limiter!Bucket!Take
<1>11. ASSUME NEW j \in Keys \ {k} PROVE BucketStep(j)
  BY <1>7 DEF BucketStep, Limiter!Level
<1>. QED
  BY <1>6, <1>10, <1>11

LEMMA EvictStep ==
  ASSUME Limiter!RateLimiterAssumption, BucketsInv, Limiter!evictExpired
  PROVE  BucketsInv' /\ \A j \in Keys : BucketStep(j)
<1>1. buckets' = [k \in Keys |-> IF buckets[k] # Absent /\ buckets[k].age > IdleTTL
                                    THEN Absent ELSE buckets[k]]
  BY DEF Limiter!evictExpired
<1>2. BucketsInv' /\ silent' = silent
  BY <1>1 DEF BucketsInv, Limiter!evictExpired
<1>3. ASSUME NEW j \in Keys PROVE BucketStep(j)
  <2>1. CASE buckets[j] # Absent /\ buckets[j].age > IdleTTL
    <3>1. Limiter!Level(j)' = Burst
      BY <1>1, <2>1 DEF Limiter!Level
    <3>2. silent[j] > IdleTTL
      BY <2>1 DEF BucketsInv
    <3>. QED
      BY <1>2, <3>1, <3>2 DEF BucketStep, Limiter!Bucket!ForgetfulNext, Limiter!Bucket!Forget
  <2>2. CASE ~(buckets[j] # Absent /\ buckets[j].age > IdleTTL)
    BY <1>1, <1>2, <2>2 DEF BucketStep, Limiter!Level
  <2>. QED
    BY <2>1, <2>2
<1>. QED
  BY <1>2, <1>3

LEMMA TickStep ==
  ASSUME Limiter!RateLimiterAssumption, BucketsInv, Limiter!Tick
  PROVE  BucketsInv' /\ \A j \in Keys : BucketStep(j)
<1>. DEFINE older(b) == [b EXCEPT !.age = Limiter!Least(Limiter!Oldest, @ + 1)]
<1>1. buckets' = [k \in Keys |-> IF buckets[k] = Absent THEN Absent ELSE older(buckets[k])]
  BY DEF Limiter!Tick
<1>2. ASSUME NEW b \in Bucket
      PROVE  /\ older(b) \in Bucket /\ older(b) \in [tokens : Nat, age : Nat]
             /\ older(b).tokens = b.tokens
             /\ older(b).age = IF Limiter!Oldest < b.age + 1 THEN Limiter!Oldest ELSE b.age + 1
  BY OldestIsLong DEF Bucket, Limiter!Least, Limiter!RateLimiterAssumption
<1>. HIDE DEF older
<1>5. /\ silent' \in [Keys -> 0..Limiter!Oldest]
      /\ \A j \in Keys : silent'[j] = IF Limiter!Oldest < silent[j] + 1 THEN Limiter!Oldest
                                       ELSE silent[j] + 1
  BY OldestIsLong DEF Limiter!Tick, BucketsInv, Limiter!Least
<1>3. BucketsInv'
  <2>1. buckets' \in [Keys -> Bucket \cup {Absent}]
    BY <1>1, <1>2 DEF BucketsInv
  <2>2. ASSUME NEW j \in Keys, buckets'[j] # Absent PROVE buckets'[j].age = silent'[j]
    BY <1>1, <1>2, <1>5, <2>2 DEF BucketsInv
  <2>. QED
    BY <1>5, <2>1, <2>2 DEF BucketsInv
<1>4. ASSUME NEW j \in Keys PROVE BucketStep(j)
  <2>. DEFINE old == Limiter!Level(j)
              new == Limiter!Level(j)'
  <2>1. new = IF old < Burst THEN old + 1 ELSE old
    <3>1. CASE buckets[j] = Absent
      BY <1>1, <3>1, Levels DEF Limiter!Level, Limiter!RateLimiterAssumption
    <3>2. CASE buckets[j] # Absent
      <4>1. buckets[j] \in Bucket /\ buckets'[j] = older(buckets[j])
        BY <1>1, <3>2, Levels
      <4>2. buckets'[j] # Absent
        BY <1>2, <4>1, NotAbsent
      <4>3. new = Limiter!Least(Burst, buckets'[j].tokens + buckets'[j].age)
        BY <4>2 DEF Limiter!Level
      <4>. QED
        BY <1>2, <3>2, <4>1, <4>3, Levels, OldestIsLong
        DEF Bucket, Limiter!Least, Limiter!RateLimiterAssumption
    <3>. QED
      BY <3>1, <3>2
  <2>2. old \in 0..Burst /\ Burst \in Nat
    BY Levels DEF Limiter!RateLimiterAssumption
  <2>3. silent[j] \in 0..Limiter!Oldest /\ Limiter!Oldest \in Nat
    BY OldestIsLong DEF BucketsInv
  <2>4. silent'[j] = IF silent[j] < Limiter!Oldest THEN silent[j] + 1 ELSE Limiter!Oldest
    BY <1>5, <2>3
  <2>5. (old < Burst /\ new = old + 1) \/ (old = Burst /\ new = old)
    BY <2>1, <2>2
  <2>. QED
    BY <2>4, <2>5 DEF BucketStep, Limiter!Bucket!ForgetfulNext, Limiter!Bucket!Pass, Limiter!Bucket!Refill
<1>. QED
  BY <1>3, <1>4

(* "a per-key token bucket: rate tokens/second refill, burst tokens          *)
(* capacity" (RateLimiter), for any senders, rate, burst and idle time: the  *)
(* lazy refill and the sweep of idle senders implement a bucket each that is *)
(* filled all the time, and full anew only for who was silent for longer     *)
(* than the idle time.                                                       *)
THEOREM RateKept == Limiter!Spec => KeepsRate
<1>. Limiter!RateLimiterAssumption
  BY LimiterAssumed
<1>1. Limiter!Init => BucketsInv /\ \A k \in Keys : Limiter!Bucket(k)!ForgetfulInit
  BY OldestIsLong
  DEF Limiter!Init, BucketsInv, Limiter!Bucket!ForgetfulInit, Limiter!Bucket!Init, Limiter!Level
<1>2. BucketsInv /\ [Limiter!Next]_(Limiter!vars) =>
        BucketsInv' /\ \A k \in Keys : BucketStep(k)
  <2>. SUFFICES ASSUME BucketsInv, [Limiter!Next]_(Limiter!vars)
       PROVE  BucketsInv' /\ \A k \in Keys : BucketStep(k)
    OBVIOUS
  <2>1. CASE UNCHANGED <<buckets, silent>>
    BY <2>1 DEF BucketsInv, BucketStep, Limiter!Level
  <2>2. CASE Limiter!Next
    BY <2>1, <2>2, AllowStep, EvictStep, TickStep
    DEF Limiter!Next, Limiter!Middleware, Limiter!Close, Limiter!vars
  <2>. QED
    BY <2>1, <2>2 DEF Limiter!vars
<1>3. (\A k \in Keys : BucketStep(k)) =>
        \A k \in Keys : [Limiter!Bucket(k)!ForgetfulNext]_<<Limiter!Level(k), silent[k]>>
  BY DEF BucketStep
<1>. QED
  BY <1>1, <1>2, <1>3, PTL DEF Limiter!Spec, KeepsRate, Limiter!KeepsRate

-----------------------------------------------------------------------------
(* Freezing *)

Frame ==
  [op : {"swap", "freeze", "walk"}, router : Routers, reading : BOOLEAN,
   list : Seq(Routers \cup Leaves), at : Nat \ {0}]

TreeTypes ==
  /\ routes \in [Routers -> Seq(Routers \cup Leaves)]
  /\ frozen \subseteq Routers /\ late \subseteq frozen
  /\ registering \subseteq [router : Routers, route : Routers \cup Leaves]
  /\ stacks \in [Walkers -> Seq(Frame)]

(* Of one call, given the frozen routers F, the late ones L and the routes R:  *)
(* freeze has set the flag; and a list that has been read is what it was.      *)
FrameOK(c, F, L, R) ==
  /\ c \in Frame
  /\ c.op = "freeze" => c.router \in F
  /\ ~c.reading => c.at = 1
  /\ c.reading => c.op # "swap" /\ c.router \in F /\ (c.router \notin L => c.list = R[c.router])

(* The calls of a goroutine: dispatch calls dispatch and freeze, freeze calls  *)
(* freeze, and whoever is in dispatch has called freeze first.                 *)
StackOK(s, F, L, R) ==
  /\ s \in Seq(Frame)
  /\ \A i \in 1..Len(s) : FrameOK(s[i], F, L, R)
  /\ \A i \in 1..Len(s) : s[i].op = "swap" => i = Len(s)
  /\ \A i, j \in 1..Len(s) : s[i].op = "walk" /\ j < i => s[j].op = "walk"
  /\ \A i \in 1..Len(s) : s[i].op = "walk" =>
       \/ s[i].router \in F
       \/ i + 1 \in 1..Len(s) /\ s[i + 1].op = "swap" /\ s[i + 1].router = s[i].router

(* Nobody who registers on a frozen router goes unnoticed. *)
NoticedInv == \A c \in registering : c.router \in frozen => c.router \in late

(* The call c will get from r to its route t. *)
Coming(c, r, t) ==
  \/ c.op = "swap" /\ c.router = t
  \/ /\ c.op = "freeze" /\ c.router = r
     /\ ~c.reading \/ \E j \in 1..Len(c.list) : j >= c.at /\ c.list[j] = t

Expected(r, t) == \E w \in Walkers : \E i \in 1..Len(stacks[w]) : Coming(stacks[w][i], r, t)

(* A router below a frozen one is frozen, or somebody is on the way to it. *)
Followed ==
  \A r \in frozen \ late : \A t \in Tree!Subs(r) : t \in frozen \/ Expected(r, t)

TreeInv ==
  /\ TreeTypes /\ NoticedInv /\ Followed
  /\ \A w \in Walkers : StackOK(stacks[w], frozen, late, routes)

(* A stack without calls of freeze that have yet to set a flag, and its walks  *)
Ready(s, F) == \A i \in 1..Len(s) : s[i].op # "swap" /\ (s[i].op = "walk" => s[i].router \in F)
AllWalk(s)  == \A i \in 1..Len(s) : s[i].op = "walk"

LEMMA Popping ==
  ASSUME NEW s \in Seq(Frame), s # <<>>
  PROVE  /\ Len(s) \in Nat \ {0} /\ s[Len(s)] \in Frame
         /\ SubSeq(s, 1, Len(s) - 1) \in Seq(Frame)
         /\ Len(SubSeq(s, 1, Len(s) - 1)) = Len(s) - 1
         /\ \A i \in 1..Len(s) - 1 : SubSeq(s, 1, Len(s) - 1)[i] = s[i]
<1>1. Len(s) \in Nat \ {0}
  BY EmptySeq, LenProperties
<1>2. s[Len(s)] \in Frame
  BY <1>1, ElementOfSeq
<1>. DEFINE n == Len(s) - 1
<1>3. n \in Nat /\ \A i \in 1..n : s[i] \in Frame
  BY <1>1, ElementOfSeq
<1>. HIDE DEF n
<1>4. SubSeq(s, 1, n) \in Seq(Frame) /\ Len(SubSeq(s, 1, n)) = n /\ \A i \in 1..n : SubSeq(s, 1, n)[i] = s[i]
  <2>1. /\ SubSeq(s, 1, n) \in Seq(Frame)
        /\ Len(SubSeq(s, 1, n)) = IF 1 <= n THEN n - 1 + 1 ELSE 0
        /\ \A i \in 1..n - 1 + 1 : SubSeq(s, 1, n)[i] = s[1 + i - 1]
    BY <1>3, SubSeqProperties
  <2>2. n - 1 + 1 = n /\ \A i \in 1..n : 1 + i - 1 = i
    BY <1>3
  <2>. QED
    BY <1>3, <2>1, <2>2
<1>. QED
  BY <1>1, <1>2, <1>4 DEF n

(* Returning from a call *)
LEMMA PopOK ==
  ASSUME NEW F, NEW L, NEW R, NEW s, StackOK(s, F, L, R), s # <<>>,
         s[Len(s)].op = "swap" => s[Len(s)].router \in F
  PROVE  StackOK(SubSeq(s, 1, Len(s) - 1), F, L, R) /\ Ready(SubSeq(s, 1, Len(s) - 1), F)
<1>. DEFINE p == SubSeq(s, 1, Len(s) - 1)
<1>1. /\ Len(s) \in Nat \ {0} /\ p \in Seq(Frame) /\ Len(p) = Len(s) - 1
      /\ \A i \in 1..Len(p) : p[i] = s[i] /\ i \in 1..Len(s) /\ i # Len(s)
  BY Popping DEF StackOK
<1>. HIDE DEF p
<1>2. \A i \in 1..Len(p) : FrameOK(p[i], F, L, R) /\ p[i].op # "swap"
  BY <1>1 DEF StackOK
<1>3. \A i, j \in 1..Len(p) : p[i].op = "walk" /\ j < i => p[j].op = "walk"
  BY <1>1 DEF StackOK
<1>4. ASSUME NEW i \in 1..Len(p), p[i].op = "walk" PROVE p[i].router \in F
  <2>1. i \in 1..Len(s) /\ s[i] = p[i]
    BY <1>1
  <2>2. CASE i + 1 \in 1..Len(s) /\ s[i + 1].op = "swap" /\ s[i + 1].router = s[i].router
    <3>1. i + 1 = Len(s)
      BY <2>2 DEF StackOK
    <3>. QED
      BY <2>1, <2>2, <3>1
  <2>. QED
    BY <1>4, <2>1, <2>2 DEF StackOK
<1>. QED
  BY <1>1, <1>2, <1>3, <1>4 DEF StackOK, Ready, p

(* Calling, or going on with a call that has come to the top *)
LEMMA PushOK ==
  ASSUME NEW F, NEW L, NEW R, NEW s, StackOK(s, F, L, R), Ready(s, F),
         NEW c, FrameOK(c, F, L, R), c.op = "walk" => AllWalk(s) /\ c.router \in F
  PROVE  /\ StackOK(Append(s, c), F, L, R)
         /\ c.op # "swap" => Ready(Append(s, c), F)
         /\ c.op = "walk" => AllWalk(Append(s, c))
<1>. DEFINE p == Append(s, c)
<1>1. /\ Len(s) \in Nat /\ p \in Seq(Frame) /\ Len(p) = Len(s) + 1 /\ p[Len(s) + 1] = c
      /\ \A i \in 1..Len(s) : p[i] = s[i]
  BY AppendProperties, LenProperties DEF StackOK, FrameOK
<1>. HIDE DEF p
<1>2. \A i \in 1..Len(p) : FrameOK(p[i], F, L, R) /\ (p[i].op = "swap" => i = Len(p))
  BY <1>1 DEF StackOK, Ready
<1>3. ASSUME NEW i \in 1..Len(p), NEW j \in 1..Len(p), p[i].op = "walk", j < i PROVE p[j].op = "walk"
  BY <1>1, <1>3 DEF StackOK, AllWalk
<1>4. \A i \in 1..Len(p) : p[i].op = "walk" => p[i].router \in F
  BY <1>1 DEF Ready
<1>5. c.op # "swap" => Ready(p, F)
  BY <1>1, <1>4 DEF Ready
<1>6. c.op = "walk" => AllWalk(p)
  BY <1>1 DEF AllWalk
<1>. QED
  BY <1>1, <1>2, <1>3, <1>4, <1>5, <1>6 DEF StackOK, p

(* dispatch begins with freeze. *)
LEMMA DispatchOK ==
  ASSUME NEW F, NEW L, NEW R, NEW s, StackOK(s, F, L, R), Ready(s, F), AllWalk(s), NEW r \in Routers
  PROVE  StackOK(Append(Append(s, Tree!Called("walk", r)), Tree!Called("swap", r)), F, L, R)
<1>. DEFINE b == Tree!Called("walk", r)
            c == Tree!Called("swap", r)
            p == Append(Append(s, b), c)
<1>1. FrameOK(b, F, L, R) /\ FrameOK(c, F, L, R)
  BY DEF FrameOK, Frame, Tree!Called
<1>2. b.op = "walk" /\ b.router = r /\ c.op = "swap" /\ c.router = r
  BY DEF Tree!Called
<1>. HIDE DEF b, c
<1>3. /\ Len(s) \in Nat /\ p \in Seq(Frame) /\ Len(p) = Len(s) + 2
      /\ p[Len(s) + 1] = b /\ p[Len(s) + 2] = c /\ \A i \in 1..Len(s) : p[i] = s[i]
  <2>1. b \in Frame /\ c \in Frame /\ s \in Seq(Frame)
    BY <1>1 DEF FrameOK, StackOK
  <2>2. /\ Append(s, b) \in Seq(Frame) /\ Len(Append(s, b)) = Len(s) + 1 /\ Len(s) \in Nat
        /\ Append(s, b)[Len(s) + 1] = b /\ \A i \in 1..Len(s) : Append(s, b)[i] = s[i]
    BY <2>1, AppendProperties, LenProperties
  <2>. DEFINE q == Append(s, b)
  <2>3. q \in Seq(Frame) /\ Len(q) = Len(s) + 1 /\ q[Len(s) + 1] = b /\ \A i \in 1..Len(s) : q[i] = s[i]
    BY <2>2
  <2>4. p = Append(q, c)
    OBVIOUS
  <2>. HIDE DEF q, p
  <2>. QED
    BY <2>1, <2>2, <2>3, <2>4, AppendProperties
<1>. HIDE DEF p
<1>4. \A i \in 1..Len(p) : i \in 1..Len(s) \/ i = Len(s) + 1 \/ i = Len(s) + 2
  BY <1>3
<1>5. \A i \in 1..Len(p) : FrameOK(p[i], F, L, R) /\ (p[i].op = "swap" => i = Len(p))
  BY <1>1, <1>2, <1>3, <1>4 DEF StackOK, Ready
<1>6. ASSUME NEW i \in 1..Len(p), NEW j \in 1..Len(p), p[i].op = "walk", j < i PROVE p[j].op = "walk"
  BY <1>2, <1>3, <1>6 DEF AllWalk
<1>7. ASSUME NEW i \in 1..Len(p), p[i].op = "walk"
      PROVE  p[i].router \in F \/ (i + 1 \in 1..Len(p) /\ p[i + 1].op = "swap" /\ p[i + 1].router = p[i].router)
  <2>1. CASE i \in 1..Len(s)
    BY <1>3, <1>7, <2>1 DEF Ready
  <2>2. CASE i = Len(s) + 1
    BY <1>2, <1>3, <2>2
  <2>. QED
    BY <1>2, <1>3, <1>4, <1>7, <2>1, <2>2
<1>. QED
  BY <1>3, <1>5, <1>6, <1>7 DEF StackOK, p, b, c

(* A stack is as good as it was when more routers are frozen and only routes  *)
(* of such as are not, or were late, have changed.                            *)
LEMMA StackKept ==
  ASSUME NEW F, NEW L, NEW R, NEW F2, NEW L2, NEW R2, F \subseteq F2, L \subseteq L2,
         \A r \in F \ L2 : R2[r] = R[r], NEW s, StackOK(s, F, L, R)
  PROVE  StackOK(s, F2, L2, R2)
<1>1. \A i \in 1..Len(s) : FrameOK(s[i], F2, L2, R2)
  BY DEF StackOK, FrameOK
<1>. QED
  BY <1>1 DEF StackOK

(* One goroutine has gone on, with a stack t, and whatever its calls would    *)
(* have got to they still will.                                               *)
Leads(s, t) ==
  \A i \in 1..Len(s) : \A r \in Routers : \A q \in Tree!Subs(r) :
    Coming(s[i], r, q) => q \in frozen \/ \E k \in 1..Len(t) : Coming(t[k], r, q)

LEMMA GoingOn ==
  ASSUME TreeInv, NEW w \in Walkers, NEW t, StackOK(t, frozen, late, routes), Leads(stacks[w], t),
         stacks' = [stacks EXCEPT ![w] = t], UNCHANGED <<routes, frozen, registering, late>>
  PROVE  TreeInv'
<1>1. /\ t \in Seq(Frame) /\ stacks \in [Walkers -> Seq(Frame)] /\ stacks'[w] = t
      /\ \A v \in Walkers \ {w} : stacks'[v] = stacks[v]
  BY DEF TreeInv, TreeTypes, StackOK
<1>2. TreeTypes' /\ NoticedInv'
  BY <1>1 DEF TreeInv, TreeTypes, NoticedInv
<1>3. \A v \in Walkers : StackOK(stacks'[v], frozen', late', routes')
  BY <1>1 DEF TreeInv
<1>4. ASSUME NEW r \in frozen \ late, NEW q \in Tree!Subs(r)
      PROVE  q \in frozen \/ \E v \in Walkers : \E i \in 1..Len(stacks'[v]) : Coming(stacks'[v][i], r, q)
  <2>1. r \in Routers /\ q \in Routers
    BY DEF TreeInv, TreeTypes, Tree!Subs
  <2>2. CASE q \in frozen
    BY <2>2
  <2>3. CASE q \notin frozen
    <3>1. PICK v \in Walkers : \E i \in 1..Len(stacks[v]) : Coming(stacks[v][i], r, q)
      BY <2>3 DEF TreeInv, Followed, Expected
    <3>2. PICK i \in 1..Len(stacks[v]) : Coming(stacks[v][i], r, q)
      BY <3>1
    <3>3. CASE v = w
      <4>1. \E k \in 1..Len(t) : Coming(t[k], r, q)
        BY <2>1, <2>3, <3>2, <3>3 DEF Leads
      <4>. QED
        BY <1>1, <4>1
    <3>4. CASE v # w
      BY <1>1, <3>2, <3>4
    <3>. QED
      BY <3>3, <3>4
  <2>. QED
    BY <2>2, <2>3
<1>5. Followed'
  BY <1>4 DEF Followed, Expected, Tree!Subs, Tree!Elements
<1>. QED
  BY <1>2, <1>3, <1>5 DEF TreeInv

LEMMA StartStep ==
  ASSUME TreeInv, NEW w \in Walkers, Tree!Start(w)
  PROVE  TreeInv'
<1>. DEFINE c == Tree!Called("swap", Root)
            e == <<>>
<1>0. Root \in Routers
  BY TreeAssumed DEF Tree!FreezingAssumption
<1>1. StackOK(e, frozen, late, routes) /\ Ready(e, frozen) /\ AllWalk(e)
  <2>1. e \in Seq(Frame) /\ Len(e) = 0
    BY EmptySeq
  <2>. QED
    BY <2>1 DEF StackOK, Ready, AllWalk
<1>2. FrameOK(c, frozen, late, routes) /\ c.op = "swap"
  BY <1>0 DEF FrameOK, Frame, Tree!Called
<1>3. stacks[w] = e /\ Len(e) = 0
  BY DEF Tree!Start
<1>5. ASSUME NEW t PROVE Leads(stacks[w], t)
  BY <1>3 DEF Leads
<1>6. \/ stacks' = [stacks EXCEPT ![w] = Append(e, c)]
      \/ stacks' = [stacks EXCEPT ![w] = Append(Append(e, Tree!Called("walk", Root)), c)]
  BY DEF Tree!Start, Tree!Becomes, Tree!Freeze, Tree!Dispatch
<1>7. UNCHANGED <<routes, frozen, registering, late>>
  BY DEF Tree!Start
<1>. HIDE DEF e
<1>8. StackOK(Append(Append(e, Tree!Called("walk", Root)), c), frozen, late, routes)
  BY <1>0, <1>1, DispatchOK
<1>. HIDE DEF c
<1>9. StackOK(Append(e, c), frozen, late, routes)
  BY <1>1, <1>2, PushOK
<1>. QED
  BY <1>5, <1>6, <1>7, <1>8, <1>9, GoingOn

(* What the calls of a goroutine are, and those below the top *)
LEMMA Standing ==
  ASSUME TreeInv, NEW w \in Walkers, stacks[w] # <<>>,
         Tree!Top(w).op = "swap" => Tree!Top(w).router \in frozen
  PROVE  /\ Len(stacks[w]) \in Nat \ {0} /\ Tree!Top(w) = stacks[w][Len(stacks[w])]
         /\ FrameOK(Tree!Top(w), frozen, late, routes)
         /\ StackOK(Tree!Rest(w), frozen, late, routes) /\ Ready(Tree!Rest(w), frozen)
         /\ Len(Tree!Rest(w)) = Len(stacks[w]) - 1
         /\ \A i \in 1..Len(stacks[w]) - 1 : Tree!Rest(w)[i] = stacks[w][i]
         /\ Tree!Top(w).op = "walk" => Tree!Top(w).router \in frozen /\ AllWalk(Tree!Rest(w))
<1>. DEFINE s == stacks[w]
<1>1. StackOK(s, frozen, late, routes) /\ s \in Seq(Frame)
  BY DEF TreeInv, StackOK
<1>2. /\ Len(s) \in Nat \ {0} /\ Len(SubSeq(s, 1, Len(s) - 1)) = Len(s) - 1
      /\ \A i \in 1..Len(s) - 1 : SubSeq(s, 1, Len(s) - 1)[i] = s[i]
  BY <1>1, Popping
<1>3. Tree!Top(w) = s[Len(s)] /\ Tree!Rest(w) = SubSeq(s, 1, Len(s) - 1)
  BY DEF Tree!Top, Tree!Rest
<1>4. StackOK(Tree!Rest(w), frozen, late, routes) /\ Ready(Tree!Rest(w), frozen)
  BY <1>1, <1>3, PopOK
<1>5. FrameOK(s[Len(s)], frozen, late, routes)
  BY <1>1, <1>2 DEF StackOK
<1>6. ASSUME s[Len(s)].op = "walk"
      PROVE  s[Len(s)].router \in frozen /\ \A i \in 1..Len(s) - 1 : s[i].op = "walk"
  <2>1. Len(s) \in 1..Len(s) /\ Len(s) + 1 \notin 1..Len(s)
    BY <1>2
  <2>2. \A i \in 1..Len(s) - 1 : i \in 1..Len(s) /\ i < Len(s)
    BY <1>2
  <2>. QED
    BY <1>1, <1>6, <2>1, <2>2 DEF StackOK
<1>. HIDE DEF s
<1>7. Tree!Top(w).op = "walk" => Tree!Top(w).router \in frozen /\ AllWalk(Tree!Rest(w))
  BY <1>2, <1>3, <1>6 DEF AllWalk
<1>. QED
  BY <1>2, <1>3, <1>4, <1>5, <1>7 DEF s

(* If the top leads nowhere else, what is put on the rest leads where the     *)
(* stack did.                                                                 *)
LEMMA RestLeads ==
  ASSUME TreeInv, NEW w \in Walkers, stacks[w] # <<>>,
         Tree!Top(w).op = "swap" => Tree!Top(w).router \in frozen,
         NEW t, Len(t) \in Nat, Len(t) >= Len(stacks[w]) - 1,
         \A i \in 1..Len(stacks[w]) - 1 : t[i] = stacks[w][i],
         \A r \in Routers : \A q \in Tree!Subs(r) : Coming(Tree!Top(w), r, q) =>
           q \in frozen \/ \E k \in 1..Len(t) : Coming(t[k], r, q)
  PROVE  Leads(stacks[w], t)
<1>1. Len(stacks[w]) \in Nat \ {0} /\ Tree!Top(w) = stacks[w][Len(stacks[w])]
  BY Standing
<1>2. SUFFICES ASSUME NEW i \in 1..Len(stacks[w]), NEW r \in Routers, NEW q \in Tree!Subs(r),
                      Coming(stacks[w][i], r, q)
               PROVE  q \in frozen \/ \E k \in 1..Len(t) : Coming(t[k], r, q)
  BY DEF Leads
<1>3. CASE i = Len(stacks[w])
  BY <1>1, <1>2, <1>3
<1>4. CASE i # Len(stacks[w])
  <2>1. i \in 1..Len(stacks[w]) - 1 /\ i \in 1..Len(t)
    BY <1>1, <1>4
  <2>. QED
    BY <1>2, <2>1
<1>. QED
  BY <1>3, <1>4

(* A flag that was set already, the end of a list, a middleware that ends it  *)
LEMMA PopStep ==
  ASSUME TreeInv, NEW w \in Walkers, stacks[w] # <<>>, stacks' = [stacks EXCEPT ![w] = Tree!Rest(w)],
         UNCHANGED <<routes, frozen, registering, late>>,
         Tree!Top(w).op = "swap" => Tree!Top(w).router \in frozen,
         Tree!Top(w).op = "freeze" => Tree!Top(w).reading /\ Tree!Top(w).at > Len(Tree!Top(w).list)
  PROVE  TreeInv'
<1>. DEFINE t == Tree!Rest(w)
<1>1. /\ FrameOK(Tree!Top(w), frozen, late, routes) /\ StackOK(t, frozen, late, routes)
      /\ Len(t) = Len(stacks[w]) - 1 /\ Len(t) \in Nat
      /\ \A i \in 1..Len(stacks[w]) - 1 : t[i] = stacks[w][i]
  BY Standing
<1>2. /\ Tree!Top(w).at \in Nat /\ Len(Tree!Top(w).list) \in Nat
  BY <1>1, LenProperties DEF FrameOK, Frame
<1>3. \A r \in Routers : \A q \in Tree!Subs(r) : Coming(Tree!Top(w), r, q) => q \in frozen
  BY <1>2 DEF Coming
<1>. HIDE DEF t
<1>4. Leads(stacks[w], t)
  BY <1>1, <1>3, RestLeads
<1>. QED
  BY <1>1, <1>4, GoingOn DEF t

LEMMA SettleStep ==
  ASSUME TreeInv, NEW w \in Walkers, Tree!Settle(w)
  PROVE  TreeInv'
<1>. DEFINE t == <<>>
<1>1. stacks[w] # <<>> /\ Tree!Top(w).op = "walk" /\ stacks' = [stacks EXCEPT ![w] = t]
      /\ UNCHANGED <<routes, frozen, registering, late>>
  BY DEF Tree!Settle, Tree!In, Tree!Becomes
<1>2. StackOK(t, frozen, late, routes)
  <2>1. t \in Seq(Frame) /\ Len(t) = 0
    BY EmptySeq
  <2>. QED
    BY <2>1 DEF StackOK
<1>3. /\ AllWalk(Tree!Rest(w)) /\ Len(stacks[w]) \in Nat \ {0}
      /\ Tree!Top(w) = stacks[w][Len(stacks[w])] /\ Len(Tree!Rest(w)) = Len(stacks[w]) - 1
      /\ \A i \in 1..Len(stacks[w]) - 1 : Tree!Rest(w)[i] = stacks[w][i]
  BY <1>1, Standing
<1>4. ASSUME NEW i \in 1..Len(stacks[w]) PROVE stacks[w][i].op = "walk"
  <2>1. CASE i = Len(stacks[w])
    BY <1>1, <1>3, <2>1
  <2>2. CASE i # Len(stacks[w])
    <3>1. i \in 1..Len(stacks[w]) - 1
      BY <1>3, <2>2
    <3>. QED
      BY <1>3, <3>1 DEF AllWalk
  <2>. QED
    BY <2>1, <2>2
<1>5. Leads(stacks[w], t)
  BY <1>4 DEF Leads, Coming
<1>. HIDE DEF t
<1>. QED
  BY <1>1, <1>2, <1>5, GoingOn

(* The list is read: what it has is still to come. *)
LEMMA ReadRoutesStep ==
  ASSUME TreeInv, NEW w \in Walkers, Tree!Read(w)
  PROVE  TreeInv'
<1>. DEFINE top == Tree!Top(w)
            c   == [top EXCEPT !.reading = TRUE, !.list = routes[top.router]]
            t   == Append(Tree!Rest(w), c)
<1>1. /\ stacks[w] # <<>> /\ top.op \in {"freeze", "walk"} /\ ~top.reading
      /\ stacks' = [stacks EXCEPT ![w] = t] /\ UNCHANGED <<routes, frozen, registering, late>>
  BY DEF Tree!Read, Tree!In, Tree!Becomes
<1>2. /\ FrameOK(top, frozen, late, routes)
      /\ StackOK(Tree!Rest(w), frozen, late, routes) /\ Ready(Tree!Rest(w), frozen)
      /\ Len(Tree!Rest(w)) = Len(stacks[w]) - 1 /\ Len(stacks[w]) \in Nat \ {0}
      /\ \A i \in 1..Len(stacks[w]) - 1 : Tree!Rest(w)[i] = stacks[w][i]
      /\ top.op = "walk" => top.router \in frozen /\ AllWalk(Tree!Rest(w))
  BY <1>1, Standing
<1>3. top \in Frame /\ top.at = 1 /\ top.router \in frozen /\ routes[top.router] \in Seq(Routers \cup Leaves)
  BY <1>1, <1>2 DEF FrameOK, Frame, TreeInv, TreeTypes
<1>4. /\ c \in Frame /\ c.op = top.op /\ c.router = top.router /\ c.reading
      /\ c.list = routes[top.router] /\ c.at = 1
  BY <1>3 DEF Frame
<1>. HIDE DEF c, top
<1>5. FrameOK(c, frozen, late, routes)
  BY <1>1, <1>3, <1>4 DEF FrameOK
<1>6. StackOK(t, frozen, late, routes)
  BY <1>2, <1>4, <1>5, PushOK
<1>7. /\ Len(t) = Len(stacks[w]) /\ t[Len(t)] = c /\ \A i \in 1..Len(stacks[w]) - 1 : t[i] = stacks[w][i]
  <2>1. Tree!Rest(w) \in Seq(Frame)
    BY <1>2 DEF StackOK
  <2>. QED
    BY <1>2, <1>4, <2>1, AppendProperties
<1>. HIDE DEF t
<1>8. ASSUME NEW r \in Routers, NEW q \in Tree!Subs(r), Coming(top, r, q) PROVE Coming(c, r, q)
  <2>1. c.op = "freeze" /\ c.router = r /\ c.list = routes[r] /\ c.at = 1
    BY <1>1, <1>4, <1>8 DEF Coming
  <2>2. PICK j \in 1..Len(routes[r]) : routes[r][j] = q
    BY DEF Tree!Subs, Tree!Elements
  <2>. QED
    BY <2>1, <2>2 DEF Coming
<1>9. Leads(stacks[w], t)
  <2>1. Len(t) \in 1..Len(t)
    BY <1>2, <1>7
  <2>2. \A r \in Routers : \A q \in Tree!Subs(r) : Coming(Tree!Top(w), r, q) =>
           q \in frozen \/ \E k \in 1..Len(t) : Coming(t[k], r, q)
    BY <1>7, <1>8, <2>1 DEF top
  <2>3. Tree!Top(w).op = "swap" => Tree!Top(w).router \in frozen
    BY <1>1 DEF top
  <2>. QED
    BY <1>1, <1>2, <1>7, <2>2, <2>3, RestLeads
<1>. QED
  BY <1>1, <1>6, <1>9, GoingOn DEF top

LEMMA NextRouteStep ==
  ASSUME TreeInv, NEW w \in Walkers, Tree!NextRoute(w)
  PROVE  TreeInv'
<1>. DEFINE top == Tree!Top(w)
            c   == [top EXCEPT !.at = @ + 1]
            x   == Tree!Route(w)
            t   == Tree!Onward(w)
            b   == Tree!Called("walk", x)
            d   == Tree!Called("swap", x)
<1>1. /\ stacks[w] # <<>> /\ top.op \in {"freeze", "walk"} /\ top.reading /\ top.at <= Len(top.list)
      /\ UNCHANGED <<routes, frozen, registering, late>>
  BY DEF Tree!NextRoute, Tree!AtRoute, Tree!In
<1>2. /\ FrameOK(top, frozen, late, routes)
      /\ StackOK(Tree!Rest(w), frozen, late, routes) /\ Ready(Tree!Rest(w), frozen)
      /\ Len(Tree!Rest(w)) = Len(stacks[w]) - 1 /\ Len(stacks[w]) \in Nat \ {0}
      /\ \A i \in 1..Len(stacks[w]) - 1 : Tree!Rest(w)[i] = stacks[w][i]
      /\ top.op = "walk" => top.router \in frozen /\ AllWalk(Tree!Rest(w))
  BY <1>1, Standing
<1>3. /\ top \in Frame /\ top.at \in Nat \ {0} /\ top.list \in Seq(Routers \cup Leaves)
      /\ Len(top.list) \in Nat
  BY <1>2, LenProperties DEF FrameOK, Frame
<1>4. /\ c \in Frame /\ c.op = top.op /\ c.router = top.router /\ c.reading
      /\ c.list = top.list /\ c.at = top.at + 1
  BY <1>1, <1>3 DEF Frame
<1>5. x = top.list[top.at] /\ x \in Routers \cup Leaves
  BY <1>1, <1>3, ElementOfSeq DEF Tree!Route
<1>6. t = Append(Tree!Rest(w), c)
  BY DEF Tree!Onward
<1>7. FrameOK(c, frozen, late, routes)
  BY <1>1, <1>2, <1>4 DEF FrameOK
<1>8. \/ x \in Leaves /\ stacks' = [stacks EXCEPT ![w] = t]
      \/ x \in Routers /\ top.op = "freeze" /\ stacks' = [stacks EXCEPT ![w] = Append(t, d)]
      \/ x \in Routers /\ top.op = "walk" /\ stacks' = [stacks EXCEPT ![w] = Append(Append(t, b), d)]
  BY DEF Tree!NextRoute, Tree!Becomes, Tree!Freeze, Tree!Dispatch
<1>9. d.op = "swap" /\ d.router = x /\ (x \in Routers => FrameOK(d, frozen, late, routes))
  BY DEF FrameOK, Frame, Tree!Called
<1>. HIDE DEF c, x, t
<1>10. /\ StackOK(t, frozen, late, routes) /\ Ready(t, frozen)
       /\ top.op = "walk" => AllWalk(t)
  BY <1>1, <1>2, <1>4, <1>6, <1>7, PushOK
<1>11. /\ Len(t) = Len(stacks[w]) /\ Len(t) \in Nat \ {0} /\ t[Len(t)] = c /\ t \in Seq(Frame)
       /\ \A i \in 1..Len(stacks[w]) - 1 : t[i] = stacks[w][i]
  <2>1. Tree!Rest(w) \in Seq(Frame)
    BY <1>2 DEF StackOK
  <2>. QED
    BY <1>2, <1>4, <1>6, <2>1, AppendProperties
<1>12. ASSUME NEW r \in Routers, NEW q \in Tree!Subs(r), Coming(top, r, q)
       PROVE  Coming(c, r, q) \/ (top.op = "freeze" /\ q = x /\ x \in Routers)
  <2>1. top.op = "freeze" /\ top.router = r
    BY <1>1, <1>12 DEF Coming
  <2>2. PICK j \in 1..Len(top.list) : j >= top.at /\ top.list[j] = q
    BY <1>1, <1>12 DEF Coming
  <2>3. CASE j = top.at
    BY <1>5, <2>1, <2>2, <2>3 DEF Tree!Subs
  <2>4. CASE j # top.at
    <3>1. j >= c.at /\ j \in 1..Len(c.list) /\ c.list[j] = q
      BY <1>3, <1>4, <2>2, <2>4
    <3>. QED
      BY <1>4, <2>1, <3>1 DEF Coming
  <2>. QED
    BY <2>3, <2>4
<1>13. Tree!Top(w).op = "swap" => Tree!Top(w).router \in frozen
  BY <1>1
<1>14. ASSUME NEW u, Len(u) \in Nat, Len(u) >= Len(t), \A i \in 1..Len(t) : u[i] = t[i],
              top.op = "freeze" /\ x \in Routers => \E k \in 1..Len(u) : u[k] = d
       PROVE  Leads(stacks[w], u)
  <2>1. \A i \in 1..Len(stacks[w]) - 1 : u[i] = stacks[w][i]
    BY <1>11, <1>14
  <2>2. ASSUME NEW r \in Routers, NEW q \in Tree!Subs(r), Coming(Tree!Top(w), r, q)
        PROVE  \E k \in 1..Len(u) : Coming(u[k], r, q)
    <3>1. CASE Coming(c, r, q)
      <4>1. Len(t) \in 1..Len(u) /\ u[Len(t)] = c
        BY <1>11, <1>14
      <4>. QED
        BY <3>1, <4>1
    <3>2. CASE top.op = "freeze" /\ q = x /\ x \in Routers
      <4>1. PICK k \in 1..Len(u) : u[k] = d
        BY <1>14, <3>2
      <4>2. Coming(d, r, q)
        BY <1>9, <3>2 DEF Coming
      <4>. QED
        BY <4>1, <4>2
    <3>. QED
      BY <1>12, <2>2, <3>1, <3>2
  <2>3. Len(u) >= Len(stacks[w]) - 1
    BY <1>11, <1>14
  <2>. QED
    BY <1>1, <1>13, <1>14, <2>1, <2>2, <2>3, RestLeads
<1>. HIDE DEF d, b, top
<1>15. CASE x \in Leaves /\ stacks' = [stacks EXCEPT ![w] = t]
  <2>1. x \notin Routers
    BY <1>15, TreeAssumed DEF Tree!FreezingAssumption
  <2>2. Leads(stacks[w], t)
    BY <1>11, <1>14, <2>1
  <2>. QED
    BY <1>1, <1>10, <1>15, <2>2, GoingOn
<1>16. CASE x \in Routers /\ top.op = "freeze" /\ stacks' = [stacks EXCEPT ![w] = Append(t, d)]
  <2>. DEFINE u == Append(t, d)
  <2>1. StackOK(u, frozen, late, routes)
    BY <1>9, <1>10, <1>16, PushOK
  <2>2. Len(u) = Len(t) + 1 /\ u[Len(t) + 1] = d /\ \A i \in 1..Len(t) : u[i] = t[i]
    BY <1>9, <1>11, <1>16, AppendProperties DEF FrameOK
  <2>3. stacks' = [stacks EXCEPT ![w] = u]
    BY <1>16
  <2>. HIDE DEF u
  <2>4. Len(u) \in Nat /\ Len(u) >= Len(t) /\ Len(t) + 1 \in 1..Len(u)
    BY <1>11, <2>2
  <2>5. Leads(stacks[w], u)
    BY <1>14, <2>2, <2>4
  <2>. QED
    BY <1>1, <2>1, <2>3, <2>5, GoingOn
<1>17. CASE x \in Routers /\ top.op = "walk" /\ stacks' = [stacks EXCEPT ![w] = Append(Append(t, b), d)]
  <2>. DEFINE u == Append(Append(t, b), d)
  <2>1. StackOK(u, frozen, late, routes)
    BY <1>10, <1>17, DispatchOK DEF b, d
  <2>2. Len(u) = Len(t) + 2 /\ \A i \in 1..Len(t) : u[i] = t[i]
    <3>1. b \in Frame /\ d \in Frame
      BY <1>17 DEF b, d, Tree!Called, Frame
    <3>. DEFINE v == Append(t, b)
    <3>2. v \in Seq(Frame) /\ Len(v) = Len(t) + 1 /\ \A i \in 1..Len(t) : v[i] = t[i]
      BY <1>11, <3>1, AppendProperties
    <3>3. u = Append(v, d)
      OBVIOUS
    <3>. HIDE DEF v, u
    <3>. QED
      BY <1>11, <3>1, <3>2, <3>3, AppendProperties
  <2>3. stacks' = [stacks EXCEPT ![w] = u]
    BY <1>17
  <2>. HIDE DEF u
  <2>4. Len(u) \in Nat /\ Len(u) >= Len(t)
    BY <1>11, <2>2
  <2>5. Leads(stacks[w], u)
    BY <1>14, <1>17, <2>2, <2>4
  <2>. QED
    BY <1>1, <2>1, <2>3, <2>5, GoingOn
<1>. QED
  BY <1>8, <1>15, <1>16, <1>17

(* The flag is set: the routes of the router are to be read next. *)
LEMMA SwapStep ==
  ASSUME TreeInv, NEW w \in Walkers, Tree!CompareAndSwap(w)
  PROVE  TreeInv'
<1>. DEFINE top == Tree!Top(w)
            r   == top.router
            c   == Tree!Called("freeze", r)
            t   == Append(Tree!Rest(w), c)
<1>1. stacks[w] # <<>> /\ top.op = "swap" /\ UNCHANGED <<routes, registering>>
  BY DEF Tree!CompareAndSwap, Tree!In
<1>2. CASE r \in frozen
  <2>1. stacks' = [stacks EXCEPT ![w] = Tree!Rest(w)] /\ UNCHANGED <<frozen, late>>
    BY <1>2 DEF Tree!CompareAndSwap, Tree!Becomes
  <2>. QED
    BY <1>1, <1>2, <2>1, PopStep
<1>3. CASE r \notin frozen
  <2>1. /\ stacks' = [stacks EXCEPT ![w] = t] /\ frozen' = frozen \cup {r}
        /\ late' = late \cup {q \in {r} : \E g \in registering : g.router = q}
    BY <1>3 DEF Tree!CompareAndSwap, Tree!Becomes
  <2>. DEFINE s == stacks[w]
              p == SubSeq(s, 1, Len(s) - 1)
  <2>2. s \in Seq(Frame) /\ StackOK(s, frozen, late, routes)
    BY DEF TreeInv, StackOK
  <2>3. /\ Len(s) \in Nat \ {0} /\ p \in Seq(Frame) /\ Len(p) = Len(s) - 1
        /\ \A i \in 1..Len(s) - 1 : p[i] = s[i]
    BY <1>1, <2>2, Popping
  <2>4. top = s[Len(s)] /\ Tree!Rest(w) = p
    BY DEF Tree!Top, Tree!Rest
  <2>5. r \in Routers /\ top \in Frame
    <3>1. s[Len(s)] \in Frame
      BY <1>1, <2>2, Popping
    <3>. QED
      BY <2>4, <3>1 DEF Frame
  <2>6. ASSUME NEW v \in Walkers PROVE StackOK(stacks[v], frozen', late', routes')
    <3>1. frozen \subseteq frozen' /\ late \subseteq late' /\ \A q \in frozen \ late' : routes'[q] = routes[q]
      BY <1>1, <2>1
    <3>. QED
      BY <3>1, StackKept DEF TreeInv
  <2>. HIDE DEF p
  <2>7. StackOK(p, frozen', late', routes') /\ Ready(p, frozen')
    BY <1>1, <2>1, <2>4, <2>6, PopOK DEF p
  <2>8. FrameOK(c, frozen', late', routes') /\ c.op = "freeze" /\ c.router = r /\ ~c.reading /\ c \in Frame
    BY <2>1, <2>5 DEF FrameOK, Frame, Tree!Called
  <2>. HIDE DEF c
  <2>9. StackOK(t, frozen', late', routes')
    BY <2>4, <2>7, <2>8, PushOK
  <2>10. /\ Len(t) = Len(s) /\ t[Len(t)] = c /\ t \in Seq(Frame)
         /\ \A i \in 1..Len(s) - 1 : t[i] = s[i]
    BY <2>3, <2>4, <2>8, AppendProperties
  <2>11. stacks'[w] = t /\ \A v \in Walkers \ {w} : stacks'[v] = stacks[v]
    BY <2>1 DEF TreeInv, TreeTypes
  <2>. HIDE DEF t, top
  <2>12. TreeTypes'
    BY <1>1, <2>1, <2>5, <2>10 DEF TreeInv, TreeTypes
  <2>13. NoticedInv'
    BY <1>1, <2>1 DEF TreeInv, NoticedInv
  <2>14. \A v \in Walkers : StackOK(stacks'[v], frozen', late', routes')
    BY <2>6, <2>9, <2>11
  <2>15. ASSUME NEW k \in frozen' \ late', NEW q \in Tree!Subs(k)
         PROVE  q \in frozen' \/ \E v \in Walkers : \E i \in 1..Len(stacks'[v]) : Coming(stacks'[v][i], k, q)
    <3>1. CASE k = r
      <4>1. Coming(c, k, q)
        BY <2>8, <3>1 DEF Coming
      <4>2. Len(t) \in 1..Len(t)
        BY <2>3, <2>10
      <4>. QED
        BY <2>10, <2>11, <4>1, <4>2
    <3>2. CASE k # r /\ q \notin frozen'
      <4>1. k \in frozen \ late /\ q \notin frozen
        BY <2>1, <3>2
      <4>2. PICK v \in Walkers : \E i \in 1..Len(stacks[v]) : Coming(stacks[v][i], k, q)
        BY <4>1 DEF TreeInv, Followed, Expected
      <4>3. PICK i \in 1..Len(stacks[v]) : Coming(stacks[v][i], k, q)
        BY <4>2
      <4>4. CASE v # w
        BY <2>11, <4>3, <4>4
      <4>5. CASE v = w /\ i = Len(s)
        <5>1. q = r
          BY <1>1, <2>4, <4>3, <4>5 DEF Coming
        <5>. QED
          BY <2>1, <5>1
      <4>6. CASE v = w /\ i # Len(s)
        <5>1. i \in 1..Len(s) - 1 /\ i \in 1..Len(t)
          BY <2>3, <2>10, <4>6
        <5>. QED
          BY <2>10, <2>11, <4>3, <4>6, <5>1
      <4>. QED
        BY <4>4, <4>5, <4>6
    <3>. QED
      BY <3>1, <3>2
  <2>16. Followed'
    BY <1>1, <2>15 DEF Followed, Expected, Tree!Subs, Tree!Elements
  <2>. QED
    BY <2>12, <2>13, <2>14, <2>16 DEF TreeInv
<1>. QED
  BY <1>2, <1>3

LEMMA CheckStep ==
  ASSUME TreeInv, NEW r \in Routers, NEW x \in Routers \cup Leaves, Tree!Check(r, x)
  PROVE  TreeInv'
BY DEF Tree!Check, TreeInv, TreeTypes, NoticedInv, Followed, Expected, Tree!Subs, Tree!Elements

(* What is appended late is appended to a router that is not frozen or whose  *)
(* freezing has been noticed.                                                 *)
LEMMA RegisterStep ==
  ASSUME TreeInv, Tree!Register
  PROVE  TreeInv'
<1>1. PICK g \in registering :
        routes' = [routes EXCEPT ![g.router] = Append(@, g.route)] /\ registering' = {}
  BY DEF Tree!Register
<1>2. UNCHANGED <<frozen, stacks, late>>
  BY DEF Tree!Register
<1>3. /\ g.router \in Routers /\ g.route \in Routers \cup Leaves
      /\ routes \in [Routers -> Seq(Routers \cup Leaves)]
  BY DEF TreeInv, TreeTypes
<1>4. \A q \in frozen \ late : routes'[q] = routes[q]
  BY <1>1, <1>3 DEF TreeInv, NoticedInv, TreeTypes
<1>5. TreeTypes'
  <2>1. Append(routes[g.router], g.route) \in Seq(Routers \cup Leaves)
    BY <1>3, AppendProperties
  <2>. QED
    BY <1>1, <1>2, <1>3, <2>1 DEF TreeInv, TreeTypes
<1>6. NoticedInv'
  BY <1>1 DEF NoticedInv
<1>7. ASSUME NEW w \in Walkers PROVE StackOK(stacks[w], frozen, late, routes')
  BY <1>4, StackKept DEF TreeInv
<1>8. \A r \in frozen \ late : Tree!Subs(r)' = Tree!Subs(r)
  BY <1>4 DEF Tree!Subs, Tree!Elements
<1>9. Followed'
  BY <1>2, <1>8 DEF TreeInv, Followed, Expected
<1>. QED
  BY <1>2, <1>5, <1>6, <1>7, <1>9 DEF TreeInv

LEMMA TreeInit == Tree!Init => TreeInv
<1>. SUFFICES ASSUME Tree!Init PROVE TreeInv
  OBVIOUS
<1>. DEFINE e == <<>>
<1>1. /\ e \in Seq(Frame) /\ e \in Seq(Routers \cup Leaves) /\ Len(e) = 0
  BY EmptySeq
<1>2. /\ routes = [r \in Routers |-> e] /\ frozen = {} /\ registering = {} /\ late = {}
      /\ stacks = [w \in Walkers |-> e]
  BY DEF Tree!Init
<1>. HIDE DEF e
<1>3. StackOK(e, frozen, late, routes)
  BY <1>1 DEF StackOK
<1>. QED
  BY <1>1, <1>2, <1>3 DEF TreeInv, TreeTypes, NoticedInv, Followed

LEMMA TreeStep == ASSUME TreeInv, [Tree!Next]_(Tree!vars) PROVE TreeInv'
<1>1. CASE UNCHANGED Tree!vars
  BY <1>1 DEF Tree!vars, TreeInv, TreeTypes, NoticedInv, Followed, Expected, Tree!Subs, Tree!Elements
<1>2. ASSUME NEW r \in Routers, NEW x \in Routers \cup Leaves, Tree!Check(r, x) PROVE TreeInv'
  BY <1>2, CheckStep
<1>3. CASE Tree!Register
  BY <1>3, RegisterStep
<1>4. ASSUME NEW w \in Walkers,
             \/ Tree!Start(w) \/ Tree!CompareAndSwap(w) \/ Tree!Read(w)
             \/ Tree!NextRoute(w) \/ Tree!Return(w) \/ Tree!Settle(w)
      PROVE  TreeInv'
  <2>1. CASE Tree!Return(w)
    BY <2>1, PopStep DEF Tree!Return, Tree!In, Tree!Becomes
  <2>. QED
    BY <1>4, <2>1, StartStep, SwapStep, ReadRoutesStep, NextRouteStep, SettleStep
<1>. QED
  BY <1>1, <1>2, <1>3, <1>4 DEF Tree!Next

(* What freeze is for (comment on Router.freeze), for any tree of routers,    *)
(* any number of goroutines and any registration that comes too late: what    *)
(* dispatch reads of a router does not change, and once nobody is freezing,   *)
(* everything below a frozen router is frozen - but for routers that a call   *)
(* was registering on when they froze.                                        *)
THEOREM Frozen == Tree!Spec => []FrozenForGood
<1>1. TreeInv => FrozenForGood
  <2>. SUFFICES ASSUME TreeInv PROVE Tree!FrozenForGood
    BY DEF FrozenForGood
  <2>1. ASSUME NEW w \in Walkers, NEW c \in Tree!Calls(w), c.op = "walk", c.reading
        PROVE  c.router \in frozen /\ (c.router \notin late => c.list = routes[c.router])
    <3>1. PICK i \in 1..Len(stacks[w]) : c = stacks[w][i]
      BY DEF Tree!Calls, Tree!Elements
    <3>. QED
      BY <2>1, <3>1 DEF TreeInv, StackOK, FrameOK
  <2>2. ASSUME \A w \in Walkers : \A c \in Tree!Calls(w) : c.op = "walk",
               NEW r \in frozen \ late, NEW q \in Tree!Subs(r)
        PROVE  q \in frozen
    <3>1. ASSUME NEW w \in Walkers, NEW i \in 1..Len(stacks[w]) PROVE stacks[w][i].op = "walk"
      BY <2>2 DEF Tree!Calls, Tree!Elements
    <3>2. ~Expected(r, q)
      BY <3>1 DEF Expected, Coming
    <3>. QED
      BY <3>2 DEF TreeInv, Followed
  <2>. QED
    BY <2>1, <2>2 DEF Tree!FrozenForGood
<1>. QED
  BY <1>1, TreeInit, TreeStep, PTL DEF Tree!Spec

-----------------------------------------------------------------------------
(* The in-memory storage *)

(* What Promise sees of the entries and the heap *)
Conv ==
  [k \in Keys |->
     IF stored[k] = Nil THEN [state |-> NoState, data |-> [f \in Fields |-> Absent]]
     ELSE [state |-> stored[k].state, data |-> heap[stored[k].data]]]

(* The maps that can be stored *)
Storable == {d \in Memory!Data : Memory!Promise!Marshalable(d)}

LEMMA EmptyIsData ==
  ASSUME Memory!StorageAssumption
  PROVE  Memory!Promise!EmptyMap \in Storable /\ NoState \in States
BY DEF Memory!StorageAssumption, Memory!Promise!EmptyMap, Memory!Promise!Marshalable,
       Memory!Data, Memory!Promise!Data, Storable

LEMMA EntryIsNotNil ==
  ASSUME Memory!StorageAssumption, NEW e \in Memory!Entries
  PROVE  e # Nil
BY DEF Memory!StorageAssumption, Memory!Entries

(* The map a step allocates is nobody's. *)
LEMMA NewIsFresh ==
  ASSUME Memory!StorageAssumption, Memory!MoreRefs
  PROVE  Memory!New \in Refs /\ Memory!New \notin Memory!Live
BY DEF Memory!MoreRefs, Memory!New, Memory!Fresh

(* Whatever somebody refers to after a step is what the step wrote there. *)
LEMMA HeapSeen ==
  ASSUME Memory!StorageAssumption, NEW h \in [Refs -> Memory!Data], Memory!Heap(h)
  PROVE  /\ heap' \in [Refs -> Memory!Data]
         /\ \A k \in Keys : stored'[k] # Nil /\ stored'[k].data \in Refs =>
              heap'[stored'[k].data] = h[stored'[k].data]
<1>1. heap' \in [Refs -> Memory!Data]
  BY EmptyIsData DEF Memory!Heap, Storable
<1>2. ASSUME NEW k \in Keys, stored'[k] # Nil PROVE stored'[k].data \in Memory!Live'
  BY <1>2 DEF Memory!Live, Memory!Stored
<1>. QED
  BY <1>1, <1>2 DEF Memory!Heap

(* A step that keeps what is stored, or drops all of a conversation *)
LEMMA KeepStep ==
  ASSUME Memory!StorageAssumption, Memory!StoreInv,
         stored' \in [Keys -> Memory!Entries \cup {Nil}], heap' \in [Refs -> Memory!Data],
         held' \in [MapHandlers -> Refs \cup {Nil}], swept' \in BOOLEAN,
         unused' \in [Keys -> 0..MemoryTTL + 1],
         \A k \in Keys : stored'[k] # Nil =>
           /\ Memory!Stored(k)
           /\ stored'[k].state = stored[k].state /\ stored'[k].data = stored[k].data
           /\ heap'[stored[k].data] = heap[stored[k].data]
           /\ \A h \in MapHandlers : held'[h] # stored[k].data
           /\ stored'[k].age = unused'[k]
  PROVE  /\ Memory!StoreInv'
         /\ Conv' = [k \in Keys |-> IF stored'[k] = Nil THEN Memory!Promise!NoConversation
                                    ELSE Conv[k]]
<1>1. Memory!TypeOK'
  BY DEF Memory!StoreInv, Memory!TypeOK, Memory!Stored
<1>2. Memory!NotShared'
  BY DEF Memory!StoreInv, Memory!NotShared, Memory!Stored
<1>3. Memory!ClockIsLastUse'
  BY DEF Memory!ClockIsLastUse, Memory!Stored
<1>4. Conv' = [k \in Keys |-> IF stored'[k] = Nil THEN Memory!Promise!NoConversation ELSE Conv[k]]
  BY DEF Conv, Memory!Promise!NoConversation, Memory!Promise!EmptyMap, Memory!Stored
<1>. QED
  BY <1>1, <1>2, <1>3, <1>4 DEF Memory!StoreInv

(* The entry an operation works on, made anew where there is none *)
LEMMA GetIs ==
  ASSUME Memory!StoreInv, NEW k \in Keys, NEW r \in Refs
  PROVE  /\ Memory!Get(k, r) = [state |-> Conv[k].state,
                         data  |-> IF Memory!Stored(k) THEN stored[k].data ELSE r, age |-> 0]
         /\ \A s : [Memory!Get(k, r) EXCEPT !.state = s] =
              [state |-> s, data |-> IF Memory!Stored(k) THEN stored[k].data ELSE r, age |-> 0]
         /\ \A x : [Memory!Get(k, r) EXCEPT !.data = x] =
              [state |-> Conv[k].state, data |-> x, age |-> 0]
<1>1. CASE Memory!Stored(k)
  <2>1. stored[k] \in Memory!Entries /\ Conv[k].state = stored[k].state
    BY <1>1 DEF Memory!StoreInv, Memory!TypeOK, Memory!Stored, Conv
  <2>2. Memory!Get(k, r) = [state |-> stored[k].state, data |-> stored[k].data, age |-> 0]
    BY <1>1, <2>1 DEF Memory!Get, Memory!Entries
  <2>. QED
    BY <1>1, <2>1, <2>2
<1>2. CASE ~Memory!Stored(k)
  <2>1. Conv[k].state = NoState
    BY <1>2 DEF Memory!Stored, Conv
  <2>2. Memory!Get(k, r) = [state |-> NoState, data |-> r, age |-> 0]
    BY <1>2 DEF Memory!Get
  <2>. QED
    BY <1>2, <2>1, <2>2
<1>. QED
  BY <1>1, <1>2

(* A conversation as the operations read it *)
LEMMA ConvIs ==
  ASSUME Memory!StorageAssumption, Memory!StoreInv, NEW k \in Keys
  PROVE  /\ \E s \in States : Conv[k] = [state |-> s, data |-> Memory!StoredData(k)]
         /\ Conv[k].state = IF Memory!Stored(k) THEN stored[k].state ELSE NoState
         /\ Memory!StoredData(k) \in Storable
<1>1. CASE Memory!Stored(k)
  <2>1. stored[k] \in Memory!Entries /\ heap \in [Refs -> Memory!Data]
    BY <1>1 DEF Memory!StoreInv, Memory!TypeOK, Memory!Stored
  <2>2. Memory!Promise!Marshalable(heap[stored[k].data])
    BY <1>1 DEF Memory!StoreInv, Memory!TypeOK, Memory!Stored
  <2>. QED
    BY <1>1, <2>1, <2>2 DEF Memory!Stored, Memory!StoredData, Conv, Memory!Entries, Storable
<1>2. CASE ~Memory!Stored(k)
  BY <1>2, EmptyIsData DEF Memory!Stored, Memory!StoredData, Conv, Memory!Promise!EmptyMap
<1>. QED
  BY <1>1, <1>2

(* A step that writes one entry, whose map is the one it had, or a new one,  *)
(* and that gives the handlers nothing but new maps                          *)
LEMMA WriteStep ==
  ASSUME Memory!StorageAssumption, Memory!StoreInv, NEW k \in Keys,
         stored' \in [Keys -> Memory!Entries \cup {Nil}], stored'[k] \in Memory!Entries,
         \A j \in Keys \ {k} : stored'[j] = stored[j],
         \/ Memory!Stored(k) /\ stored'[k].data = stored[k].data
         \/ stored'[k].data \notin Memory!Live,
         stored'[k].age = 0, unused' = [unused EXCEPT ![k] = 0], swept' = swept,
         heap' \in [Refs -> Memory!Data], heap'[stored'[k].data] \in Storable,
         \A x \in Refs : x \in Memory!Live /\ x \in Memory!Live' => heap'[x] = heap[x],
         held' \in [MapHandlers -> Refs \cup {Nil}],
         \A g \in MapHandlers :
           held'[g] = held[g] \/ held'[g] \in Refs \ (Memory!Live \cup {stored'[k].data})
  PROVE  Memory!StoreInv' /\ \A j \in Keys \ {k} : Conv'[j] = Conv[j]
<1>1. /\ stored \in [Keys -> Memory!Entries \cup {Nil}] /\ MemoryTTL \in Nat
      /\ stored'[k] # Nil
  BY EntryIsNotNil DEF Memory!StoreInv, Memory!TypeOK, Memory!StorageAssumption
<1>2. \A j \in Keys : Memory!Stored(j) =>
        /\ stored[j].data \in Memory!Live /\ stored[j].data \in Refs
        /\ \A g \in MapHandlers : held[g] # stored[j].data
        /\ \A i \in Keys \ {j} : Memory!Stored(i) => stored[i].data # stored[j].data
  BY <1>1 DEF Memory!StoreInv, Memory!NotShared, Memory!Live, Memory!Stored, Memory!Entries
<1>3. ASSUME NEW j \in Keys \ {k}, Memory!Stored(j)
      PROVE  /\ heap'[stored[j].data] = heap[stored[j].data]
             /\ stored[j].data # stored'[k].data
             /\ \A g \in MapHandlers : held'[g] # stored[j].data
  <2>1. stored[j].data \in Memory!Live'
    BY <1>3 DEF Memory!Live, Memory!Stored
  <2>. QED
    BY <1>2, <1>3, <2>1
<1>4. \A g \in MapHandlers : held'[g] # stored'[k].data
  <2>1. \A g \in MapHandlers : held[g] \in Memory!Live
    BY DEF Memory!Live
  <2>. QED
    BY <1>2, <2>1
<1>5. Memory!TypeOK'
  <2>1. swept' \in BOOLEAN
    BY DEF Memory!StoreInv, Memory!TypeOK
  <2>2. unused' \in [Keys -> 0..MemoryTTL + 1]
    BY <1>1 DEF Memory!StoreInv, Memory!TypeOK
  <2>3. ASSUME NEW j \in Keys, stored'[j] # Nil
        PROVE  Memory!Promise!Marshalable(heap'[stored'[j].data])
    <3>1. CASE j = k
      BY <3>1 DEF Storable, Memory!Promise!Marshalable
    <3>2. CASE j # k
      BY <1>3, <2>3, <3>2 DEF Memory!StoreInv, Memory!TypeOK, Memory!Stored
    <3>. QED
      BY <3>1, <3>2
  <2>. QED
    BY <2>1, <2>2, <2>3 DEF Memory!TypeOK, Memory!Promise!Marshalable
<1>6. Memory!NotShared'
  BY <1>2, <1>3, <1>4 DEF Memory!NotShared, Memory!Stored
<1>7. Memory!ClockIsLastUse'
  <2>1. unused'[k] = 0 /\ \A j \in Keys \ {k} : unused'[j] = unused[j]
    BY DEF Memory!StoreInv, Memory!TypeOK
  <2>. QED
    BY <2>1 DEF Memory!StoreInv, Memory!ClockIsLastUse, Memory!Stored
<1>8. ASSUME NEW j \in Keys \ {k} PROVE Conv'[j] = Conv[j]
  BY <1>3 DEF Conv, Memory!Stored
<1>. QED
  BY <1>5, <1>6, <1>7, <1>8 DEF Memory!StoreInv

(* A step that changes one conversation *)
LEMMA ConvEXCEPT ==
  ASSUME NEW k \in Keys, NEW c, Conv'[k] = c, \A j \in Keys \ {k} : Conv'[j] = Conv[j]
  PROVE  Conv' = [Conv EXCEPT ![k] = c]
<1>1. Conv = [j \in Keys |-> Conv[j]] /\ Conv' = [j \in Keys |-> Conv'[j]]
  BY DEF Conv
<1>. QED
  BY <1>1

LEMMA MemoryInit ==
  ASSUME Memory!StorageAssumption, Memory!Init
  PROVE  Memory!StoreInv /\ Memory!Promise!Init
<1>1. Memory!TypeOK
  <2>1. swept \in BOOLEAN /\ heap \in [Refs -> Memory!Data]
    BY EmptyIsData DEF Memory!Init, Storable
  <2>2. unused \in [Keys -> 0..MemoryTTL + 1]
    BY DEF Memory!Init, Memory!StorageAssumption
  <2>. QED
    BY <2>1, <2>2 DEF Memory!Init, Memory!TypeOK
<1>2. Memory!NotShared /\ Memory!ClockIsLastUse
  BY DEF Memory!Init, Memory!NotShared, Memory!ClockIsLastUse, Memory!Stored
<1>3. Memory!Promise!Init
  BY DEF Memory!Init, Memory!Promise!Init, Memory!Promise!NoConversation,
       Memory!Promise!EmptyMap
<1>. QED
  BY <1>1, <1>2, <1>3 DEF Memory!StoreInv

(* A record with one field replaced *)
LEMMA Replaced ==
  ASSUME NEW s, NEW d, NEW x
  PROVE  /\ [[state |-> s, data |-> d] EXCEPT !.state = x] = [state |-> x, data |-> d]
         /\ [[state |-> s, data |-> d] EXCEPT !.data = x] = [state |-> s, data |-> x]
OBVIOUS

(* An operation writes entry e of k, the heap becoming h but for garbage.    *)
LEMMA EntryWritten ==
  ASSUME Memory!StorageAssumption, Memory!StoreInv, NEW k \in Keys,
         NEW e \in Memory!Entries, e.age = 0,
         stored' = [stored EXCEPT ![k] = e],
         (Memory!Stored(k) /\ e.data = stored[k].data) \/ e.data \notin Memory!Live,
         NEW h \in [Refs -> Memory!Data],
         \A x \in Refs : x \in Memory!Live => h[x] = heap[x],
         h[e.data] \in Storable, heap' \in [Refs -> Memory!Data],
         \A x \in Refs : x \in Memory!Live' => heap'[x] = h[x],
         unused' = [unused EXCEPT ![k] = 0], swept' = swept,
         held' \in [MapHandlers -> Refs \cup {Nil}],
         \A g \in MapHandlers : held'[g] = held[g] \/ held'[g] \in Refs \ (Memory!Live \cup {e.data})
  PROVE  /\ Memory!StoreInv'
         /\ stored'[k] = e /\ e # Nil /\ e.data \in Memory!Live'
         /\ \A j \in Keys \ {k} : Conv'[j] = Conv[j]
<1>1. stored \in [Keys -> Memory!Entries \cup {Nil}] /\ e # Nil /\ e.data \in Refs
  BY EntryIsNotNil DEF Memory!StoreInv, Memory!TypeOK, Memory!Entries
<1>2. /\ stored' \in [Keys -> Memory!Entries \cup {Nil}] /\ stored'[k] = e
      /\ \A j \in Keys \ {k} : stored'[j] = stored[j]
  BY <1>1
<1>3. e.data \in Memory!Live'
  BY <1>1, <1>2 DEF Memory!Live, Memory!Stored
<1>4. /\ (Memory!Stored(k) /\ stored'[k].data = stored[k].data) \/ stored'[k].data \notin Memory!Live
      /\ stored'[k] \in Memory!Entries /\ stored'[k].age = 0
      /\ heap'[stored'[k].data] \in Storable
      /\ \A x \in Refs : x \in Memory!Live /\ x \in Memory!Live' => heap'[x] = heap[x]
      /\ \A g \in MapHandlers :
           held'[g] = held[g] \/ held'[g] \in Refs \ (Memory!Live \cup {stored'[k].data})
  BY <1>1, <1>2, <1>3
<1>5. Memory!StoreInv' /\ \A j \in Keys \ {k} : Conv'[j] = Conv[j]
  BY <1>2, <1>4, WriteStep
<1>. QED
  BY <1>1, <1>2, <1>3, <1>5

(* Each operation of the storage keeps its invariant and is one of FSMStore. *)
LEMMA SetStateStep ==
  ASSUME Memory!StorageAssumption, Memory!StoreInv, NEW k \in Keys, NEW s \in States,
         Memory!SetState(k, s)
  PROVE  Memory!StoreInv' /\ Memory!Promise!SetState(k, s)
<1>. DEFINE h == IF Memory!Stored(k) THEN heap
                  ELSE [heap EXCEPT ![Memory!New] = Memory!Promise!EmptyMap]
            r == IF Memory!Stored(k) THEN stored[k].data ELSE Memory!New
            e == [state |-> s, data |-> r, age |-> 0]
<1>1. /\ Memory!MoreRefs
      /\ stored' = [stored EXCEPT ![k] = [Memory!Get(k, Memory!New) EXCEPT !.state = s]]
      /\ unused' = [unused EXCEPT ![k] = 0] /\ said' = <<"SetState", k, s>>
      /\ held' = held /\ swept' = swept
      /\ heap' = [x \in Refs |-> IF x \in Memory!Live' THEN h[x] ELSE Memory!Promise!EmptyMap]
  BY DEF Memory!SetState, Memory!Called, Memory!Heap
<1>2. Memory!New \in Refs /\ Memory!New \notin Memory!Live
  BY <1>1, NewIsFresh
<1>3. /\ stored \in [Keys -> Memory!Entries \cup {Nil}] /\ heap \in [Refs -> Memory!Data]
      /\ held \in [MapHandlers -> Refs \cup {Nil}] /\ MemoryTTL \in Nat
  BY DEF Memory!StoreInv, Memory!TypeOK, Memory!StorageAssumption
<1>4. stored' = [stored EXCEPT ![k] = e]
  <2>1. [Memory!Get(k, Memory!New) EXCEPT !.state = s] = e
    BY <1>2, GetIs
  <2>. QED
    BY <1>1, <2>1
<1>5. h \in [Refs -> Memory!Data] /\ \A x \in Refs : x \in Memory!Live => h[x] = heap[x]
  BY <1>2, <1>3, EmptyIsData DEF Storable
<1>6. h[r] = Memory!StoredData(k) /\ Memory!StoredData(k) \in Storable
  BY <1>2, <1>3, ConvIs DEF Memory!StoredData
<1>7. /\ e \in Memory!Entries /\ e.state = s /\ e.data = r /\ e.age = 0
      /\ (Memory!Stored(k) /\ e.data = stored[k].data) \/ e.data \notin Memory!Live
  BY <1>2, <1>3 DEF Memory!Entries, Memory!Stored
<1>. HIDE DEF h, e, r
<1>8. heap' \in [Refs -> Memory!Data] /\ \A x \in Refs : x \in Memory!Live' => heap'[x] = h[x]
  BY <1>1, <1>5, EmptyIsData DEF Storable
<1>9. /\ held' \in [MapHandlers -> Refs \cup {Nil}] /\ h[e.data] \in Storable
      /\ \A g \in MapHandlers : held'[g] = held[g] \/ held'[g] \in Refs \ (Memory!Live \cup {e.data})
  BY <1>1, <1>3, <1>6, <1>7
<1>10. Memory!StoreInv'
  BY <1>1, <1>4, <1>5, <1>7, <1>8, <1>9, EntryWritten
<1>11. Conv' = [Conv EXCEPT ![k] = [state |-> s, data |-> Memory!StoredData(k)]]
  <2>1. stored'[k] = e /\ e # Nil /\ e.data \in Memory!Live'
    BY <1>1, <1>4, <1>5, <1>7, <1>8, <1>9, EntryWritten
  <2>2. Conv'[k] = [state |-> s, data |-> Memory!StoredData(k)]
    BY <1>6, <1>7, <1>8, <2>1 DEF Conv, Memory!Entries
  <2>3. \A j \in Keys \ {k} : Conv'[j] = Conv[j]
    BY <1>1, <1>4, <1>5, <1>7, <1>8, <1>9, EntryWritten
  <2>. QED
    BY <2>2, <2>3, ConvEXCEPT
<1>12. Conv' = [Conv EXCEPT ![k].state = s]
  <2>1. PICK st \in States : Conv[k] = [state |-> st, data |-> Memory!StoredData(k)]
    BY ConvIs
  <2>2. [Conv[k] EXCEPT !.state = s] = [state |-> s, data |-> Memory!StoredData(k)]
    BY <2>1, Replaced
  <2>. QED
    BY <1>11, <2>2
<1>. QED
  BY <1>1, <1>10, <1>12 DEF Conv, Memory!Promise!SetState, Memory!Promise!Touch

LEMMA SetDataStep ==
  ASSUME Memory!StorageAssumption, Memory!StoreInv, NEW g \in MapHandlers, NEW k \in Keys,
         Memory!SetData(g, k),
         NEW d, d = heap[held[g]]
  PROVE  Memory!StoreInv' /\ d \in Memory!Data /\ Memory!Promise!SetData(k, d)
<1>. DEFINE h == [heap EXCEPT ![Memory!New] = d]
            e == [state |-> Conv[k].state, data |-> Memory!New, age |-> 0]
<1>1. /\ Memory!MoreRefs
      /\ stored' = [stored EXCEPT ![k] = [Memory!Get(k, Memory!New) EXCEPT !.data = Memory!New]]
      /\ unused' = [unused EXCEPT ![k] = 0] /\ said' = <<"SetData", k, d>>
      /\ held[g] # Nil /\ Memory!Promise!Marshalable(d)
      /\ held' = held /\ swept' = swept
      /\ heap' = [x \in Refs |-> IF x \in Memory!Live' THEN h[x] ELSE Memory!Promise!EmptyMap]
  BY DEF Memory!SetData, Memory!Called, Memory!Heap
<1>2. Memory!New \in Refs /\ Memory!New \notin Memory!Live
  BY <1>1, NewIsFresh
<1>3. heap \in [Refs -> Memory!Data] /\ held \in [MapHandlers -> Refs \cup {Nil}]
  BY DEF Memory!StoreInv, Memory!TypeOK
<1>4. stored' = [stored EXCEPT ![k] = e]
  <2>1. [Memory!Get(k, Memory!New) EXCEPT !.data = Memory!New] = e
    BY <1>2, GetIs
  <2>. QED
    BY <1>1, <2>1
<1>5. d \in Memory!Data /\ d \in Storable
  BY <1>1, <1>3 DEF Storable, Memory!Promise!Marshalable
<1>6. /\ h \in [Refs -> Memory!Data] /\ h[Memory!New] = d
      /\ \A x \in Refs : x \in Memory!Live => h[x] = heap[x]
  BY <1>2, <1>3, <1>5
<1>7. /\ e \in Memory!Entries /\ e.state = Conv[k].state /\ e.data = Memory!New /\ e.age = 0
      /\ e.data \notin Memory!Live
  <2>1. PICK st \in States : Conv[k] = [state |-> st, data |-> Memory!StoredData(k)]
    BY ConvIs
  <2>2. Conv[k].state \in States
    BY <2>1
  <2>. QED
    BY <1>2, <2>2 DEF Memory!Entries, Memory!StorageAssumption
<1>. HIDE DEF h, e
<1>8. heap' \in [Refs -> Memory!Data] /\ \A x \in Refs : x \in Memory!Live' => heap'[x] = h[x]
  BY <1>1, <1>6, EmptyIsData DEF Storable
<1>9. /\ held' \in [MapHandlers -> Refs \cup {Nil}] /\ h[e.data] \in Storable
      /\ \A f \in MapHandlers : held'[f] = held[f] \/ held'[f] \in Refs \ (Memory!Live \cup {e.data})
  BY <1>1, <1>3, <1>5, <1>6, <1>7
<1>10. Memory!StoreInv'
  BY <1>1, <1>4, <1>6, <1>7, <1>8, <1>9, EntryWritten
<1>11. Conv' = [Conv EXCEPT ![k] = [state |-> Conv[k].state, data |-> d]]
  <2>1. stored'[k] = e /\ e # Nil /\ e.data \in Memory!Live'
    BY <1>1, <1>4, <1>6, <1>7, <1>8, <1>9, EntryWritten
  <2>2. Conv'[k] = [state |-> e.state, data |-> d]
    BY <1>2, <1>6, <1>7, <1>8, <2>1 DEF Conv
  <2>3. \A j \in Keys \ {k} : Conv'[j] = Conv[j]
    BY <1>1, <1>4, <1>6, <1>7, <1>8, <1>9, EntryWritten
  <2>. QED
    BY <1>7, <2>2, <2>3, ConvEXCEPT
<1>12. Conv' = [Conv EXCEPT ![k].data = d]
  <2>1. PICK st \in States : Conv[k] = [state |-> st, data |-> Memory!StoredData(k)]
    BY ConvIs
  <2>2. [Conv[k] EXCEPT !.data = d] = [state |-> Conv[k].state, data |-> d]
    BY <2>1, Replaced
  <2>. QED
    BY <1>11, <2>2
<1>13. Memory!Promise!SetData(k, d)
  BY <1>1, <1>12 DEF Conv, Memory!Promise!SetData, Memory!Promise!Touch,
       Memory!Promise!Marshalable
<1>. QED
  BY <1>5, <1>10, <1>13

(* A read touches the entry there is, and gives at most a new map away. *)
LEMMA ReadStep ==
  ASSUME Memory!StorageAssumption, Memory!StoreInv, NEW k \in Keys,
         stored' = IF Memory!Stored(k) THEN [stored EXCEPT ![k].age = 0] ELSE stored,
         unused' = [unused EXCEPT ![k] = 0], swept' = swept, heap' \in [Refs -> Memory!Data],
         \A x \in Refs : x \in Memory!Live /\ x \in Memory!Live' => heap'[x] = heap[x],
         held' \in [MapHandlers -> Refs \cup {Nil}],
         \A g \in MapHandlers : held'[g] = held[g] \/ held'[g] \in Refs \ Memory!Live
  PROVE  Memory!StoreInv' /\ Conv' = Conv
<1>1. /\ stored \in [Keys -> Memory!Entries \cup {Nil}] /\ unused \in [Keys -> 0..MemoryTTL + 1]
      /\ MemoryTTL \in Nat
  BY DEF Memory!StoreInv, Memory!TypeOK, Memory!StorageAssumption
<1>2. ASSUME Memory!Stored(k)
      PROVE  /\ [stored[k] EXCEPT !.age = 0] \in Memory!Entries
             /\ [stored[k] EXCEPT !.age = 0].state = stored[k].state
             /\ [stored[k] EXCEPT !.age = 0].data = stored[k].data
             /\ [stored[k] EXCEPT !.age = 0].age = 0
  BY <1>1, <1>2 DEF Memory!Stored, Memory!Entries
<1>3. /\ stored' \in [Keys -> Memory!Entries \cup {Nil}]
      /\ \A j \in Keys : stored'[j] # Nil <=> Memory!Stored(j)
      /\ \A j \in Keys : Memory!Stored(j) =>
           /\ stored'[j].state = stored[j].state /\ stored'[j].data = stored[j].data
           /\ stored'[j].age = unused'[j]
  <2>1. CASE Memory!Stored(k)
    <3>1. stored' = [stored EXCEPT ![k] = [stored[k] EXCEPT !.age = 0]]
      BY <2>1
    <3>2. [stored[k] EXCEPT !.age = 0] # Nil
      BY <1>2, <2>1, EntryIsNotNil
    <3>. QED
      BY <1>1, <1>2, <2>1, <3>1, <3>2 DEF Memory!StoreInv, Memory!ClockIsLastUse,
           Memory!Stored
  <2>2. CASE ~Memory!Stored(k)
    BY <1>1, <2>2 DEF Memory!StoreInv, Memory!ClockIsLastUse, Memory!Stored
  <2>. QED
    BY <2>1, <2>2
<1>4. ASSUME NEW j \in Keys, Memory!Stored(j)
      PROVE  /\ heap'[stored[j].data] = heap[stored[j].data]
             /\ \A g \in MapHandlers : held'[g] # stored[j].data
  <2>1. stored[j].data \in Refs /\ stored[j].data \in Memory!Live /\ stored[j].data \in Memory!Live'
    BY <1>1, <1>3, <1>4 DEF Memory!Live, Memory!Stored, Memory!Entries
  <2>. QED
    BY <1>4, <2>1 DEF Memory!StoreInv, Memory!NotShared, Memory!Stored
<1>5. swept' \in BOOLEAN
  BY DEF Memory!StoreInv, Memory!TypeOK
<1>6. unused' \in [Keys -> 0..MemoryTTL + 1]
  BY <1>1
<1>7. /\ Memory!StoreInv'
      /\ Conv' = [j \in Keys |-> IF stored'[j] = Nil THEN Memory!Promise!NoConversation ELSE Conv[j]]
  BY <1>3, <1>4, <1>5, <1>6, KeepStep
<1>8. ASSUME NEW j \in Keys, stored'[j] = Nil PROVE Conv[j] = Memory!Promise!NoConversation
  BY <1>3, <1>8 DEF Conv, Memory!Stored, Memory!Promise!NoConversation,
       Memory!Promise!EmptyMap
<1>9. Conv = [j \in Keys |-> Conv[j]]
  BY DEF Conv
<1>. QED
  BY <1>7, <1>8, <1>9

LEMMA GetStateStep ==
  ASSUME Memory!StorageAssumption, Memory!StoreInv, NEW k \in Keys, Memory!GetState(k)
  PROVE  Memory!StoreInv' /\ Memory!Promise!GetState(k)
<1>1. /\ stored' = IF Memory!Stored(k) THEN [stored EXCEPT ![k].age = 0] ELSE stored
      /\ unused' = [unused EXCEPT ![k] = 0]
      /\ said' = <<"GetState", k, Conv[k].state>>
      /\ heap' = heap /\ held' = held /\ swept' = swept
  BY ConvIs DEF Memory!GetState, Memory!Called
<1>2. heap \in [Refs -> Memory!Data] /\ held \in [MapHandlers -> Refs \cup {Nil}]
  BY DEF Memory!StoreInv, Memory!TypeOK
<1>3. Memory!StoreInv' /\ Conv' = Conv
  BY <1>1, <1>2, ReadStep
<1>. QED
  BY <1>1, <1>3 DEF Conv, Memory!Promise!GetState, Memory!Promise!Touch

LEMMA GetDataStep ==
  ASSUME Memory!StorageAssumption, Memory!StoreInv, NEW g \in MapHandlers, NEW k \in Keys,
         Memory!GetData(g, k)
  PROVE  Memory!StoreInv' /\ Memory!Promise!GetData(k)
<1>. DEFINE h == [heap EXCEPT ![Memory!New] = Memory!StoredData(k)]
<1>1. /\ Memory!MoreRefs /\ held' = [held EXCEPT ![g] = Memory!New]
      /\ stored' = IF Memory!Stored(k) THEN [stored EXCEPT ![k].age = 0] ELSE stored
      /\ unused' = [unused EXCEPT ![k] = 0] /\ said' = <<"GetData", k, Memory!StoredData(k)>>
      /\ swept' = swept
      /\ heap' = [x \in Refs |-> IF x \in Memory!Live' THEN h[x] ELSE Memory!Promise!EmptyMap]
  BY DEF Memory!GetData, Memory!Called, Memory!Heap
<1>2. Memory!New \in Refs /\ Memory!New \notin Memory!Live
  BY <1>1, NewIsFresh
<1>3. heap \in [Refs -> Memory!Data] /\ held \in [MapHandlers -> Refs \cup {Nil}]
  BY DEF Memory!StoreInv, Memory!TypeOK
<1>4. Memory!StoredData(k) \in Memory!Data
  BY ConvIs DEF Storable
<1>5. h \in [Refs -> Memory!Data] /\ \A x \in Refs : x \in Memory!Live => h[x] = heap[x]
  BY <1>2, <1>3, <1>4
<1>. HIDE DEF h
<1>6. /\ heap' \in [Refs -> Memory!Data]
      /\ \A x \in Refs : x \in Memory!Live /\ x \in Memory!Live' => heap'[x] = heap[x]
  BY <1>1, <1>5, EmptyIsData DEF Storable
<1>7. /\ held' \in [MapHandlers -> Refs \cup {Nil}]
      /\ \A f \in MapHandlers : held'[f] = held[f] \/ held'[f] \in Refs \ Memory!Live
  BY <1>1, <1>2, <1>3
<1>8. Memory!StoreInv' /\ Conv' = Conv
  BY <1>1, <1>6, <1>7, ReadStep
<1>9. Conv[k].data = Memory!StoredData(k)
  <2>1. PICK st \in States : Conv[k] = [state |-> st, data |-> Memory!StoredData(k)]
    BY ConvIs
  <2>. QED
    BY <2>1
<1>. QED
  BY <1>1, <1>8, <1>9 DEF Conv, Memory!Promise!GetData, Memory!Promise!Touch

(* UpdateData merges, and hands out a second copy of what it stored; ... *)
LEMMA UpdateDataStep ==
  ASSUME Memory!StorageAssumption, Memory!StoreInv, NEW g \in MapHandlers, NEW k \in Keys,
         Memory!UpdateData(g, k), NEW d, d = heap[held[g]],
         NEW m, m = Memory!Promise!Merge(Memory!StoredData(k), d),
         Memory!Promise!Marshalable(m)
  PROVE  Memory!StoreInv' /\ d \in Memory!Data /\ Memory!Promise!UpdateData(k, d)
<1>. DEFINE result == Memory!Fresh(Memory!Live \cup {Memory!New})
            h == [heap EXCEPT ![Memory!New] = m, ![result] = m]
            e == [state |-> Conv[k].state, data |-> Memory!New, age |-> 0]
<1>1. /\ held[g] # Nil /\ Refs \ (Memory!Live \cup {Memory!New}) # {}
      /\ stored' = [stored EXCEPT ![k] = [Memory!Get(k, Memory!New) EXCEPT !.data = Memory!New]]
      /\ held' = [held EXCEPT ![g] = result]
      /\ unused' = [unused EXCEPT ![k] = 0] /\ said' = <<"UpdateData", k, d, m>>
      /\ swept' = swept
      /\ heap' = [x \in Refs |-> IF x \in Memory!Live' THEN h[x] ELSE Memory!Promise!EmptyMap]
  BY DEF Memory!UpdateData, Memory!Called, Memory!Heap
<1>2. Memory!New \in Refs /\ Memory!New \notin Memory!Live
  BY <1>1, NewIsFresh DEF Memory!MoreRefs
<1>3. result \in Refs /\ result \notin Memory!Live \cup {Memory!New}
  BY <1>1 DEF Memory!Fresh
<1>4. heap \in [Refs -> Memory!Data] /\ held \in [MapHandlers -> Refs \cup {Nil}]
  BY DEF Memory!StoreInv, Memory!TypeOK
<1>5. stored' = [stored EXCEPT ![k] = e]
  <2>1. [Memory!Get(k, Memory!New) EXCEPT !.data = Memory!New] = e
    BY <1>2, GetIs
  <2>. QED
    BY <1>1, <2>1
<1>6. PICK st \in States : Conv[k] = [state |-> st, data |-> Memory!StoredData(k)]
  BY ConvIs
<1>7. d \in Memory!Data /\ Memory!StoredData(k) \in Memory!Data
  BY <1>1, <1>4, ConvIs DEF Storable
<1>8. m \in Memory!Data /\ m \in Storable
  <2>1. m \in Memory!Data
    BY <1>7 DEF Memory!Promise!Merge, Memory!Data, Memory!Promise!Data
  <2>. QED
    BY <2>1 DEF Storable, Memory!Promise!Marshalable
<1>. HIDE DEF result
<1>9. /\ h \in [Refs -> Memory!Data] /\ h[Memory!New] = m
      /\ \A x \in Refs : x \in Memory!Live => h[x] = heap[x]
  BY <1>2, <1>3, <1>4, <1>8
<1>10. /\ e \in Memory!Entries /\ e.state = Conv[k].state /\ e.data = Memory!New /\ e.age = 0
       /\ e.data \notin Memory!Live
  <2>1. Conv[k].state \in States
    BY <1>6
  <2>. QED
    BY <1>2, <2>1 DEF Memory!Entries, Memory!StorageAssumption
<1>. HIDE DEF h, e
<1>11. heap' \in [Refs -> Memory!Data] /\ \A x \in Refs : x \in Memory!Live' => heap'[x] = h[x]
  BY <1>1, <1>9, EmptyIsData DEF Storable
<1>12. /\ held' \in [MapHandlers -> Refs \cup {Nil}] /\ h[e.data] \in Storable
       /\ \A f \in MapHandlers : held'[f] = held[f] \/ held'[f] \in Refs \ (Memory!Live \cup {e.data})
  BY <1>1, <1>3, <1>4, <1>8, <1>9, <1>10
<1>13. Memory!StoreInv'
  BY <1>1, <1>5, <1>9, <1>10, <1>11, <1>12, EntryWritten
<1>14. Conv' = [Conv EXCEPT ![k] = [state |-> Conv[k].state, data |-> m]]
  <2>1. stored'[k] = e /\ e # Nil /\ e.data \in Memory!Live'
    BY <1>1, <1>5, <1>9, <1>10, <1>11, <1>12, EntryWritten
  <2>2. Conv'[k] = [state |-> e.state, data |-> m]
    BY <1>2, <1>9, <1>10, <1>11, <2>1 DEF Conv
  <2>3. \A j \in Keys \ {k} : Conv'[j] = Conv[j]
    BY <1>1, <1>5, <1>9, <1>10, <1>11, <1>12, EntryWritten
  <2>. QED
    BY <1>10, <2>2, <2>3, ConvEXCEPT
<1>15. Conv' = [Conv EXCEPT ![k].data = m]
  <2>1. [Conv[k] EXCEPT !.data = m] = [state |-> Conv[k].state, data |-> m]
    BY <1>6, Replaced
  <2>. QED
    BY <1>14, <2>1
<1>16. m = Memory!Promise!Merge(Conv[k].data, d)
  BY <1>6
<1>17. Memory!Promise!UpdateData(k, d)
  BY <1>1, <1>15, <1>16 DEF Conv, Memory!Promise!UpdateData, Memory!Promise!Touch
<1>. QED
  BY <1>7, <1>13, <1>17

(* ... or fails when what it merged cannot be marshaled, with the entry      *)
(* touched, or created empty, but for that as it was.                        *)
LEMMA UpdateDataFails ==
  ASSUME Memory!StorageAssumption, Memory!StoreInv, NEW g \in MapHandlers, NEW k \in Keys,
         Memory!UpdateData(g, k), NEW m, m = Memory!Promise!Merge(Memory!StoredData(k), heap[held[g]]),
         ~Memory!Promise!Marshalable(m)
  PROVE  Memory!StoreInv' /\ Memory!Promise!Fail(k)
<1>. DEFINE h == IF Memory!Stored(k) THEN heap
                  ELSE [heap EXCEPT ![Memory!New] = Memory!Promise!EmptyMap]
            r == IF Memory!Stored(k) THEN stored[k].data ELSE Memory!New
            e == [state |-> Conv[k].state, data |-> r, age |-> 0]
<1>1. /\ Refs \ (Memory!Live \cup {Memory!New}) # {}
      /\ stored' = [stored EXCEPT ![k] = Memory!Get(k, Memory!New)]
      /\ unused' = [unused EXCEPT ![k] = 0] /\ said' = <<"error", k>>
      /\ held' = held /\ swept' = swept
      /\ heap' = [x \in Refs |-> IF x \in Memory!Live' THEN h[x] ELSE Memory!Promise!EmptyMap]
  BY DEF Memory!UpdateData, Memory!Called, Memory!Heap
<1>2. Memory!New \in Refs /\ Memory!New \notin Memory!Live
  BY <1>1, NewIsFresh DEF Memory!MoreRefs
<1>3. /\ stored \in [Keys -> Memory!Entries \cup {Nil}] /\ heap \in [Refs -> Memory!Data]
      /\ held \in [MapHandlers -> Refs \cup {Nil}] /\ MemoryTTL \in Nat
  BY DEF Memory!StoreInv, Memory!TypeOK, Memory!StorageAssumption
<1>4. stored' = [stored EXCEPT ![k] = e]
  <2>1. Memory!Get(k, Memory!New) = e
    BY <1>2, GetIs
  <2>. QED
    BY <1>1, <2>1
<1>5. PICK st \in States : Conv[k] = [state |-> st, data |-> Memory!StoredData(k)]
  BY ConvIs
<1>6. h \in [Refs -> Memory!Data] /\ \A x \in Refs : x \in Memory!Live => h[x] = heap[x]
  BY <1>2, <1>3, EmptyIsData DEF Storable
<1>7. h[r] = Memory!StoredData(k) /\ Memory!StoredData(k) \in Storable
  BY <1>2, <1>3, ConvIs DEF Memory!StoredData
<1>8. /\ e \in Memory!Entries /\ e.state = Conv[k].state /\ e.data = r /\ e.age = 0
      /\ (Memory!Stored(k) /\ e.data = stored[k].data) \/ e.data \notin Memory!Live
  <2>1. Conv[k].state \in States
    BY <1>5
  <2>. QED
    BY <1>2, <1>3, <2>1 DEF Memory!Entries, Memory!Stored
<1>. HIDE DEF h, e, r
<1>9. heap' \in [Refs -> Memory!Data] /\ \A x \in Refs : x \in Memory!Live' => heap'[x] = h[x]
  BY <1>1, <1>6, EmptyIsData DEF Storable
<1>10. /\ held' \in [MapHandlers -> Refs \cup {Nil}] /\ h[e.data] \in Storable
       /\ \A f \in MapHandlers : held'[f] = held[f] \/ held'[f] \in Refs \ (Memory!Live \cup {e.data})
  BY <1>1, <1>3, <1>7, <1>8
<1>11. Memory!StoreInv'
  BY <1>1, <1>4, <1>6, <1>8, <1>9, <1>10, EntryWritten
<1>12. Conv' = Conv
  <2>1. stored'[k] = e /\ e # Nil /\ e.data \in Memory!Live'
    BY <1>1, <1>4, <1>6, <1>8, <1>9, <1>10, EntryWritten
  <2>2. Conv'[k] = [state |-> e.state, data |-> Memory!StoredData(k)]
    BY <1>7, <1>8, <1>9, <2>1 DEF Conv, Memory!Entries
  <2>3. Conv'[k] = Conv[k]
    BY <1>5, <1>8, <2>2
  <2>4. \A j \in Keys \ {k} : Conv'[j] = Conv[j]
    BY <1>1, <1>4, <1>6, <1>8, <1>9, <1>10, EntryWritten
  <2>5. Conv = [j \in Keys |-> Conv[j]] /\ Conv' = [j \in Keys |-> Conv'[j]]
    BY DEF Conv
  <2>. QED
    BY <2>3, <2>4, <2>5
<1>. QED
  BY <1>1, <1>11, <1>12 DEF Conv, Memory!Promise!Fail, Memory!Promise!Touch

(* Steps that write no entry: some conversations may go, the others keep     *)
(* state, map and clock.                                                     *)
LEMMA DropStep ==
  ASSUME Memory!StorageAssumption, Memory!StoreInv,
         stored' \in [Keys -> Memory!Entries \cup {Nil}],
         \A j \in Keys : stored'[j] = Nil \/ stored'[j] = stored[j],
         unused' \in [Keys -> 0..MemoryTTL + 1],
         \A j \in Keys : stored'[j] # Nil => unused'[j] = unused[j],
         swept' \in BOOLEAN, heap' \in [Refs -> Memory!Data],
         \A x \in Refs : (\E j \in Keys : Memory!Stored(j) /\ stored[j].data = x) /\ x \in Memory!Live' =>
           heap'[x] = heap[x],
         held' \in [MapHandlers -> Refs \cup {Nil}],
         \A g \in MapHandlers : held'[g] = held[g] \/ held'[g] \in Refs \ Memory!Live
  PROVE  /\ Memory!StoreInv'
         /\ Conv' = [j \in Keys |-> IF stored'[j] = Nil THEN Memory!Promise!NoConversation
                                    ELSE Conv[j]]
<1>1. ASSUME NEW j \in Keys, stored'[j] # Nil
      PROVE  /\ Memory!Stored(j) /\ stored'[j] = stored[j]
             /\ heap'[stored[j].data] = heap[stored[j].data]
             /\ \A g \in MapHandlers : held'[g] # stored[j].data
             /\ stored'[j].age = unused'[j]
  <2>1. Memory!Stored(j) /\ stored'[j] = stored[j] /\ stored[j] \in Memory!Entries
    BY <1>1 DEF Memory!Stored, Memory!StoreInv, Memory!TypeOK
  <2>2. stored[j].data \in Refs /\ stored[j].data \in Memory!Live /\ stored[j].data \in Memory!Live'
    BY <1>1, <2>1 DEF Memory!Live, Memory!Stored, Memory!Entries
  <2>. QED
    BY <1>1, <2>1, <2>2 DEF Memory!StoreInv, Memory!NotShared, Memory!ClockIsLastUse,
         Memory!Stored
<1>. QED
  BY <1>1, KeepStep

LEMMA ClearStep ==
  ASSUME Memory!StorageAssumption, Memory!StoreInv, NEW k \in Keys, Memory!Clear(k)
  PROVE  Memory!StoreInv' /\ Memory!Promise!Clear(k)
<1>1. /\ stored' = [stored EXCEPT ![k] = Nil] /\ unused' = [unused EXCEPT ![k] = 0]
      /\ said' = <<"Clear", k>> /\ held' = held /\ swept' = swept
      /\ heap' = [x \in Refs |-> IF x \in Memory!Live' THEN heap[x] ELSE Memory!Promise!EmptyMap]
  BY DEF Memory!Clear, Memory!Called, Memory!Heap
<1>2. /\ stored \in [Keys -> Memory!Entries \cup {Nil}] /\ heap \in [Refs -> Memory!Data]
      /\ held \in [MapHandlers -> Refs \cup {Nil}] /\ unused \in [Keys -> 0..MemoryTTL + 1]
      /\ MemoryTTL \in Nat
  BY DEF Memory!StoreInv, Memory!TypeOK, Memory!StorageAssumption
<1>3. swept' \in BOOLEAN
  BY <1>1 DEF Memory!StoreInv, Memory!TypeOK
<1>4. heap' \in [Refs -> Memory!Data] /\ \A x \in Refs : x \in Memory!Live' => heap'[x] = heap[x]
  BY <1>1, <1>2, EmptyIsData DEF Storable
<1>5. /\ stored' \in [Keys -> Memory!Entries \cup {Nil}] /\ stored'[k] = Nil
      /\ \A j \in Keys \ {k} : stored'[j] = stored[j]
      /\ unused' \in [Keys -> 0..MemoryTTL + 1]
      /\ \A j \in Keys : stored'[j] # Nil => unused'[j] = unused[j]
      /\ held' \in [MapHandlers -> Refs \cup {Nil}]
  BY <1>1, <1>2
<1>6. /\ Memory!StoreInv'
      /\ Conv' = [j \in Keys |-> IF stored'[j] = Nil THEN Memory!Promise!NoConversation ELSE Conv[j]]
  BY <1>1, <1>3, <1>4, <1>5, DropStep
<1>7. \A j \in Keys : stored[j] = Nil => Conv[j] = Memory!Promise!NoConversation
  BY DEF Conv, Memory!Promise!NoConversation, Memory!Promise!EmptyMap
<1>8. Conv' = [Conv EXCEPT ![k] = Memory!Promise!NoConversation]
  <2>1. Conv = [j \in Keys |-> Conv[j]]
    BY DEF Conv
  <2>. QED
    BY <1>5, <1>6, <1>7, <2>1
<1>. QED
  BY <1>1, <1>6, <1>8 DEF Conv, Memory!Promise!Clear, Memory!Promise!Touch

LEMMA evictExpiredStep ==
  ASSUME Memory!StorageAssumption, Memory!StoreInv, Memory!evictExpired
  PROVE  Memory!StoreInv' /\ \E gone \in SUBSET Keys : Memory!Promise!Expire(gone)
<1>. PICK gone \in SUBSET Keys : gone = {k \in Keys : Memory!Stored(k) /\ stored[k].age > MemoryTTL}
  OBVIOUS
<1>1. /\ MemoryTTL > 0
      /\ stored' = [k \in Keys |-> IF k \in gone THEN Nil ELSE stored[k]]
      /\ unused' = unused /\ said' = said /\ held' = held /\ swept' = swept
      /\ heap' = [x \in Refs |-> IF x \in Memory!Live' THEN heap[x] ELSE Memory!Promise!EmptyMap]
  BY DEF Memory!evictExpired, Memory!Heap
<1>2. /\ stored \in [Keys -> Memory!Entries \cup {Nil}] /\ heap \in [Refs -> Memory!Data]
      /\ held \in [MapHandlers -> Refs \cup {Nil}] /\ unused \in [Keys -> 0..MemoryTTL + 1]
  BY DEF Memory!StoreInv, Memory!TypeOK
<1>3. swept' \in BOOLEAN
  BY <1>1 DEF Memory!StoreInv, Memory!TypeOK
<1>4. heap' \in [Refs -> Memory!Data] /\ \A x \in Refs : x \in Memory!Live' => heap'[x] = heap[x]
  BY <1>1, <1>2, EmptyIsData DEF Storable
<1>5. /\ stored' \in [Keys -> Memory!Entries \cup {Nil}]
      /\ \A j \in Keys : stored'[j] = IF j \in gone THEN Nil ELSE stored[j]
  BY <1>1, <1>2
<1>6. /\ Memory!StoreInv'
      /\ Conv' = [j \in Keys |-> IF stored'[j] = Nil THEN Memory!Promise!NoConversation ELSE Conv[j]]
  BY <1>1, <1>2, <1>3, <1>4, <1>5, DropStep
<1>7. \A j \in Keys : stored[j] = Nil => Conv[j] = Memory!Promise!NoConversation
  BY DEF Conv, Memory!Promise!NoConversation, Memory!Promise!EmptyMap
<1>8. Conv' = [j \in Keys |-> IF j \in gone THEN Memory!Promise!NoConversation ELSE Conv[j]]
  BY <1>5, <1>6, <1>7
<1>9. \A k \in gone : Memory!Promise!Expired(k)
  BY <1>1 DEF Memory!StoreInv, Memory!ClockIsLastUse, Memory!Promise!Expired
<1>10. Memory!Promise!Expire(gone)
  BY <1>1, <1>8, <1>9 DEF Conv, Memory!Promise!Expire
<1>. QED
  BY <1>6, <1>10

(* What handlers do to their own maps is no step of the store. *)
LEMMA NewMapStep ==
  ASSUME Memory!StorageAssumption, Memory!StoreInv, NEW g \in MapHandlers,
         NEW d \in Memory!Data, Memory!NewMap(g, d)
  PROVE  Memory!StoreInv' /\ UNCHANGED <<Conv, unused, said>>
<1>. DEFINE h == [heap EXCEPT ![Memory!New] = d]
<1>1. /\ Memory!MoreRefs /\ held' = [held EXCEPT ![g] = Memory!New]
      /\ stored' = stored /\ unused' = unused /\ said' = said /\ swept' = swept
      /\ heap' = [x \in Refs |-> IF x \in Memory!Live' THEN h[x] ELSE Memory!Promise!EmptyMap]
  BY DEF Memory!NewMap, Memory!Heap
<1>2. Memory!New \in Refs /\ Memory!New \notin Memory!Live
  BY <1>1, NewIsFresh
<1>3. /\ stored \in [Keys -> Memory!Entries \cup {Nil}] /\ heap \in [Refs -> Memory!Data]
      /\ held \in [MapHandlers -> Refs \cup {Nil}] /\ unused \in [Keys -> 0..MemoryTTL + 1]
  BY DEF Memory!StoreInv, Memory!TypeOK
<1>4. swept' \in BOOLEAN
  BY <1>1 DEF Memory!StoreInv, Memory!TypeOK
<1>5. h \in [Refs -> Memory!Data] /\ \A x \in Refs : x \in Memory!Live => h[x] = heap[x]
  BY <1>2, <1>3
<1>. HIDE DEF h
<1>6. /\ heap' \in [Refs -> Memory!Data]
      /\ \A x \in Refs : x \in Memory!Live /\ x \in Memory!Live' => heap'[x] = heap[x]
  BY <1>1, <1>5, EmptyIsData DEF Storable
<1>7. \A x \in Refs : (\E j \in Keys : Memory!Stored(j) /\ stored[j].data = x) /\ x \in Memory!Live' =>
        heap'[x] = heap[x]
  BY <1>6 DEF Memory!Live
<1>8. /\ held' \in [MapHandlers -> Refs \cup {Nil}]
      /\ \A f \in MapHandlers : held'[f] = held[f] \/ held'[f] \in Refs \ Memory!Live
  BY <1>1, <1>2, <1>3
<1>9. /\ Memory!StoreInv'
      /\ Conv' = [j \in Keys |-> IF stored'[j] = Nil THEN Memory!Promise!NoConversation ELSE Conv[j]]
  BY <1>1, <1>3, <1>4, <1>6, <1>7, <1>8, DropStep
<1>10. Conv = [j \in Keys |-> Conv[j]]
       /\ \A j \in Keys : stored[j] = Nil => Conv[j] = Memory!Promise!NoConversation
  BY DEF Conv, Memory!Promise!NoConversation, Memory!Promise!EmptyMap
<1>. QED
  BY <1>1, <1>9, <1>10

LEMMA MutateStep ==
  ASSUME Memory!StorageAssumption, Memory!StoreInv, NEW g \in MapHandlers,
         NEW f \in Fields, NEW v \in Values,
         Memory!Mutate(g, f, v)
  PROVE  Memory!StoreInv' /\ UNCHANGED <<Conv, unused, said>>
<1>1. /\ held[g] # Nil /\ heap' = [heap EXCEPT ![held[g]][f] = v]
      /\ stored' = stored /\ held' = held /\ swept' = swept /\ unused' = unused /\ said' = said
  BY DEF Memory!Mutate
<1>2. /\ stored \in [Keys -> Memory!Entries \cup {Nil}] /\ heap \in [Refs -> Memory!Data]
      /\ held \in [MapHandlers -> Refs \cup {Nil}] /\ unused \in [Keys -> 0..MemoryTTL + 1]
  BY DEF Memory!StoreInv, Memory!TypeOK
<1>3. swept' \in BOOLEAN
  BY <1>1 DEF Memory!StoreInv, Memory!TypeOK
<1>4. held[g] \in Refs
  BY <1>1, <1>2
<1>5. [heap[held[g]] EXCEPT ![f] = v] \in Memory!Data
  BY <1>2, <1>4 DEF Memory!Data, Memory!Promise!Data
<1>6. heap' \in [Refs -> Memory!Data] /\ \A x \in Refs : x # held[g] => heap'[x] = heap[x]
  BY <1>1, <1>2, <1>4, <1>5
<1>7. \A x \in Refs : (\E j \in Keys : Memory!Stored(j) /\ stored[j].data = x) /\ x \in Memory!Live' =>
        heap'[x] = heap[x]
  BY <1>6 DEF Memory!StoreInv, Memory!NotShared
<1>8. /\ Memory!StoreInv'
      /\ Conv' = [j \in Keys |-> IF stored'[j] = Nil THEN Memory!Promise!NoConversation ELSE Conv[j]]
  BY <1>1, <1>2, <1>3, <1>6, <1>7, DropStep
<1>9. Conv = [j \in Keys |-> Conv[j]]
      /\ \A j \in Keys : stored[j] = Nil => Conv[j] = Memory!Promise!NoConversation
  BY DEF Conv, Memory!Promise!NoConversation, Memory!Promise!EmptyMap
<1>. QED
  BY <1>1, <1>8, <1>9

LEMMA MemoryTickStep ==
  ASSUME Memory!StorageAssumption, Memory!StoreInv, Memory!Tick
  PROVE  Memory!StoreInv' /\ Memory!Promise!Tick
<1>1. /\ stored' = [k \in Keys |-> Memory!Aged(k)]
      /\ unused' = [k \in Keys |-> Memory!Promise!Older(unused[k])]
      /\ heap' = heap /\ held' = held /\ swept' = swept /\ said' = said
  BY DEF Memory!Tick
<1>2. /\ stored \in [Keys -> Memory!Entries \cup {Nil}] /\ heap \in [Refs -> Memory!Data]
      /\ held \in [MapHandlers -> Refs \cup {Nil}] /\ unused \in [Keys -> 0..MemoryTTL + 1]
      /\ MemoryTTL \in Nat
  BY DEF Memory!StoreInv, Memory!TypeOK, Memory!StorageAssumption
<1>3. swept' \in BOOLEAN
  BY <1>1 DEF Memory!StoreInv, Memory!TypeOK
<1>4. \A a \in 0..MemoryTTL + 1 : Memory!Promise!Older(a) \in 0..MemoryTTL + 1
  BY <1>2 DEF Memory!Promise!Older
<1>5. ASSUME NEW k \in Keys
      PROVE  /\ Memory!Aged(k) \in Memory!Entries \cup {Nil}
             /\ ~Memory!Stored(k) => Memory!Aged(k) = Nil
             /\ Memory!Stored(k) => /\ Memory!Aged(k).state = stored[k].state
                             /\ Memory!Aged(k).data = stored[k].data
                             /\ Memory!Aged(k).age = Memory!Promise!Older(stored[k].age)
  <2>1. CASE Memory!Stored(k)
    <3>1. stored[k] \in Memory!Entries
      BY <1>2, <2>1 DEF Memory!Stored
    <3>2. Memory!Aged(k) = [state |-> stored[k].state, data |-> stored[k].data,
                     age |-> Memory!Promise!Older(stored[k].age)]
      BY <2>1, <3>1 DEF Memory!Aged, Memory!Entries
    <3>3. stored[k].state \in States /\ stored[k].data \in Refs /\ stored[k].age \in 0..MemoryTTL + 1
      BY <3>1 DEF Memory!Entries
    <3>. QED
      BY <1>4, <2>1, <3>2, <3>3 DEF Memory!Entries
  <2>2. CASE ~Memory!Stored(k)
    BY <2>2 DEF Memory!Aged
  <2>. QED
    BY <2>1, <2>2
<1>6. stored' \in [Keys -> Memory!Entries \cup {Nil}] /\ unused' \in [Keys -> 0..MemoryTTL + 1]
  BY <1>1, <1>2, <1>4, <1>5
<1>7. ASSUME NEW k \in Keys, stored'[k] # Nil
      PROVE  /\ Memory!Stored(k)
             /\ stored'[k].state = stored[k].state /\ stored'[k].data = stored[k].data
             /\ heap'[stored[k].data] = heap[stored[k].data]
             /\ \A h \in MapHandlers : held'[h] # stored[k].data
             /\ stored'[k].age = unused'[k]
  BY <1>1, <1>5, <1>7 DEF Memory!StoreInv, Memory!NotShared, Memory!ClockIsLastUse
<1>8. /\ Memory!StoreInv'
      /\ Conv' = [k \in Keys |-> IF stored'[k] = Nil THEN Memory!Promise!NoConversation ELSE Conv[k]]
  BY <1>1, <1>2, <1>3, <1>6, <1>7, KeepStep
<1>9. \A k \in Keys : stored'[k] = Nil => ~Memory!Stored(k)
  <2>1. ASSUME NEW k \in Keys, Memory!Stored(k) PROVE Memory!Aged(k) \in Memory!Entries
    <3>1. stored[k] \in Memory!Entries
      BY <1>2, <2>1 DEF Memory!Stored
    <3>. QED
      BY <1>4, <2>1, <3>1 DEF Memory!Aged, Memory!Entries
  <2>. QED
    BY <1>1, <2>1, EntryIsNotNil
<1>10. Conv = [k \in Keys |-> Conv[k]]
       /\ \A k \in Keys : ~Memory!Stored(k) => Conv[k] = Memory!Promise!NoConversation
  BY DEF Conv, Memory!Stored, Memory!Promise!NoConversation, Memory!Promise!EmptyMap
<1>11. Conv' = Conv
  BY <1>8, <1>9, <1>10
<1>. QED
  BY <1>1, <1>8, <1>11 DEF Conv, Memory!Promise!Tick

(* A step of nobody: what the store is made of stays. *)
LEMMA StoreUnchanged ==
  ASSUME Memory!StorageAssumption, Memory!StoreInv,
         UNCHANGED <<stored, heap, held, unused>>,
         swept' \in BOOLEAN
  PROVE  Memory!StoreInv' /\ Conv' = Conv
<1>1. /\ stored \in [Keys -> Memory!Entries \cup {Nil}] /\ heap \in [Refs -> Memory!Data]
      /\ held \in [MapHandlers -> Refs \cup {Nil}] /\ unused \in [Keys -> 0..MemoryTTL + 1]
  BY DEF Memory!StoreInv, Memory!TypeOK
<1>2. ASSUME NEW j \in Keys, stored'[j] # Nil
      PROVE  /\ Memory!Stored(j)
             /\ stored'[j].state = stored[j].state /\ stored'[j].data = stored[j].data
             /\ heap'[stored[j].data] = heap[stored[j].data]
             /\ \A h \in MapHandlers : held'[h] # stored[j].data
             /\ stored'[j].age = unused'[j]
  BY <1>2 DEF Memory!StoreInv, Memory!NotShared, Memory!ClockIsLastUse, Memory!Stored
<1>3. Memory!StoreInv'
  BY <1>1, <1>2, KeepStep
<1>. QED
  BY <1>3 DEF Conv

LEMMA SetDataFailsStep ==
  ASSUME Memory!StorageAssumption, Memory!StoreInv, NEW g \in MapHandlers, NEW k \in Keys,
         Memory!SetDataFails(g, k)
  PROVE  Memory!StoreInv' /\ Memory!Promise!Fail(k)
<1>1. /\ said' = <<"error", k>>
      /\ stored' = stored /\ heap' = heap /\ held' = held /\ swept' = swept /\ unused' = unused
  BY DEF Memory!SetDataFails
<1>2. swept' \in BOOLEAN
  BY <1>1 DEF Memory!StoreInv, Memory!TypeOK
<1>3. Memory!StoreInv' /\ Conv' = Conv
  BY <1>1, <1>2, StoreUnchanged
<1>. QED
  BY <1>1, <1>3 DEF Conv, Memory!Promise!Fail

LEMMA CloseStep ==
  ASSUME Memory!StorageAssumption, Memory!StoreInv, Memory!Close
  PROVE  Memory!StoreInv' /\ UNCHANGED <<Conv, unused, said>>
<1>1. /\ swept' = TRUE /\ said' = said
      /\ stored' = stored /\ heap' = heap /\ held' = held /\ unused' = unused
  BY DEF Memory!Close
<1>2. Memory!StoreInv' /\ Conv' = Conv
  BY <1>1, StoreUnchanged
<1>. QED
  BY <1>1, <1>2

(* An operation of the storage is a call of FSMStore, ... *)
LEMMA OperationStep ==
  ASSUME Memory!StorageAssumption, Memory!StoreInv, Memory!Operation
  PROVE  Memory!StoreInv' /\ Memory!Promise!Call
<1>. PICK k \in Keys :
       \/ \E s \in States : Memory!SetState(k, s)
       \/ Memory!GetState(k)
       \/ \E h \in MapHandlers :
            \/ Memory!SetData(h, k) \/ Memory!SetDataFails(h, k)
            \/ Memory!GetData(h, k) \/ Memory!UpdateData(h, k)
       \/ Memory!Clear(k)
  BY DEF Memory!Operation
<1>1. CASE \E s \in States : Memory!SetState(k, s)
  BY <1>1, SetStateStep DEF Memory!Promise!Call
<1>2. CASE Memory!GetState(k)
  BY <1>2, GetStateStep DEF Memory!Promise!Call
<1>3. CASE Memory!Clear(k)
  BY <1>3, ClearStep DEF Memory!Promise!Call
<1>4. ASSUME NEW g \in MapHandlers, Memory!SetData(g, k)
      PROVE  Memory!StoreInv' /\ Memory!Promise!Call
  <2>. PICK d : d = heap[held[g]]
    OBVIOUS
  <2>1. Memory!StoreInv' /\ d \in Memory!Data /\ Memory!Promise!SetData(k, d)
    BY <1>4, SetDataStep
  <2>. QED
    BY <2>1 DEF Memory!Promise!Call, Memory!Data
<1>5. ASSUME NEW g \in MapHandlers, Memory!SetDataFails(g, k)
      PROVE  Memory!StoreInv' /\ Memory!Promise!Call
  BY <1>5, SetDataFailsStep DEF Memory!Promise!Call
<1>6. ASSUME NEW g \in MapHandlers, Memory!GetData(g, k)
      PROVE  Memory!StoreInv' /\ Memory!Promise!Call
  BY <1>6, GetDataStep DEF Memory!Promise!Call
<1>7. ASSUME NEW g \in MapHandlers, Memory!UpdateData(g, k)
      PROVE  Memory!StoreInv' /\ Memory!Promise!Call
  <2>. PICK d : d = heap[held[g]]
    OBVIOUS
  <2>. PICK m : m = Memory!Promise!Merge(Memory!StoredData(k), d)
    OBVIOUS
  <2>1. CASE Memory!Promise!Marshalable(m)
    <3>1. Memory!StoreInv' /\ d \in Memory!Data /\ Memory!Promise!UpdateData(k, d)
      BY <1>7, <2>1, UpdateDataStep
    <3>. QED
      BY <3>1 DEF Memory!Promise!Call, Memory!Data
  <2>2. CASE ~Memory!Promise!Marshalable(m)
    <3>1. Memory!StoreInv' /\ Memory!Promise!Fail(k)
      BY <1>7, <2>2, UpdateDataFails
    <3>. QED
      BY <3>1 DEF Memory!Promise!Call
  <2>. QED
    BY <2>1, <2>2
<1>. QED
  BY <1>1, <1>2, <1>3, <1>4, <1>5, <1>6, <1>7

(* ... and every step is one of FSMStore, or none that it sees. *)
LEMMA MemoryStep ==
  ASSUME Memory!StorageAssumption, Memory!StoreInv, [Memory!Next]_(Memory!vars)
  PROVE  Memory!StoreInv' /\ [Memory!Promise!Next]_(Memory!Promise!vars)
<1>1. CASE Memory!Operation
  BY <1>1, OperationStep DEF Memory!Promise!Next
<1>2. CASE Memory!Work
  <2>1. Memory!StoreInv' /\ UNCHANGED <<Conv, unused, said>>
    BY <1>2, NewMapStep, MutateStep DEF Memory!Work
  <2>. QED
    BY <2>1 DEF Conv, Memory!Promise!vars
<1>3. CASE Memory!Tick
  BY <1>3, MemoryTickStep DEF Memory!Promise!Next
<1>4. CASE Memory!evictExpired
  BY <1>4, evictExpiredStep DEF Memory!Promise!Next
<1>5. CASE Memory!Close
  <2>1. Memory!StoreInv' /\ UNCHANGED <<Conv, unused, said>>
    BY <1>5, CloseStep
  <2>. QED
    BY <2>1 DEF Conv, Memory!Promise!vars
<1>6. CASE UNCHANGED Memory!vars
  <2>1. swept' \in BOOLEAN /\ UNCHANGED <<stored, heap, held, unused, said>>
    BY <1>6 DEF Memory!vars, Memory!StoreInv, Memory!TypeOK
  <2>2. Memory!StoreInv' /\ Conv' = Conv
    BY <2>1, StoreUnchanged
  <2>. QED
    BY <2>1, <2>2 DEF Conv, Memory!Promise!vars
<1>. QED
  BY <1>1, <1>2, <1>3, <1>4, <1>5, <1>6 DEF Memory!Next

(* What the storage holds can be marshaled, its maps are nobody else's ("so  *)
(* callers can't observe, or data-race on, maps held by the store",          *)
(* copyData), and an entry's clock is that of its last read or write: for    *)
(* any keys, handlers and heap.                                              *)
THEOREM StoreSound == Memory!Spec => []Memory!StoreInv
<1>. Memory!StorageAssumption
  BY MemoryAssumed
<1>1. Memory!Init => Memory!StoreInv
  BY MemoryInit
<1>2. Memory!StoreInv /\ [Memory!Next]_(Memory!vars) => Memory!StoreInv'
  BY MemoryStep
<1>. QED
  BY <1>1, <1>2, PTL DEF Memory!Spec

(* MemoryStorage keeps the promise of FSMStorage: whatever handlers do to    *)
(* the maps they passed in or got back, each call has the effect and the     *)
(* answer FSMStore gives it, and only a conversation untouched for the whole *)
(* TTL is swept away.                                                        *)
THEOREM PromiseKept == Memory!Spec => Memory!KeepsPromise /\ MemoryKeepsPromise
<1>. Memory!StorageAssumption
  BY MemoryAssumed
<1>1. Memory!Init => Memory!Promise!Init
  BY MemoryInit
<1>2. Memory!StoreInv /\ [Memory!Next]_(Memory!vars) =>
        [Memory!Promise!Next]_(Memory!Promise!vars)
  BY MemoryStep
<1>3. [Memory!Promise!Next]_(Memory!Promise!vars) =>
        [part # "memory" \/ Memory!Promise!Next]_(Memory!Promise!vars)
  OBVIOUS
<1>. QED
  BY <1>1, <1>2, <1>3, StoreSound, PTL
  DEF Memory!Spec, Memory!KeepsPromise, Memory!Promise!Spec, MemoryKeepsPromise

-----------------------------------------------------------------------------
(* The Redis storage *)

(* Handlers work on the conversation their dispatch lock is for. *)
OwnOnly == \A h \in RedisHandlers : Reach[h] \subseteq {OwnKey[h]}

(* What Promise sees of the two Redis keys of each conversation *)
Seen == [k \in Keys |-> [state |-> Redis!State(k), data |-> Redis!Map(k)]]

SomeStates == States \ {NoState}
SomeData   == {d \in Redis!Data : Redis!Promise!Marshalable(d)}

(* Goroutines whose updates share a storage key exclude each other, and what *)
(* one that is in the middle of UpdateData has read and merged is still what *)
(* is stored.                                                                *)
Excluded ==
  \A g, h \in RedisHandlers : g # h /\ OwnKey[g] = OwnKey[h] => pc[g] = "out" \/ pc[h] = "out"
Merged ==
  \A h \in RedisHandlers : pc[h] = "merging" =>
    /\ call[h].key = OwnKey[h]
    /\ call[h].merged = Redis!Promise!Merge(Redis!Map(call[h].key), call[h].partial)

RedisInv == Redis!TypeOK /\ Excluded /\ Merged

LEMMA EmptyIsSomeData ==
  ASSUME Redis!RedisAssumption
  PROVE  Redis!EmptyMap \in Redis!Data
BY DEF Redis!EmptyMap, Redis!Data, Redis!Promise!Data

(* What is stored is not taken for nothing. *)
LEMMA LiveIsNotNil ==
  ASSUME Redis!RedisAssumption, NEW v \in States \cup Redis!Data, NEW t \in Nat
  PROVE  [val |-> v, ttl |-> t] # Nil
BY DEF Redis!RedisAssumption, Redis!Data, Redis!Promise!Data

(* The commands, on the keys of either half of the conversations *)
LEMMA CommandTypes ==
  ASSUME Redis!RedisAssumption, NEW V \in SUBSET (States \cup Redis!Data),
         NEW key \in [Keys -> Redis!Live(V)], NEW k \in Keys
  PROVE  /\ \A v \in V :
              /\ Redis!Set(key, k, v) \in [Keys -> Redis!Live(V)]
              /\ Redis!Set(key, k, v)[k] # Nil /\ Redis!Set(key, k, v)[k].val = v
              /\ \A j \in Keys \ {k} : Redis!Set(key, k, v)[j] = key[j]
         /\ Redis!GetEx(key, k) \in [Keys -> Redis!Live(V)]
         /\ Redis!GetEx(key, k)[k] = Nil <=> key[k] = Nil
         /\ key[k] # Nil => Redis!GetEx(key, k)[k].val = key[k].val
         /\ \A j \in Keys \ {k} : Redis!GetEx(key, k)[j] = key[j]
         /\ Redis!Del(key, k) \in [Keys -> Redis!Live(V)] /\ Redis!Del(key, k)[k] = Nil
         /\ \A j \in Keys \ {k} : Redis!Del(key, k)[j] = key[j]
<1>0. RedisTTL \in Nat
  BY DEF Redis!RedisAssumption
<1>1. ASSUME NEW v \in V
      PROVE  /\ Redis!Set(key, k, v) \in [Keys -> Redis!Live(V)]
             /\ Redis!Set(key, k, v)[k] # Nil /\ Redis!Set(key, k, v)[k].val = v
             /\ \A j \in Keys \ {k} : Redis!Set(key, k, v)[j] = key[j]
  <2>1. [val |-> v, ttl |-> RedisTTL] \in Redis!Live(V)
    BY <1>0 DEF Redis!Live
  <2>2. [val |-> v, ttl |-> RedisTTL] # Nil
    BY <1>0, LiveIsNotNil
  <2>. QED
    BY <2>1, <2>2 DEF Redis!Set
<1>2. /\ Redis!GetEx(key, k) \in [Keys -> Redis!Live(V)]
      /\ Redis!GetEx(key, k)[k] = Nil <=> key[k] = Nil
      /\ key[k] # Nil => Redis!GetEx(key, k)[k].val = key[k].val
      /\ \A j \in Keys \ {k} : Redis!GetEx(key, k)[j] = key[j]
  <2>1. CASE key[k] = Nil
    BY <2>1 DEF Redis!GetEx
  <2>2. CASE key[k] # Nil
    <3>1. PICK v \in V, t \in 0..RedisTTL : key[k] = [val |-> v, ttl |-> t]
      BY <2>2 DEF Redis!Live
    <3>2. [key[k] EXCEPT !.ttl = RedisTTL] = [val |-> v, ttl |-> RedisTTL]
      BY <3>1
    <3>3. Redis!GetEx(key, k) = [key EXCEPT ![k] = [val |-> v, ttl |-> RedisTTL]]
      BY <2>2, <3>2 DEF Redis!GetEx
    <3>4. [val |-> v, ttl |-> RedisTTL] \in Redis!Live(V)
      BY <1>0 DEF Redis!Live
    <3>5. [val |-> v, ttl |-> RedisTTL] # Nil
      BY <1>0, LiveIsNotNil
    <3>. QED
      BY <2>2, <3>1, <3>3, <3>4, <3>5
  <2>. QED
    BY <2>1, <2>2
<1>3. /\ Redis!Del(key, k) \in [Keys -> Redis!Live(V)] /\ Redis!Del(key, k)[k] = Nil
      /\ \A j \in Keys \ {k} : Redis!Del(key, k)[j] = key[j]
  BY DEF Redis!Del, Redis!Live
<1>. QED
  BY <1>1, <1>2, <1>3

(* Types, and what RedisInv says of the two halves *)
LEMMA RedisTypes ==
  ASSUME Redis!RedisAssumption, Redis!TypeOK
  PROVE  /\ stateKey \in [Keys -> Redis!Live(SomeStates)]
         /\ dataKey \in [Keys -> Redis!Live(SomeData)]
         /\ SomeStates \in SUBSET (States \cup Redis!Data)
         /\ SomeData \in SUBSET (States \cup Redis!Data)
         /\ pc \in [RedisHandlers -> {"out", "handler", "merging"}]
         /\ idle \in [Keys -> 0..RedisTTL] /\ RedisTTL \in Nat
         /\ call \in [RedisHandlers -> Redis!Calls \cup {Nil}]
         /\ \A h \in RedisHandlers : call[h] \in IF pc[h] = "merging" THEN Redis!Calls ELSE {Nil}
         /\ \A h \in RedisHandlers : OwnKey[h] \in Keys
BY DEF Redis!TypeOK, SomeStates, SomeData, Redis!RedisAssumption
(* The commands, on what the two halves are now *)
LEMMA Commands ==
  ASSUME Redis!RedisAssumption, RedisInv, NEW k \in Keys
  PROVE  /\ Redis!GetEx(stateKey, k) \in [Keys -> Redis!Live(SomeStates)]
         /\ Redis!GetEx(stateKey, k)[k] = Nil <=> stateKey[k] = Nil
         /\ stateKey[k] # Nil => Redis!GetEx(stateKey, k)[k].val = stateKey[k].val
         /\ \A j \in Keys \ {k} : Redis!GetEx(stateKey, k)[j] = stateKey[j]
         /\ Redis!Del(stateKey, k) \in [Keys -> Redis!Live(SomeStates)]
         /\ Redis!Del(stateKey, k)[k] = Nil
         /\ \A j \in Keys \ {k} : Redis!Del(stateKey, k)[j] = stateKey[j]
         /\ \A d \in SomeData :
              /\ Redis!Set(dataKey, k, d) \in [Keys -> Redis!Live(SomeData)]
              /\ Redis!Set(dataKey, k, d)[k] # Nil /\ Redis!Set(dataKey, k, d)[k].val = d
              /\ \A j \in Keys \ {k} : Redis!Set(dataKey, k, d)[j] = dataKey[j]
         /\ Redis!GetEx(dataKey, k) \in [Keys -> Redis!Live(SomeData)]
         /\ Redis!GetEx(dataKey, k)[k] = Nil <=> dataKey[k] = Nil
         /\ dataKey[k] # Nil => Redis!GetEx(dataKey, k)[k].val = dataKey[k].val
         /\ \A j \in Keys \ {k} : Redis!GetEx(dataKey, k)[j] = dataKey[j]
         /\ Redis!Del(dataKey, k) \in [Keys -> Redis!Live(SomeData)]
         /\ Redis!Del(dataKey, k)[k] = Nil
         /\ \A j \in Keys \ {k} : Redis!Del(dataKey, k)[j] = dataKey[j]
<1>1. /\ stateKey \in [Keys -> Redis!Live(SomeStates)]
      /\ dataKey \in [Keys -> Redis!Live(SomeData)]
      /\ SomeStates \in SUBSET (States \cup Redis!Data)
      /\ SomeData \in SUBSET (States \cup Redis!Data)
  BY RedisTypes DEF RedisInv
<1>2. /\ Redis!GetEx(stateKey, k) \in [Keys -> Redis!Live(SomeStates)]
      /\ Redis!GetEx(stateKey, k)[k] = Nil <=> stateKey[k] = Nil
      /\ stateKey[k] # Nil => Redis!GetEx(stateKey, k)[k].val = stateKey[k].val
      /\ \A j \in Keys \ {k} : Redis!GetEx(stateKey, k)[j] = stateKey[j]
  BY <1>1, CommandTypes
<1>3. /\ Redis!Del(stateKey, k) \in [Keys -> Redis!Live(SomeStates)]
      /\ Redis!Del(stateKey, k)[k] = Nil
      /\ \A j \in Keys \ {k} : Redis!Del(stateKey, k)[j] = stateKey[j]
  BY <1>1, CommandTypes
<1>4. \A d \in SomeData :
        /\ Redis!Set(dataKey, k, d) \in [Keys -> Redis!Live(SomeData)]
        /\ Redis!Set(dataKey, k, d)[k] # Nil /\ Redis!Set(dataKey, k, d)[k].val = d
        /\ \A j \in Keys \ {k} : Redis!Set(dataKey, k, d)[j] = dataKey[j]
  BY <1>1, CommandTypes
<1>5. /\ Redis!GetEx(dataKey, k) \in [Keys -> Redis!Live(SomeData)]
      /\ Redis!GetEx(dataKey, k)[k] = Nil <=> dataKey[k] = Nil
      /\ dataKey[k] # Nil => Redis!GetEx(dataKey, k)[k].val = dataKey[k].val
      /\ \A j \in Keys \ {k} : Redis!GetEx(dataKey, k)[j] = dataKey[j]
  BY <1>1, CommandTypes
<1>6. /\ Redis!Del(dataKey, k) \in [Keys -> Redis!Live(SomeData)]
      /\ Redis!Del(dataKey, k)[k] = Nil
      /\ \A j \in Keys \ {k} : Redis!Del(dataKey, k)[j] = dataKey[j]
  BY <1>1 DEF Redis!Del, Redis!Live
<1>. QED
  BY <1>2, <1>3, <1>4, <1>5, <1>6

(* A goroutine's step on its own conversation, which is nobody else's now    *)
LEMMA OwnStep ==
  ASSUME Redis!RedisAssumption, RedisInv, NEW h \in RedisHandlers, pc[h] # "out",
         NEW p \in {"out", "handler", "merging"}, pc' = [pc EXCEPT ![h] = p],
         NEW c \in IF p = "merging" THEN Redis!Calls ELSE {Nil},
         call' = [call EXCEPT ![h] = c],
         p = "merging" => c.key = OwnKey[h],
         p = "merging" => c.merged = Redis!Promise!Merge(Redis!Map(OwnKey[h])', c.partial),
         stateKey' \in [Keys -> Redis!Live(SomeStates)],
         dataKey' \in [Keys -> Redis!Live(SomeData)],
         \A j \in Keys \ {OwnKey[h]} : dataKey'[j] = dataKey[j],
         idle' \in [Keys -> 0..RedisTTL]
  PROVE  RedisInv'
<1>1. Redis!TypeOK /\ Excluded /\ Merged
  BY DEF RedisInv
<1>2. /\ pc \in [RedisHandlers -> {"out", "handler", "merging"}]
      /\ call \in [RedisHandlers -> Redis!Calls \cup {Nil}]
      /\ \A g \in RedisHandlers : call[g] \in IF pc[g] = "merging" THEN Redis!Calls ELSE {Nil}
      /\ \A g \in RedisHandlers : OwnKey[g] \in Keys
  BY <1>1, RedisTypes
<1>3. /\ pc' \in [RedisHandlers -> {"out", "handler", "merging"}]
      /\ call' \in [RedisHandlers -> Redis!Calls \cup {Nil}]
      /\ \A g \in RedisHandlers : call'[g] \in IF pc'[g] = "merging" THEN Redis!Calls ELSE {Nil}
  BY <1>2
<1>4. Redis!TypeOK'
  BY <1>3 DEF Redis!TypeOK, SomeStates, SomeData
<1>5. Excluded'
  BY <1>1, <1>2 DEF Excluded
<1>6. Merged'
  <2>1. ASSUME NEW g \in RedisHandlers, g # h, pc[g] = "merging"
        PROVE  /\ call[g].key = OwnKey[g] /\ Redis!Map(call[g].key)' = Redis!Map(call[g].key)
               /\ call'[g] = call[g]
    <3>1. call[g].key = OwnKey[g] /\ OwnKey[g] # OwnKey[h]
      BY <1>1, <2>1 DEF Excluded, Merged
    <3>2. call'[g] = call[g]
      BY <1>2, <2>1
    <3>. QED
      BY <1>2, <3>1, <3>2 DEF Redis!Map, Redis!EmptyMap
  <2>2. ASSUME NEW g \in RedisHandlers, g # h, pc'[g] = "merging"
        PROVE  /\ call'[g].key = OwnKey[g]
               /\ call'[g].merged = Redis!Promise!Merge(Redis!Map(call[g].key)', call'[g].partial)
    <3>1. pc[g] = "merging"
      BY <1>2, <2>2
    <3>. QED
      BY <1>1, <2>1, <2>2, <3>1 DEF Merged
  <2>3. ASSUME pc'[h] = "merging"
        PROVE  /\ call'[h].key = OwnKey[h]
               /\ call'[h].merged = Redis!Promise!Merge(Redis!Map(call[h].key)', call'[h].partial)
    BY <1>2, <2>3
  <2>. QED
    BY <2>2, <2>3 DEF Merged
<1>. QED
  BY <1>4, <1>5, <1>6 DEF RedisInv

(* What is seen of one conversation changes, or nothing is. *)
LEMMA SeenEXCEPT ==
  ASSUME NEW k \in Keys, NEW s, NEW d,
         Redis!State(k)' = s, Redis!Map(k)' = d,
         \A j \in Keys \ {k} :
           Redis!State(j)' = Redis!State(j) /\ Redis!Map(j)' = Redis!Map(j)
  PROVE  /\ Seen' = [Seen EXCEPT ![k] = [state |-> s, data |-> d]]
         /\ s = Redis!State(k) => Seen' = [Seen EXCEPT ![k].data = d]
         /\ d = Redis!Map(k) => Seen' = [Seen EXCEPT ![k].state = s]
         /\ s = Redis!State(k) /\ d = Redis!Map(k) => Seen' = Seen
<1>1. Seen[k] = [state |-> Redis!State(k), data |-> Redis!Map(k)]
  BY DEF Seen
<1>2. Seen' = [Seen EXCEPT ![k] = [state |-> s, data |-> d]]
  BY DEF Seen
<1>3. ASSUME s = Redis!State(k)
      PROVE  [Seen[k] EXCEPT !.data = d] = [state |-> s, data |-> d]
  BY <1>1, <1>3, Replaced
<1>4. ASSUME d = Redis!Map(k) PROVE [Seen[k] EXCEPT !.state = s] = [state |-> s, data |-> d]
  BY <1>1, <1>4, Replaced
<1>5. ASSUME s = Redis!State(k), d = Redis!Map(k) PROVE Seen' = Seen
  BY <1>1, <1>2, <1>5 DEF Seen
<1>. QED
  BY <1>2, <1>3, <1>4, <1>5
(* One command on one's own conversation *)
LEMMA CommandInv ==
  ASSUME Redis!RedisAssumption, OwnOnly, RedisInv, NEW h \in RedisHandlers, NEW k \in Keys,
         Redis!Uses(h, k),
         stateKey' \in [Keys -> Redis!Live(SomeStates)],
         dataKey' \in [Keys -> Redis!Live(SomeData)],
         \A j \in Keys \ {k} : dataKey'[j] = dataKey[j],
         idle' = [idle EXCEPT ![k] = 0], pc' = pc, call' = call
  PROVE  RedisInv'
<1>1. /\ pc \in [RedisHandlers -> {"out", "handler", "merging"}] /\ idle \in [Keys -> 0..RedisTTL]
      /\ RedisTTL \in Nat
      /\ call \in [RedisHandlers -> Redis!Calls \cup {Nil}]
      /\ \A g \in RedisHandlers : call[g] \in IF pc[g] = "merging" THEN Redis!Calls ELSE {Nil}
  BY RedisTypes DEF RedisInv
<1>2. k = OwnKey[h] /\ pc[h] = "handler"
  BY DEF Redis!Uses, OwnOnly
<1>3. call[h] = Nil
  BY <1>1, <1>2
<1>4. /\ pc' = [pc EXCEPT ![h] = "handler"] /\ call' = [call EXCEPT ![h] = Nil]
      /\ idle' \in [Keys -> 0..RedisTTL]
  BY <1>1, <1>2, <1>3
<1>5. /\ "handler" \in {"out", "handler", "merging"} /\ "handler" # "merging"
      /\ Nil \in IF "handler" = "merging" THEN Redis!Calls ELSE {Nil}
  OBVIOUS
<1>. QED
  BY <1>2, <1>4, <1>5, OwnStep

LEMMA RedisSetState ==
  ASSUME Redis!RedisAssumption, OwnOnly, RedisInv, NEW h \in RedisHandlers, NEW k \in Keys,
         NEW s \in States, Redis!SetState(h, k, s)
  PROVE  RedisInv' /\ Redis!Promise!SetState(k, s)
<1>1. /\ Redis!Uses(h, k)
      /\ stateKey' = IF s = NoState THEN Redis!Del(stateKey, k) ELSE Redis!Set(stateKey, k, s)
      /\ idle' = [idle EXCEPT ![k] = 0] /\ last' = <<"SetState", k, s>>
      /\ dataKey' = dataKey /\ pc' = pc /\ call' = call
  BY DEF Redis!SetState, Redis!Called
<1>2. /\ stateKey \in [Keys -> Redis!Live(SomeStates)]
      /\ dataKey \in [Keys -> Redis!Live(SomeData)]
      /\ SomeStates \in SUBSET (States \cup Redis!Data)
  BY RedisTypes DEF RedisInv
<1>3. /\ stateKey' \in [Keys -> Redis!Live(SomeStates)]
      /\ \A j \in Keys \ {k} : stateKey'[j] = stateKey[j]
      /\ IF s = NoState THEN stateKey'[k] = Nil ELSE stateKey'[k] # Nil /\ stateKey'[k].val = s
  <2>1. CASE s = NoState
    BY <1>1, <1>2, <2>1, CommandTypes
  <2>2. CASE s # NoState
    <3>1. s \in SomeStates
      BY <2>2 DEF SomeStates
    <3>. QED
      BY <1>1, <1>2, <2>2, <3>1, CommandTypes
  <2>. QED
    BY <2>1, <2>2
<1>4. RedisInv'
  BY <1>1, <1>2, <1>3, CommandInv
<1>5. Seen' = [Seen EXCEPT ![k].state = s]
  <2>1. Redis!State(k)' = s
    BY <1>3 DEF Redis!State
  <2>2. /\ Redis!Map(k)' = Redis!Map(k)
        /\ \A j \in Keys \ {k} : Redis!State(j)' = Redis!State(j) /\ Redis!Map(j)' = Redis!Map(j)
    BY <1>1, <1>3 DEF Redis!State, Redis!Map, Redis!EmptyMap
  <2>. QED
    BY <2>1, <2>2, SeenEXCEPT
<1>. QED
  BY <1>1, <1>4, <1>5 DEF Seen, Redis!Promise!SetState, Redis!Promise!Touch

LEMMA RedisGetState ==
  ASSUME Redis!RedisAssumption, OwnOnly, RedisInv, NEW h \in RedisHandlers, NEW k \in Keys,
         Redis!GetState(h, k)
  PROVE  RedisInv' /\ Redis!Promise!GetState(k)
<1>1. /\ Redis!Uses(h, k) /\ stateKey' = Redis!GetEx(stateKey, k)
      /\ idle' = [idle EXCEPT ![k] = 0] /\ last' = <<"GetState", k, Redis!State(k)>>
      /\ dataKey' = dataKey /\ pc' = pc /\ call' = call
  BY DEF Redis!GetState, Redis!Called
<1>2. /\ stateKey \in [Keys -> Redis!Live(SomeStates)]
      /\ dataKey \in [Keys -> Redis!Live(SomeData)]
      /\ SomeStates \in SUBSET (States \cup Redis!Data)
  BY RedisTypes DEF RedisInv
<1>3. /\ stateKey' \in [Keys -> Redis!Live(SomeStates)]
      /\ \A j \in Keys \ {k} : stateKey'[j] = stateKey[j]
      /\ stateKey'[k] = Nil <=> stateKey[k] = Nil
      /\ stateKey[k] # Nil => stateKey'[k].val = stateKey[k].val
  BY <1>1, <1>2, Commands
<1>4. RedisInv'
  BY <1>1, <1>2, <1>3, CommandInv
<1>5. \A j \in Keys : Redis!State(j)' = Redis!State(j) /\ Redis!Map(j)' = Redis!Map(j)
  BY <1>1, <1>3 DEF Redis!State, Redis!Map, Redis!EmptyMap
<1>6. Seen' = Seen /\ Seen[k].state = Redis!State(k)
  BY <1>5 DEF Seen
<1>. QED
  BY <1>1, <1>4, <1>6 DEF Seen, Redis!Promise!GetState, Redis!Promise!Touch

LEMMA RedisSetData ==
  ASSUME Redis!RedisAssumption, OwnOnly, RedisInv, NEW h \in RedisHandlers, NEW k \in Keys,
         NEW d \in Redis!Data, Redis!SetData(h, k, d)
  PROVE  RedisInv' /\ Redis!Promise!SetData(k, d)
<1>1. /\ Redis!Uses(h, k) /\ Redis!Promise!Marshalable(d) /\ dataKey' = Redis!Set(dataKey, k, d)
      /\ idle' = [idle EXCEPT ![k] = 0] /\ last' = <<"SetData", k, d>>
      /\ stateKey' = stateKey /\ pc' = pc /\ call' = call
  BY DEF Redis!SetData, Redis!Called
<1>2. /\ stateKey \in [Keys -> Redis!Live(SomeStates)]
      /\ dataKey \in [Keys -> Redis!Live(SomeData)]
      /\ SomeData \in SUBSET (States \cup Redis!Data)
  BY RedisTypes DEF RedisInv
<1>3. d \in SomeData
  BY <1>1 DEF SomeData
<1>4. /\ dataKey' \in [Keys -> Redis!Live(SomeData)]
      /\ \A j \in Keys \ {k} : dataKey'[j] = dataKey[j]
      /\ dataKey'[k] # Nil /\ dataKey'[k].val = d
  BY <1>1, <1>2, <1>3, Commands
<1>5. RedisInv'
  BY <1>1, <1>2, <1>4, CommandInv
<1>6. Seen' = [Seen EXCEPT ![k].data = d]
  <2>1. Redis!Map(k)' = d
    BY <1>4 DEF Redis!Map
  <2>2. /\ Redis!State(k)' = Redis!State(k)
        /\ \A j \in Keys \ {k} : Redis!State(j)' = Redis!State(j) /\ Redis!Map(j)' = Redis!Map(j)
    BY <1>1, <1>4 DEF Redis!State, Redis!Map, Redis!EmptyMap
  <2>. QED
    BY <2>1, <2>2, SeenEXCEPT
<1>. QED
  BY <1>1, <1>5, <1>6 DEF Seen, Redis!Promise!SetData, Redis!Promise!Touch

(* GETEX of the data *)
LEMMA DataRead ==
  ASSUME Redis!RedisAssumption, RedisInv, NEW k \in Keys,
         dataKey' = Redis!GetEx(dataKey, k), stateKey' = stateKey
  PROVE  /\ dataKey' \in [Keys -> Redis!Live(SomeData)]
         /\ \A j \in Keys \ {k} : dataKey'[j] = dataKey[j]
         /\ Redis!Map(k)' = Redis!Map(k)
         /\ Seen' = Seen /\ Seen[k].data = Redis!Map(k)
<1>1. /\ dataKey \in [Keys -> Redis!Live(SomeData)]
      /\ SomeData \in SUBSET (States \cup Redis!Data)
  BY RedisTypes DEF RedisInv
<1>2. /\ dataKey' \in [Keys -> Redis!Live(SomeData)]
      /\ \A j \in Keys \ {k} : dataKey'[j] = dataKey[j]
      /\ dataKey'[k] = Nil <=> dataKey[k] = Nil
      /\ dataKey[k] # Nil => dataKey'[k].val = dataKey[k].val
  BY <1>1, Commands
<1>3. \A j \in Keys : Redis!State(j)' = Redis!State(j) /\ Redis!Map(j)' = Redis!Map(j)
  BY <1>2 DEF Redis!State, Redis!Map, Redis!EmptyMap
<1>4. Seen' = Seen /\ Seen[k].data = Redis!Map(k)
  BY <1>3 DEF Seen
<1>. QED
  BY <1>2, <1>3, <1>4

LEMMA RedisGetData ==
  ASSUME Redis!RedisAssumption, OwnOnly, RedisInv, NEW h \in RedisHandlers, NEW k \in Keys,
         Redis!GetData(h, k)
  PROVE  RedisInv' /\ Redis!Promise!GetData(k)
<1>1. /\ Redis!Uses(h, k) /\ dataKey' = Redis!GetEx(dataKey, k)
      /\ idle' = [idle EXCEPT ![k] = 0] /\ last' = <<"GetData", k, Redis!Map(k)>>
      /\ stateKey' = stateKey /\ pc' = pc /\ call' = call
  BY DEF Redis!GetData, Redis!Called
<1>2. stateKey \in [Keys -> Redis!Live(SomeStates)]
  BY RedisTypes DEF RedisInv
<1>3. /\ dataKey' \in [Keys -> Redis!Live(SomeData)]
      /\ \A j \in Keys \ {k} : dataKey'[j] = dataKey[j]
      /\ Seen' = Seen /\ Seen[k].data = Redis!Map(k)
  BY <1>1, DataRead
<1>4. RedisInv'
  BY <1>1, <1>2, <1>3, CommandInv
<1>. QED
  BY <1>1, <1>3, <1>4 DEF Seen, Redis!Promise!GetData, Redis!Promise!Touch

LEMMA RedisClear ==
  ASSUME Redis!RedisAssumption, OwnOnly, RedisInv, NEW h \in RedisHandlers, NEW k \in Keys,
         Redis!Clear(h, k)
  PROVE  RedisInv' /\ Redis!Promise!Clear(k)
<1>1. /\ Redis!Uses(h, k)
      /\ stateKey' = Redis!Del(stateKey, k) /\ dataKey' = Redis!Del(dataKey, k)
      /\ idle' = [idle EXCEPT ![k] = 0] /\ last' = <<"Clear", k>> /\ pc' = pc /\ call' = call
  BY DEF Redis!Clear, Redis!Called
<1>2. /\ stateKey \in [Keys -> Redis!Live(SomeStates)]
      /\ dataKey \in [Keys -> Redis!Live(SomeData)]
      /\ SomeStates \in SUBSET (States \cup Redis!Data)
      /\ SomeData \in SUBSET (States \cup Redis!Data)
  BY RedisTypes DEF RedisInv
<1>3. /\ stateKey' \in [Keys -> Redis!Live(SomeStates)] /\ stateKey'[k] = Nil
      /\ \A j \in Keys \ {k} : stateKey'[j] = stateKey[j]
  BY <1>1, <1>2, Commands
<1>4. /\ dataKey' \in [Keys -> Redis!Live(SomeData)] /\ dataKey'[k] = Nil
      /\ \A j \in Keys \ {k} : dataKey'[j] = dataKey[j]
  BY <1>1, <1>2, Commands
<1>5. RedisInv'
  BY <1>1, <1>3, <1>4, CommandInv
<1>6. Seen' = [Seen EXCEPT ![k] = Redis!Promise!NoConversation]
  <2>1. Redis!State(k)' = NoState /\ Redis!Map(k)' = Redis!EmptyMap
    BY <1>3, <1>4 DEF Redis!State, Redis!Map, Redis!EmptyMap
  <2>2. \A j \in Keys \ {k} : Redis!State(j)' = Redis!State(j) /\ Redis!Map(j)' = Redis!Map(j)
    BY <1>3, <1>4 DEF Redis!State, Redis!Map, Redis!EmptyMap
  <2>3. Redis!Promise!NoConversation = [state |-> NoState, data |-> Redis!EmptyMap]
    BY DEF Redis!Promise!NoConversation, Redis!Promise!EmptyMap, Redis!EmptyMap
  <2>. QED
    BY <2>1, <2>2, <2>3, SeenEXCEPT
<1>. QED
  BY <1>1, <1>5, <1>6 DEF Seen, Redis!Promise!Clear, Redis!Promise!Touch
LEMMA RedisUpdateDataReads ==
  ASSUME Redis!RedisAssumption, OwnOnly, RedisInv, NEW h \in RedisHandlers, NEW k \in Keys,
         NEW d \in Redis!Data, Redis!UpdateDataReads(h, k, d)
  PROVE  RedisInv' /\ Redis!Promise!GetData(k)
<1>. PICK c : c = [key |-> k, partial |-> d, merged |-> Redis!Promise!Merge(Redis!Map(k), d)]
  OBVIOUS
<1>1. /\ Redis!Uses(h, k) /\ dataKey' = Redis!GetEx(dataKey, k)
      /\ pc' = [pc EXCEPT ![h] = "merging"] /\ call' = [call EXCEPT ![h] = c]
      /\ idle' = [idle EXCEPT ![k] = 0] /\ last' = <<"GetData", k, Redis!Map(k)>>
      /\ stateKey' = stateKey
  BY DEF Redis!UpdateDataReads, Redis!Called
<1>2. k = OwnKey[h] /\ pc[h] = "handler"
  BY <1>1 DEF Redis!Uses, OwnOnly
<1>3. /\ stateKey \in [Keys -> Redis!Live(SomeStates)]
      /\ dataKey \in [Keys -> Redis!Live(SomeData)]
      /\ idle \in [Keys -> 0..RedisTTL] /\ RedisTTL \in Nat
  BY RedisTypes DEF RedisInv
<1>4. /\ dataKey' \in [Keys -> Redis!Live(SomeData)]
      /\ \A j \in Keys \ {k} : dataKey'[j] = dataKey[j]
      /\ Redis!Map(k)' = Redis!Map(k)
      /\ Seen' = Seen /\ Seen[k].data = Redis!Map(k)
  BY <1>1, DataRead
<1>5. Redis!Map(k) \in Redis!Data
  BY <1>3, EmptyIsSomeData DEF Redis!Map, Redis!Live, SomeData
<1>6. Redis!Promise!Merge(Redis!Map(k), d) \in Redis!Data
  BY <1>5 DEF Redis!Promise!Merge, Redis!Data, Redis!Promise!Data
<1>7. /\ "merging" \in {"out", "handler", "merging"} /\ pc[h] # "out"
      /\ c \in IF "merging" = "merging" THEN Redis!Calls ELSE {Nil}
      /\ c.key = OwnKey[h]
      /\ idle' \in [Keys -> 0..RedisTTL]
  BY <1>1, <1>2, <1>3, <1>6 DEF Redis!Calls
<1>8. c.merged = Redis!Promise!Merge(Redis!Map(OwnKey[h])', c.partial)
  BY <1>2, <1>4
<1>9. stateKey' \in [Keys -> Redis!Live(SomeStates)]
  BY <1>1, <1>3
<1>10. RedisInv'
  BY <1>1, <1>2, <1>4, <1>7, <1>8, <1>9, OwnStep
<1>. QED
  BY <1>1, <1>4, <1>10 DEF Seen, Redis!Promise!GetData, Redis!Promise!Touch

LEMMA RedisUpdateDataWrites ==
  ASSUME Redis!RedisAssumption, RedisInv, NEW h \in RedisHandlers,
         Redis!UpdateDataWrites(h),
         NEW k, k = call[h].key, NEW d, d = call[h].partial
  PROVE  /\ RedisInv'
         /\ k \in Keys /\ d \in Redis!Data /\ Redis!Promise!UpdateData(k, d)
<1>. PICK m : m = call[h].merged
  OBVIOUS
<1>1. /\ pc[h] = "merging" /\ Redis!Promise!Marshalable(m) /\ dataKey' = Redis!Set(dataKey, k, m)
      /\ pc' = [pc EXCEPT ![h] = "handler"] /\ call' = [call EXCEPT ![h] = Nil]
      /\ idle' = [idle EXCEPT ![k] = 0] /\ last' = <<"UpdateData", k, d, m>>
      /\ stateKey' = stateKey
  BY DEF Redis!UpdateDataWrites, Redis!Called
<1>2. /\ stateKey \in [Keys -> Redis!Live(SomeStates)]
      /\ dataKey \in [Keys -> Redis!Live(SomeData)]
      /\ idle \in [Keys -> 0..RedisTTL] /\ RedisTTL \in Nat
      /\ \A g \in RedisHandlers : call[g] \in IF pc[g] = "merging" THEN Redis!Calls ELSE {Nil}
  BY RedisTypes DEF RedisInv
<1>3. k \in Keys /\ d \in Redis!Data /\ m \in SomeData
  BY <1>1, <1>2 DEF Redis!Calls, SomeData, Redis!Promise!Marshalable
<1>4. k = OwnKey[h] /\ m = Redis!Promise!Merge(Redis!Map(k), d)
  BY <1>1 DEF RedisInv, Merged
<1>5. /\ dataKey' \in [Keys -> Redis!Live(SomeData)]
      /\ \A j \in Keys \ {k} : dataKey'[j] = dataKey[j]
      /\ dataKey'[k] # Nil /\ dataKey'[k].val = m
  BY <1>1, <1>3, Commands
<1>6. /\ "handler" \in {"out", "handler", "merging"} /\ pc[h] # "out" /\ "handler" # "merging"
      /\ Nil \in IF "handler" = "merging" THEN Redis!Calls ELSE {Nil}
      /\ idle' \in [Keys -> 0..RedisTTL] /\ stateKey' \in [Keys -> Redis!Live(SomeStates)]
  <2>1. idle' \in [Keys -> 0..RedisTTL]
    <3>1. idle' = [idle EXCEPT ![k] = 0] /\ idle \in [Keys -> 0..RedisTTL] /\ 0 \in 0..RedisTTL
      BY <1>1, <1>2
    <3>. QED
      BY <3>1
  <2>2. pc[h] # "out" /\ stateKey' \in [Keys -> Redis!Live(SomeStates)]
    BY <1>1, <1>2
  <2>. QED
    BY <2>1, <2>2
<1>7. RedisInv'
  BY <1>1, <1>4, <1>5, <1>6, OwnStep
<1>8. Seen' = [Seen EXCEPT ![k].data = m]
  <2>1. Redis!Map(k)' = m
    BY <1>5 DEF Redis!Map
  <2>2. /\ Redis!State(k)' = Redis!State(k)
        /\ \A j \in Keys \ {k} : Redis!State(j)' = Redis!State(j) /\ Redis!Map(j)' = Redis!Map(j)
    BY <1>1, <1>5 DEF Redis!State, Redis!Map, Redis!EmptyMap
  <2>. QED
    BY <1>3, <2>1, <2>2, SeenEXCEPT
<1>9. m = Redis!Promise!Merge(Seen[k].data, d)
  BY <1>3, <1>4 DEF Seen
<1>10. Redis!Promise!UpdateData(k, d)
  BY <1>1, <1>8, <1>9 DEF Seen, Redis!Promise!UpdateData, Redis!Promise!Touch
<1>. QED
  BY <1>3, <1>7, <1>10

LEMMA RedisUpdateDataFails ==
  ASSUME Redis!RedisAssumption, RedisInv, NEW h \in RedisHandlers, Redis!UpdateDataFails(h),
         NEW k, k = call[h].key
  PROVE  RedisInv' /\ k \in Keys /\ Redis!Promise!Fail(k)
<1>1. /\ pc[h] = "merging"
      /\ pc' = [pc EXCEPT ![h] = "handler"] /\ call' = [call EXCEPT ![h] = Nil]
      /\ last' = <<"error", k>> /\ stateKey' = stateKey /\ dataKey' = dataKey /\ idle' = idle
  BY DEF Redis!UpdateDataFails
<1>2. /\ stateKey \in [Keys -> Redis!Live(SomeStates)]
      /\ dataKey \in [Keys -> Redis!Live(SomeData)]
      /\ idle \in [Keys -> 0..RedisTTL]
      /\ \A g \in RedisHandlers : call[g] \in IF pc[g] = "merging" THEN Redis!Calls ELSE {Nil}
  BY RedisTypes DEF RedisInv
<1>3. k \in Keys
  BY <1>1, <1>2 DEF Redis!Calls
<1>4. /\ "handler" \in {"out", "handler", "merging"} /\ pc[h] # "out" /\ "handler" # "merging"
      /\ Nil \in IF "handler" = "merging" THEN Redis!Calls ELSE {Nil}
      /\ idle' \in [Keys -> 0..RedisTTL] /\ stateKey' \in [Keys -> Redis!Live(SomeStates)]
      /\ dataKey' \in [Keys -> Redis!Live(SomeData)]
      /\ \A j \in Keys \ {OwnKey[h]} : dataKey'[j] = dataKey[j]
  BY <1>1, <1>2
<1>5. RedisInv'
  BY <1>1, <1>4, OwnStep
<1>6. Seen' = Seen
  BY <1>1 DEF Seen, Redis!State, Redis!Map, Redis!EmptyMap
<1>. QED
  BY <1>1, <1>3, <1>5, <1>6 DEF Seen, Redis!Promise!Fail

(* Updates come and go, and the process may die, with what is stored as it is. *)
LEMMA RedisDispatch ==
  ASSUME Redis!RedisAssumption, RedisInv,
         \/ \E h \in RedisHandlers : Redis!Dispatch(h) \/ Redis!Return(h)
         \/ Redis!Crash
         \/ UNCHANGED Redis!vars
  PROVE  RedisInv' /\ UNCHANGED <<Seen, idle, last>>
<1>1. /\ pc \in [RedisHandlers -> {"out", "handler", "merging"}]
      /\ call \in [RedisHandlers -> Redis!Calls \cup {Nil}]
      /\ \A h \in RedisHandlers : call[h] \in IF pc[h] = "merging" THEN Redis!Calls ELSE {Nil}
  BY RedisTypes DEF RedisInv
<1>2. /\ stateKey' = stateKey /\ dataKey' = dataKey /\ idle' = idle /\ last' = last
  BY DEF Redis!Dispatch, Redis!Return, Redis!Crash, Redis!vars
<1>3. /\ pc' \in [RedisHandlers -> {"out", "handler", "merging"}]
      /\ call' \in [RedisHandlers -> Redis!Calls \cup {Nil}]
      /\ \A h \in RedisHandlers : call'[h] \in IF pc'[h] = "merging" THEN Redis!Calls ELSE {Nil}
      /\ \A h \in RedisHandlers : pc'[h] = "merging" => pc[h] = "merging" /\ call'[h] = call[h]
  BY <1>1 DEF Redis!Dispatch, Redis!Return, Redis!Crash, Redis!vars
<1>4. Redis!TypeOK'
  BY <1>2, <1>3 DEF RedisInv, Redis!TypeOK
<1>5. Excluded'
  BY <1>1 DEF RedisInv, Excluded, Redis!Dispatch, Redis!Return, Redis!Crash, Redis!vars
<1>6. Merged'
  BY <1>2, <1>3 DEF RedisInv, Merged, Redis!Map, Redis!EmptyMap
<1>7. Seen' = Seen
  BY <1>2 DEF Seen, Redis!State, Redis!Map, Redis!EmptyMap
<1>. QED
  BY <1>2, <1>4, <1>5, <1>6, <1>7 DEF RedisInv

LEMMA RedisTick ==
  ASSUME Redis!RedisAssumption, RedisInv, Redis!Tick
  PROVE  RedisInv'
<1>1. /\ \A h \in RedisHandlers : pc[h] # "merging"
      /\ stateKey' = [k \in Keys |-> Redis!Aged(stateKey[k])]
      /\ dataKey' = [k \in Keys |-> Redis!Aged(dataKey[k])]
      /\ idle' = [k \in Keys |-> IF idle[k] < RedisTTL THEN idle[k] + 1 ELSE RedisTTL]
      /\ pc' = pc /\ call' = call
  BY DEF Redis!Tick
<1>2. /\ stateKey \in [Keys -> Redis!Live(SomeStates)]
      /\ dataKey \in [Keys -> Redis!Live(SomeData)]
      /\ idle \in [Keys -> 0..RedisTTL] /\ RedisTTL \in Nat
  BY RedisTypes DEF RedisInv
<1>3. ASSUME NEW V, NEW l \in Redis!Live(V) PROVE Redis!Aged(l) \in Redis!Live(V)
  <2>1. CASE l = Nil \/ l.ttl = 1
    BY <2>1 DEF Redis!Aged, Redis!Live
  <2>2. CASE ~(l = Nil \/ l.ttl = 1)
    <3>1. PICK v \in V, t \in 0..RedisTTL : l = [val |-> v, ttl |-> t]
      BY <1>3, <2>2 DEF Redis!Live
    <3>2. Redis!Aged(l) = [val |-> v, ttl |-> IF t = 0 THEN 0 ELSE t - 1]
      BY <2>2, <3>1 DEF Redis!Aged
    <3>3. (IF t = 0 THEN 0 ELSE t - 1) \in 0..RedisTTL
      BY <1>2, <3>1
    <3>. QED
      BY <3>1, <3>2, <3>3 DEF Redis!Live
  <2>. QED
    BY <2>1, <2>2
<1>4. /\ stateKey' \in [Keys -> Redis!Live(SomeStates)]
      /\ dataKey' \in [Keys -> Redis!Live(SomeData)]
  BY <1>1, <1>2, <1>3
<1>5. idle' \in [Keys -> 0..RedisTTL]
  BY <1>1, <1>2
<1>6. Redis!TypeOK'
  BY <1>1, <1>4, <1>5 DEF RedisInv, Redis!TypeOK, SomeStates, SomeData
<1>. QED
  BY <1>1, <1>6 DEF RedisInv, Excluded, Merged

LEMMA RedisStep ==
  ASSUME Redis!RedisAssumption, OwnOnly, RedisInv, [Redis!Next]_(Redis!vars)
  PROVE  /\ RedisInv'
         /\ Redis!Promise!Next \/ Redis!Tick \/ UNCHANGED Redis!Promise!vars
<1>1. ASSUME NEW h \in RedisHandlers, NEW k \in Keys, NEW s \in States,
             Redis!SetState(h, k, s)
      PROVE  RedisInv' /\ Redis!Promise!Call
  BY <1>1, RedisSetState DEF Redis!Promise!Call
<1>2. ASSUME NEW h \in RedisHandlers, NEW k \in Keys, NEW d \in Redis!Data,
             Redis!SetData(h, k, d)
      PROVE  RedisInv' /\ Redis!Promise!Call
  BY <1>2, RedisSetData DEF Redis!Promise!Call, Redis!Data
<1>3. ASSUME NEW h \in RedisHandlers, NEW k \in Keys, NEW d \in Redis!Data,
             Redis!UpdateDataReads(h, k, d)
      PROVE  RedisInv' /\ Redis!Promise!Call
  BY <1>3, RedisUpdateDataReads DEF Redis!Promise!Call
<1>4. ASSUME NEW h \in RedisHandlers, NEW k \in Keys,
             Redis!GetState(h, k) \/ Redis!GetData(h, k) \/ Redis!Clear(h, k)
      PROVE  RedisInv' /\ Redis!Promise!Call
  BY <1>4, RedisGetState, RedisGetData, RedisClear DEF Redis!Promise!Call
<1>5. ASSUME NEW h \in RedisHandlers, Redis!UpdateDataWrites(h)
      PROVE  RedisInv' /\ Redis!Promise!Call
  <2>. PICK k, d : k = call[h].key /\ d = call[h].partial
    OBVIOUS
  <2>1. RedisInv' /\ k \in Keys /\ d \in Redis!Data /\ Redis!Promise!UpdateData(k, d)
    BY <1>5, RedisUpdateDataWrites
  <2>. QED
    BY <2>1 DEF Redis!Promise!Call, Redis!Data
<1>6. ASSUME NEW h \in RedisHandlers, Redis!UpdateDataFails(h)
      PROVE  RedisInv' /\ Redis!Promise!Call
  <2>. PICK k : k = call[h].key
    OBVIOUS
  <2>1. RedisInv' /\ k \in Keys /\ Redis!Promise!Fail(k)
    BY <1>6, RedisUpdateDataFails
  <2>. QED
    BY <2>1 DEF Redis!Promise!Call
<1>7. CASE \/ \E h \in RedisHandlers : Redis!Dispatch(h) \/ Redis!Return(h)
           \/ Redis!Crash
           \/ UNCHANGED Redis!vars
  <2>1. RedisInv' /\ UNCHANGED <<Seen, idle, last>>
    BY <1>7, RedisDispatch
  <2>. QED
    BY <2>1 DEF Seen, Redis!Promise!vars
<1>8. CASE Redis!Tick
  BY <1>8, RedisTick
<1>. QED
  BY <1>1, <1>2, <1>3, <1>4, <1>5, <1>6, <1>7, <1>8 DEF Redis!Next, Redis!Promise!Next

(* The comment on Storage.UpdateData, "that's fine, because the bot's own    *)
(* per-key dispatch lock already serializes updates that share a storage key *)
(* within one process": as long as handlers work on their own conversation,  *)
(* the Redis backend keeps the promise of FSMStore but for expiry, answers   *)
(* included, also across crashes and failed commands, for any goroutines,    *)
(* keys and times to live.                                                   *)
THEOREM RedisPromiseKept ==
  OwnOnly => (Redis!Spec => Redis!KeepsPromise /\ RedisKeepsPromise)
<1>. SUFFICES ASSUME OwnOnly PROVE Redis!Spec => Redis!KeepsPromise /\ RedisKeepsPromise
  OBVIOUS
<1>. Redis!RedisAssumption
  BY RedisAssumed
<1>1. Redis!Init => RedisInv /\ Redis!Promise!Init
  <2>. SUFFICES ASSUME Redis!Init PROVE RedisInv /\ Redis!Promise!Init
    OBVIOUS
  <2>1. Redis!TypeOK
    BY DEF Redis!Init, Redis!TypeOK, Redis!Live, Redis!RedisAssumption
  <2>2. Excluded /\ Merged
    BY DEF Redis!Init, Excluded, Merged
  <2>3. Redis!Promise!Init
    BY DEF Redis!Init, Redis!Promise!Init, Redis!Promise!NoConversation,
       Redis!Promise!EmptyMap, Redis!State, Redis!Map, Redis!EmptyMap
  <2>. QED
    BY <2>1, <2>2, <2>3 DEF RedisInv
<1>2. RedisInv /\ [Redis!Next]_(Redis!vars) =>
        RedisInv' /\ [Redis!Promise!Next \/ Redis!Tick]_(Redis!Promise!vars)
  BY RedisStep
<1>3. [Redis!Promise!Next \/ Redis!Tick]_(Redis!Promise!vars) =>
        [part # "redis" \/ Redis!Promise!Next \/ Redis!Tick]_(Redis!Promise!vars)
  OBVIOUS
<1>. QED
  BY <1>1, <1>2, <1>3, PTL DEF Redis!Spec, Redis!KeepsPromise, RedisKeepsPromise

-----------------------------------------------------------------------------
(* The admin cache, and the calls it makes through Client *)

Answers == [kind : {"ok"}, result : BOOLEAN] \cup [kind : {"error"}]
             \cup [kind : {"flood"}, after : RetryAfters]

Verdict == [member : Members, is : BOOLEAN, known : BOOLEAN]

(* Callers that are in a call, or have its answer in hand *)
InCall == OnTheWay \cup {"ok"}

CallTypes ==
  /\ at \in [Callers -> {"idle"} \cup OnTheWay \cup Returned]
  /\ left \in [Callers -> Nat] /\ elapsed \in [Callers -> Nat] /\ wait \in [Callers -> Nat]
  /\ reply \in [Callers -> Answers \cup {None}]

CacheTypes ==
  /\ admin \in [Members -> BOOLEAN]
  /\ entries \in [Members -> [isAdmin : BOOLEAN, expires : Int] \cup {None}]
  /\ asking \in [Callers -> Members \cup {None}]
  /\ verdict \in [Callers -> Verdict \cup {None}]
  /\ since \in [Members -> [BOOLEAN -> Nat]]

(* A call's clock and its deadline count the same time. *)
ClocksAgree == \A c \in Callers : at[c] \in InCall => elapsed[c] + left[c] = timeout

(* A wait fits in the budget, which the deadline covers (timeout). *)
WaitsFit == \A c \in Callers : at[c] = "wait" /\ wait[c] > 0 => elapsed[c] + wait[c] <= autoRetryMaxWait

(* There is an answer once it has come, and a good one has a result. *)
Answered ==
  \A c \in Callers :
    /\ at[c] \in {"reply", "ok"} => reply[c] \in Answers
    /\ at[c] = "ok" => reply[c].kind = "ok"

(* Whoever calls knows whom it asks about. *)
Asked == \A c \in Callers : at[c] # "idle" => asking[c] \in Members

Now == \A m \in Members : since[m][admin[m]] = 0

(* An answer on its way is no older than its call. *)
AnswersAreRecent ==
  \A c \in Callers : at[c] \in {"reply", "ok"} /\ reply[c].kind = "ok" =>
    since[asking[c]][reply[c].result] <= elapsed[c]

(* Of an entry, what it has lived and what it has left to live are one ttl. *)
EntriesAreRecent ==
  \A m \in Members : Hit(m) => since[m][entries[m].isAdmin] + entries[m].expires <= Horizon

CallInv  == CallTypes /\ Answered /\ ClocksAgree /\ WaitsFit
CacheInv == CacheTypes /\ Asked /\ Now /\ AnswersAreRecent /\ EntriesAreRecent /\ VerdictsAreRecent
AdminInv   == CallInv /\ CacheInv

USE ClientAssumption, AdminCacheAssumption DEF ClientAssumption, AdminCacheAssumption

(* The deadline is no earlier than the budget. *)
LEMMA Timeout == timeout \in Nat /\ autoRetryMaxWait <= timeout
BY DEF timeout, Greatest

LEMMA AdminInvFirst == Init => AdminInv
<1> SUFFICES ASSUME Init PROVE AdminInv
  OBVIOUS
<1>1. CallInv
  BY DEF Init, CallsInit, CallInv, CallTypes, Answered, ClocksAgree, WaitsFit, InCall, OnTheWay, Answers
<1>2. CacheTypes
  BY Timeout DEF Init, CacheTypes, Never, Forgotten, Horizon
<1>3. Asked /\ Now /\ AnswersAreRecent /\ EntriesAreRecent /\ VerdictsAreRecent
  BY Timeout DEF Init, CallsInit, Asked, Now, Never, AnswersAreRecent, EntriesAreRecent, VerdictsAreRecent, Hit
<1> QED
  BY <1>1, <1>2, <1>3 DEF AdminInv, CacheInv

-----------------------------------------------------------------------------
(* The calls *)

(* A call and its answers keep clocks, deadlines and waits in order. *)
LEMMA CallStep ==
  ASSUME CallInv, NEW c \in Callers,
         Call(c) \/ (\E result \in BOOLEAN : Answer(c, result)) \/ DoRequest(c)
  PROVE  CallInv'
<1> USE Timeout DEF CallInv, CallTypes, InCall, OnTheWay, Returned
<1>1. CASE Call(c)
  BY <1>1 DEF Call, Answered, ClocksAgree, WaitsFit
<1>2. ASSUME NEW result \in BOOLEAN, Answer(c, result) PROVE CallInv'
  BY <1>2 DEF Answer, Answered, ClocksAgree, WaitsFit, Answers
<1>3. CASE TransportFails(c)
  BY <1>3 DEF TransportFails, Finish, Answered, ClocksAgree, WaitsFit, Answers
<1>4. CASE Receive(c)
  BY <1>4 DEF Receive, Finish, Answered, ClocksAgree, WaitsFit
<1>5. CASE Backoff(c)
  <2>1. reply[c].after \in Nat /\ elapsed[c] + reply[c].after <= autoRetryMaxWait
    BY <1>5 DEF Backoff, retryDelay, Answered, Answers
  <2> QED
    BY <1>5, <2>1 DEF Backoff, Answered, ClocksAgree, WaitsFit, Answers
<1>6. CASE Retry(c)
  BY <1>6 DEF Retry, Answered, ClocksAgree, WaitsFit
<1>7. CASE Deadline(c)
  BY <1>7 DEF Deadline, Finish, Answered, ClocksAgree, WaitsFit, Answers
<1> QED
  BY <1>1, <1>2, <1>3, <1>4, <1>5, <1>6, <1>7 DEF DoRequest

(* So does time. *)
LEMMA CallTick == ASSUME CallInv, CallsTick, \A c \in Callers : at[c] \notin Returned PROVE CallInv'
<1> USE DEF CallInv, CallTypes, CallsTick, Left
<1>1. CallTypes'
  OBVIOUS
<1>2. ClocksAgree'
  BY Timeout DEF ClocksAgree, InCall, OnTheWay, Returned
<1>3. WaitsFit' /\ Answered'
  BY Timeout DEF WaitsFit, Answered, OnTheWay
<1> QED
  BY <1>1, <1>2, <1>3

(* Leaving the filter forgets the call. *)
LEMMA CallLeave == ASSUME CallInv, NEW c \in Callers, Leave(c) PROVE CallInv'
BY DEF CallInv, CallTypes, Answered, ClocksAgree, WaitsFit, Leave, InCall, OnTheWay, Answers

(* A wait that is granted fits. *)
LEMMA CallsFit == CallInv => RetriesFit
BY Timeout DEF CallInv, CallTypes, Answered, ClocksAgree, WaitsFit, RetriesFit, InCall, OnTheWay

-----------------------------------------------------------------------------
(* The cache *)

(* Each step keeps the calls in order. *)
LEMMA CallInvStep == ASSUME AdminInv, [Next]_vars PROVE CallInv'
<1> USE DEF AdminInv
<1>0. CASE UNCHANGED vars \/ evictExpired \/ \E m \in Members : ChatMemberChanges(m)
  BY <1>0 DEF vars, calls, evictExpired, ChatMemberChanges, CallInv, CallTypes, Answered, ClocksAgree, WaitsFit
<1>1. CASE Tick
  BY <1>1, CallTick DEF Tick
<1>2. ASSUME NEW c \in Callers, FilterIsAdmin(c) PROVE CallInv'
  <2>1. ASSUME NEW m \in Members, FromCache(c, m) PROVE CallInv'
    BY <2>1 DEF FromCache, calls, CallInv, CallTypes, Answered, ClocksAgree, WaitsFit
  <2>2. ASSUME NEW m \in Members, Ask(c, m) PROVE CallInv'
    BY <2>2, CallStep DEF Ask
  <2>3. CASE GetChatMember(c)
    <3>1. admin[asking[c]] \in BOOLEAN
      BY <2>3 DEF GetChatMember, CacheInv, CacheTypes
    <3> QED
      BY <2>3, <3>1, CallStep DEF GetChatMember
  <2>4. CASE Transport(c)
    BY <2>4, CallStep DEF Transport
  <2>5. CASE Set(c) \/ FailClosed(c)
    BY <2>5, CallLeave DEF Set, FailClosed
  <2> QED
    BY <1>2, <2>1, <2>2, <2>3, <2>4, <2>5 DEF FilterIsAdmin
<1> QED
  BY <1>0, <1>1, <1>2 DEF Next

(* A bound on how long ago: what changes now is recent, and ages by one. *)
LEMMA Ages ==
  ASSUME CacheTypes, Now, Tick, NEW m \in Members, NEW b \in BOOLEAN
  PROVE  since'[m][b] \in Nat /\ since'[m][b] <= since[m][b] + 1
BY Timeout DEF CacheTypes, Now, Tick, Forgotten, Horizon

LEMMA Changes ==
  ASSUME CacheTypes, NEW m \in Members, ChatMemberChanges(m), NEW n \in Members, NEW b \in BOOLEAN
  PROVE  since'[n][b] \in Nat /\ since'[n][b] <= since[n][b]
BY DEF CacheTypes, ChatMemberChanges

(* Time passes: calls, entries and what they know age together. *)
LEMMA CacheTick == ASSUME AdminInv, Tick PROVE CacheInv'
<1> USE DEF AdminInv, CacheInv
<1>1. CacheTypes'
  BY Timeout DEF Tick, CacheTypes, Forgotten, Horizon
<1>2. Asked' /\ VerdictsAreRecent'
  BY DEF Tick, CallsTick, Asked, VerdictsAreRecent
<1>3. Now'
  BY DEF Tick, CacheTypes, Now
<1>4. AnswersAreRecent'
  <2> SUFFICES ASSUME NEW c \in Callers, at[c] = "reply", reply[c].kind = "ok"
               PROVE  since'[asking[c]][reply[c].result] <= elapsed'[c]
    BY DEF Tick, CallsTick, AnswersAreRecent, Returned
  <2>1. asking[c] \in Members /\ reply[c].result \in BOOLEAN
    BY DEF Asked, CallInv, Answered, Answers
  <2>2. elapsed'[c] = elapsed[c] + 1
    BY DEF Tick, CallsTick, OnTheWay
  <2>3. since[asking[c]][reply[c].result] <= elapsed[c]
    BY DEF AnswersAreRecent
  <2> QED
    BY <2>1, <2>2, <2>3, Ages DEF CacheTypes, CallInv, CallTypes
<1>5. EntriesAreRecent'
  <2> SUFFICES ASSUME NEW m \in Members, Hit(m)'
               PROVE  since'[m][entries'[m].isAdmin] + entries'[m].expires <= Horizon
    BY DEF EntriesAreRecent, Horizon, timeout
  <2>1. Hit(m) /\ entries[m] \in [isAdmin : BOOLEAN, expires : Int]
    BY DEF Hit, Tick, CacheTypes
  <2>2. entries'[m].isAdmin = entries[m].isAdmin /\ entries'[m].expires = entries[m].expires - 1
    BY <2>1 DEF Hit, Tick
  <2>3. since[m][entries[m].isAdmin] + entries[m].expires <= Horizon
    BY <2>1 DEF EntriesAreRecent
  <2> QED
    BY <2>1, <2>2, <2>3, Ages, Timeout DEF CacheTypes, Horizon
<1> QED
  BY <1>1, <1>2, <1>3, <1>4, <1>5

(* A promotion or demotion makes what was known one change older, not less    *)
(* recent.                                                                    *)
LEMMA ChangeStep == ASSUME AdminInv, NEW m \in Members, ChatMemberChanges(m) PROVE CacheInv'
<1> USE DEF AdminInv, CacheInv
<1>1. CacheTypes'
  BY DEF ChatMemberChanges, CacheTypes
<1>2. Asked'
  BY DEF ChatMemberChanges, calls, Asked
<1>3. Now'
  BY DEF ChatMemberChanges, CacheTypes, Now
<1>4. AnswersAreRecent'
  <2> SUFFICES ASSUME NEW c \in Callers, at[c] \in {"reply", "ok"}, reply[c].kind = "ok"
               PROVE  since'[asking[c]][reply[c].result] <= elapsed[c]
    BY DEF ChatMemberChanges, calls, AnswersAreRecent
  <2>1. asking[c] \in Members /\ reply[c].result \in BOOLEAN
    BY DEF Asked, CallInv, Answered, Answers
  <2>2. since[asking[c]][reply[c].result] <= elapsed[c]
    BY DEF AnswersAreRecent
  <2> QED
    BY <2>1, <2>2, Changes DEF CacheTypes, CallInv, CallTypes
<1>5. EntriesAreRecent'
  <2> SUFFICES ASSUME NEW n \in Members, Hit(n)
               PROVE  since'[n][entries[n].isAdmin] + entries[n].expires <= Horizon
    BY DEF ChatMemberChanges, EntriesAreRecent, Hit, Horizon, timeout
  <2> QED
    BY Changes, Timeout DEF EntriesAreRecent, Hit, CacheTypes, Horizon
<1>6. VerdictsAreRecent'
  <2> SUFFICES ASSUME NEW c \in Callers, verdict[c] # None, verdict[c].known
               PROVE  since'[verdict[c].member][verdict[c].is] <= Horizon
    BY DEF ChatMemberChanges, VerdictsAreRecent, Horizon, timeout
  <2> QED
    BY Changes, Timeout DEF VerdictsAreRecent, CacheTypes, Verdict, Horizon
<1> QED
  BY <1>1, <1>2, <1>3, <1>4, <1>5, <1>6
(* What the filter answers from the cache was asked no longer ago than ttl. *)
LEMMA FromCacheStep ==
  ASSUME AdminInv, NEW c \in Callers, NEW m \in Members, FromCache(c, m)
  PROVE  CacheInv'
<1> USE DEF AdminInv, CacheInv, FromCache, Give
<1>1. entries[m] \in [isAdmin : BOOLEAN, expires : Int] /\ entries[m].expires >= 0
  BY DEF Hit, CacheTypes
<1>2. CacheTypes'
  BY <1>1 DEF CacheTypes, Verdict
<1>3. Asked' /\ Now' /\ AnswersAreRecent' /\ EntriesAreRecent'
  BY DEF calls, Asked, Now, AnswersAreRecent, EntriesAreRecent, Hit, Horizon, timeout
<1>4. VerdictsAreRecent'
  <2>1. since[m][entries[m].isAdmin] <= Horizon
    BY <1>1, Timeout DEF EntriesAreRecent, CacheTypes, Horizon
  <2>2. Horizon' = Horizon
    BY DEF Horizon, timeout
  <2> QED
    BY <2>1, <2>2 DEF VerdictsAreRecent, CacheTypes
<1> QED
  BY <1>2, <1>3, <1>4

(* A call on its way tells nobody anything; its answer, when it comes, is     *)
(* true at that instant (Now).                                                *)
LEMMA CallingStep ==
  ASSUME AdminInv, NEW c \in Callers,
         (\E m \in Members : Ask(c, m)) \/ GetChatMember(c) \/ Transport(c)
  PROVE  CacheInv'
<1> USE DEF AdminInv, CacheInv
<1>0. Horizon' = Horizon
  BY DEF Horizon, timeout
<1>1. ASSUME NEW m \in Members, Ask(c, m) PROVE CacheInv'
  <2> USE <1>1 DEF Ask, Call
  <2>1. CacheTypes' /\ Asked'
    BY DEF CacheTypes, Asked, CallInv, CallTypes
  <2>2. Now' /\ EntriesAreRecent' /\ VerdictsAreRecent'
    BY <1>0 DEF Now, EntriesAreRecent, Hit, VerdictsAreRecent
  <2>3. AnswersAreRecent'
    BY DEF AnswersAreRecent, CallInv, CallTypes, CacheTypes
  <2> QED
    BY <2>1, <2>2, <2>3
<1>2. CASE GetChatMember(c) \/ Transport(c)
  <2>1. UNCHANGED <<admin, entries, asking, verdict, since>>
    BY <1>2 DEF GetChatMember, Transport
  <2>2. CacheTypes' /\ Now' /\ EntriesAreRecent' /\ VerdictsAreRecent'
    BY <2>1, <1>0 DEF CacheTypes, Now, EntriesAreRecent, Hit, VerdictsAreRecent
  <2>3. Asked'
    <3>1. at[c] # "idle" /\ \A d \in Callers \ {c} : at'[d] = at[d]
      BY <1>2 DEF GetChatMember, Answer, Transport, DoRequest, TransportFails, Receive, Backoff, Retry,
                  Deadline, Finish, OnTheWay, CallInv, CallTypes
    <3> QED
      BY <3>1, <2>1 DEF Asked
  <2>4. AnswersAreRecent'
    <3>1. CASE GetChatMember(c)
      <4>1. asking[c] \in Members /\ admin[asking[c]] \in BOOLEAN
        BY <3>1 DEF GetChatMember, CacheTypes
      <4>2. reply'[c].kind = "ok" => reply'[c].result = admin[asking[c]]
        BY <3>1 DEF GetChatMember, Answer, CallInv, CallTypes
      <4>3. since[asking[c]][admin[asking[c]]] = 0 /\ elapsed[c] \in Nat
        BY <4>1 DEF Now, CallInv, CallTypes
      <4> QED
        BY <3>1, <4>1, <4>2, <4>3, <2>1 DEF GetChatMember, Answer, AnswersAreRecent, CallInv, CallTypes
    <3>2. CASE Transport(c)
      <4>1. \A d \in Callers : at'[d] \in {"reply", "ok"} /\ reply'[d].kind = "ok" =>
              at[d] \in {"reply", "ok"} /\ reply'[d] = reply[d]
        BY <3>2 DEF Transport, DoRequest, TransportFails, Receive, Backoff, Retry, Deadline, Finish,
                    CallInv, CallTypes
      <4>2. elapsed' = elapsed
        BY <3>2 DEF Transport, DoRequest, TransportFails, Receive, Backoff, Retry, Deadline, Finish
      <4> QED
        BY <4>1, <4>2, <2>1 DEF AnswersAreRecent
    <3> QED
      BY <1>2, <3>1, <3>2
  <2> QED
    BY <2>2, <2>3, <2>4
<1> QED
  BY <1>1, <1>2

(* The answer of a call is cached for a ttl when it is at most a timeout old. *)
LEMMA LeaveStep == ASSUME AdminInv, NEW c \in Callers, Set(c) \/ FailClosed(c) PROVE CacheInv'
<1> USE DEF AdminInv, CacheInv
<1>0. Horizon' = Horizon /\ asking[c] \in Members
  BY DEF Horizon, timeout, Set, FailClosed, CacheTypes
<1>1. Leave(c)
  BY DEF Set, FailClosed
<1>2. Asked' /\ Now' /\ AnswersAreRecent'
  BY <1>1 DEF Leave, CallInv, CallTypes, CacheTypes, Asked, Now, AnswersAreRecent
<1>3. CASE Set(c)
  <2>1. reply[c].kind = "ok" /\ reply[c].result \in BOOLEAN
    BY <1>3 DEF Set, CallInv, Answered, Answers
  <2>2. since[asking[c]][reply[c].result] <= timeout
    <3>1. since[asking[c]][reply[c].result] <= elapsed[c]
      BY <1>3, <2>1 DEF Set, AnswersAreRecent
    <3>2. elapsed[c] + left[c] = timeout /\ elapsed[c] \in Nat /\ left[c] \in Nat
      BY <1>3 DEF Set, CallInv, CallTypes, ClocksAgree, InCall
    <3>3. since[asking[c]][reply[c].result] \in Nat
      BY <1>0, <2>1 DEF CacheTypes
    <3> QED
      BY <3>1, <3>2, <3>3, Timeout
  <2>3. since[asking[c]][reply[c].result] \in Nat
    BY <1>0, <2>1 DEF CacheTypes
  <2>4. CacheTypes'
    BY <1>0, <1>1, <1>3, <2>1 DEF Set, Give, Leave, CacheTypes, Verdict
  <2>5. EntriesAreRecent'
    BY <1>0, <1>1, <1>3, <2>1, <2>2, <2>3, Timeout
       DEF Set, Leave, EntriesAreRecent, Hit, Horizon, CacheTypes
  <2>6. VerdictsAreRecent'
    BY <1>0, <1>1, <1>3, <2>1, <2>2, <2>3, Timeout
       DEF Set, Give, Leave, VerdictsAreRecent, Horizon, CacheTypes
  <2> QED
    BY <1>2, <2>4, <2>5, <2>6
<1>4. CASE FailClosed(c)
  <2>1. CacheTypes'
    BY <1>0, <1>1, <1>4 DEF FailClosed, Give, Leave, CacheTypes, Verdict
  <2>2. EntriesAreRecent' /\ VerdictsAreRecent'
    BY <1>0, <1>1, <1>4 DEF FailClosed, Give, Leave, EntriesAreRecent, VerdictsAreRecent, Hit, CacheTypes
  <2> QED
    BY <1>2, <2>1, <2>2
<1> QED
  BY <1>3, <1>4

(* Sweeping removes only what is no entry any more. *)
LEMMA CacheEvict == ASSUME AdminInv, evictExpired \/ UNCHANGED vars PROVE CacheInv'
<1> USE DEF AdminInv, CacheInv
<1>1. \A m \in Members : Hit(m)' => Hit(m) /\ entries'[m] = entries[m]
  BY DEF evictExpired, vars, Hit, CacheTypes
<1>2. CacheTypes'
  BY DEF evictExpired, vars, CacheTypes
<1>3. Horizon' = Horizon
  BY DEF Horizon, timeout
<1> QED
  BY <1>1, <1>2, <1>3 DEF evictExpired, vars, calls, Asked, Now, AnswersAreRecent, EntriesAreRecent,
                          VerdictsAreRecent

LEMMA AdminInvStep == ASSUME AdminInv, [Next]_vars PROVE AdminInv'
<1>1. CacheInv'
  BY CacheTick, ChangeStep, FromCacheStep, CallingStep, LeaveStep, CacheEvict DEF Next, FilterIsAdmin
<1> QED
  BY <1>1, CallInvStep DEF AdminInv

-----------------------------------------------------------------------------
(* The theorems *)

(* The inductive invariant holds: in particular the state is well typed.      *)
THEOREM AdminInvHolds == Spec => []AdminInv
BY AdminInvFirst, AdminInvStep, PTL DEF Spec

(* A wait that retryDelay granted ends within SetAutoRetry's budget and       *)
(* before the deadline of the call, for every budget, timeout and             *)
(* retry_after Telegram may answer.                                           *)
THEOREM RetriesInBudget == Spec => []RetriesFit
<1>1. AdminInv => RetriesFit
  BY CallsFit DEF AdminInv
<1> QED
  BY <1>1, AdminInvHolds, PTL

(* What FilterIsAdmin answers was true no more than one ttl and one call ago, *)
(* however calls overlap and return; a failed lookup makes nobody an admin.   *)
THEOREM Recent == Spec => []VerdictsAreRecent
<1>1. AdminInv => VerdictsAreRecent
  BY DEF AdminInv, CacheInv
<1> QED
  BY <1>1, AdminInvHolds, PTL
=============================================================================
