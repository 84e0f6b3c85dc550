------------------------------- MODULE Parts -------------------------------
(***************************************************************************)
(* Parts that work alone - the in-memory storage (fsm_memory.go), the      *)
(* Redis storage (storage/redis/storage.go), the rate limiter              *)
(* (middleware.go), the lifecycle of a bot (bot.go) and the freezing of    *)
(* its routers (router.go) - with their state side by side, and what each  *)
(* of them promises.                                                       *)
(***************************************************************************)
EXTENDS Naturals

CONSTANTS
  Keys, NoState, States, Fields, Values, Unmarshalable, Absent, Nil,
  MemoryTTL, MapHandlers, Refs,            \* MemoryStorage
  RedisTTL, RedisHandlers, OwnKey, Reach,  \* RedisStorage
  Nobody, Burst, Cost, IdleTTL, Second,    \* RateLimiter
  Starters, Workers, MaxQueued,            \* Lifecycle
  Routers, Root, Leaves, Walkers, MaxRoutes \* Freezing

VARIABLES
  part,                                    \* the part that runs: the others stay as they are
  stored, heap, held, swept, unused, said, \* MemoryStorage
  stateKey, dataKey, pc, call, idle, last, \* RedisStorage
  buckets, timer, closed, silent,          \* RateLimiter
  ran, place, running, queue, updateChan, stopOnce, worker, status, \* Lifecycle
  routes, frozen, registering, stacks, late \* Freezing

memoryVars    == <<stored, heap, held, swept, unused, said>>
redisVars     == <<stateKey, dataKey, pc, call, idle, last>>
limiterVars   == <<buckets, timer, closed, silent>>
lifecycleVars == <<ran, place, running, queue, updateChan, stopOnce, worker, status>>
freezingVars  == <<routes, frozen, registering, stacks, late>>

Memory == INSTANCE MemoryStorage WITH
  TTL <- MemoryTTL, Handlers <- MapHandlers,
  entries <- stored, closed <- swept, idle <- unused, last <- said

Redis == INSTANCE RedisStorage WITH TTL <- RedisTTL, Handlers <- RedisHandlers

Limiter == INSTANCE RateLimiter

Bot == INSTANCE Lifecycle WITH Callers <- Starters, at <- place, closed <- updateChan

Tree == INSTANCE Freezing

ASSUME MemoryAssumed  == Memory!StorageAssumption
ASSUME RedisAssumed   == Redis!RedisAssumption
ASSUME LimiterAssumed == Limiter!RateLimiterAssumption
ASSUME BotAssumed     == Bot!LifecycleAssumption
ASSUME TreeAssumed    == Tree!FreezingAssumption

-----------------------------------------------------------------------------
(* What the parts promise.  Of the storages' promises it is said once more   *)
(* that a step of another part is no step of theirs, which spares TLC        *)
(* finding out.                                                              *)

(* A sender who is never silent for longer than the idle time keeps to the   *)
(* rate, although buckets are refilled lazily and idle ones forgotten.       *)
KeepsRate == Limiter!KeepsRate

(* However often Run, StartWorkers and StopWorkers are called, a stop is for *)
(* good - as long as nobody stops the bot while another goroutine is in Run  *)
(* or StartWorkers (Lifecycle says when).                                    *)
StopIsFinal == Bot!StopIsFinal

(* What a dispatch reads of the routers no longer changes (FrozenForGood).   *)
FrozenForGood == Tree!FrozenForGood

(* MemoryStorage implements FSMStore (KeepsPromise). *)
MemoryKeepsPromise ==
  /\ Memory!Promise!Init
  /\ [][part # "memory" \/ Memory!Promise!Next]_(Memory!Promise!vars)

(* But for expiry, so does RedisStorage (KeepsPromise). *)
RedisKeepsPromise ==
  /\ Redis!Promise!Init
  /\ [][part # "redis" \/ Redis!Promise!Next \/ Redis!Tick]_(Redis!Promise!vars)
=============================================================================
