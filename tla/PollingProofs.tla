---------------------------- MODULE PollingProofs ----------------------------
(***************************************************************************)
(* Theorems about the long-polling runtime, for any number of workers,     *)
(* updates, keys and processes and any buffer and batch size: no confirmed *)
(* update is lost, none is dispatched twice by one process, the shutdown   *)
(* hooks come after the drain and the health counters add up.              *)
(***************************************************************************)
EXTENDS Polling, FiniteSetTheorems, TLAPS

(* What is below this is confirmed, or will be by the next getUpdates. *)
Frontier == Larger(first, offset)

(* An update that no getUpdates returns again is accounted for. *)
Safe(u) ==
  \/ u \in handled \cup lost \cup dropped
  \/ Alive /\ u \in Queued \cup InHand

Covered == \A u \in Updates : u < Frontier => Safe(u)

(* The offset is that of the last update queued, and Telegram has it. *)
OffsetInv ==
  /\ first <= last + 1 /\ offset <= last + 1
  /\ rpc \in {"start", "drop", "dead"} => offset = 0
  /\ rpc = "queue" => at = Frontier /\ at <= upto /\ upto <= last

(* Where a worker is agrees with what it has in hand, and with its lock. *)
PoolInv ==
  \A w \in Workers :
    /\ wpc[w] \in {"unborn", "receive", "exited"} => job[w] = None /\ phase[w] = "idle"
    /\ wpc[w] = "lock" => job[w] # None /\ phase[w] = "waiting"
    /\ wpc[w] \in {"run", "unlock"} => job[w] # None /\ phase[w] = "holding"

(* The channel is closed by the drain, and workers leave when it is empty. *)
DrainInv ==
  /\ rpc \in {"start", "dead"} => \A w \in Workers : wpc[w] = "unborn"
  /\ closed => rpc \in {"drain", "hooks", "returned"}
  /\ \A w \in Workers : wpc[w] = "exited" => closed /\ updateChan = <<>>
  /\ rpc = "hooks" => status = "stopped" /\ \A w \in Workers : wpc[w] = "exited"

(* What was fetched is below the offset, queued in order and once. *)
InOrder == \A i, j \in 1..Len(updateChan) : i < j => updateChan[i] < updateChan[j]

Fetched == \A u \in Queued \cup InHand \cup started : u < offset

OneHand == \A v, w \in Workers : job[v] = job[w] /\ job[v] # None => v = w

New ==
  /\ Queued \cap (InHand \cup started) = {}
  /\ \A w \in Workers : wpc[w] = "lock" => job[w] \notin started

ChanInv == InOrder /\ Fetched /\ OneHand /\ New

IndInv == TypeOK /\ OffsetInv /\ PoolInv /\ DrainInv /\ ChanInv /\ Covered /\ CountersAddUp

USE PollingAssumption DEF PollingAssumption

-----------------------------------------------------------------------------
(* The channel and the workers' hands *)

LEMMA Smallest ==
  ASSUME NEW a \in Int, NEW b \in Int, NEW c \in Int
  PROVE  a..Smaller(b, c) \subseteq a..b
BY DEF Smaller

LEMMA MemoryTypes ==
  ASSUME TypeOK
  PROVE  Queued \subseteq Updates /\ InHand \subseteq Updates /\ started \subseteq Updates
BY DEF TypeOK, ChanTypes, PoolTypes, HistoryTypes, Queued, InHand

(* Numbers are numbers. *)
LEMMA Numbers ==
  ASSUME TypeOK
  PROVE  /\ first \in Nat /\ last \in Nat /\ offset \in Nat /\ at \in Nat /\ upto \in Nat
         /\ \A u \in Queued \cup InHand \cup started : u \in Nat \ {0}
         /\ first >= 1 /\ last <= MaxUpdate /\ at >= 1
<1>1. /\ first \in Nat /\ last \in Nat /\ offset \in Nat /\ at \in Nat /\ upto \in Nat
      /\ first >= 1 /\ last <= MaxUpdate /\ at >= 1
  BY DEF TypeOK, ServerTypes, RunTypes
<1> QED
  BY <1>1, MemoryTypes DEF Updates

LEMMA Appended == ASSUME TypeOK, Enqueue PROVE Queued' = Queued \cup {at}
BY DEF TypeOK, ChanTypes, RunTypes, Enqueue, Queued, Updates

LEMMA Received ==
  ASSUME TypeOK, InOrder, NEW w \in Workers, Receive(w)
  PROVE  /\ Head(updateChan) \in Updates
         /\ Queued = Queued' \cup {Head(updateChan)}
         /\ Head(updateChan) \notin Queued'
         /\ updateChan' \in Seq(Updates) /\ Len(updateChan') = Len(updateChan) - 1
         /\ InOrder'
<1> DEFINE n == Len(updateChan)
<1>1. n \in Nat \ {0} /\ Len(updateChan') = n - 1 /\ updateChan' \in Seq(Updates)
  BY DEF TypeOK, ChanTypes, Receive
<1>2. Head(updateChan) = updateChan[1] /\ \A i \in 1..(n - 1) : updateChan'[i] = updateChan[i + 1]
  BY <1>1 DEF TypeOK, ChanTypes, Receive
<1>3. \A i \in 1..n : updateChan[i] \in Nat /\ updateChan[i] \in Updates
  BY DEF TypeOK, ChanTypes, Updates
<1>4. Queued' = {updateChan[i] : i \in 2..n}
  <2>1. Queued' = {updateChan'[i] : i \in 1..(n - 1)}
    BY <1>1 DEF Queued
  <2>2. \A i \in 2..n : i - 1 \in 1..(n - 1) /\ updateChan'[i - 1] = updateChan[i]
    BY <1>1, <1>2
  <2>3. \A i \in 1..(n - 1) : i + 1 \in 2..n /\ updateChan'[i] = updateChan[i + 1]
    BY <1>1, <1>2
  <2> QED
    BY <2>1, <2>2, <2>3
<1>5. Queued = Queued' \cup {updateChan[1]}
  <2>1. 1..n = {1} \cup 2..n
    BY <1>1
  <2> QED
    BY <2>1, <1>4 DEF Queued
<1>6. updateChan[1] \notin Queued'
  <2>1. \A i \in 2..n : updateChan[1] < updateChan[i]
    BY <1>1 DEF InOrder
  <2>2. \A i \in 2..n : updateChan[i] # updateChan[1]
    BY <2>1, <1>1, <1>3
  <2> QED
    BY <2>2, <1>4
<1>7. InOrder'
  BY <1>1, <1>2 DEF InOrder
<1> QED
  BY <1>1, <1>2, <1>3, <1>5, <1>6, <1>7

LEMMA Taken ==
  ASSUME TypeOK, PoolInv, NEW w \in Workers, Receive(w), Head(updateChan) \in Updates
  PROVE  InHand' = InHand \cup {Head(updateChan)}
<1>1. job[w] = None /\ Head(updateChan) # None
  BY DEF Receive, PoolInv, Updates
<1> QED
  BY <1>1 DEF Receive, InHand, TypeOK, PoolTypes

LEMMA PutDown ==
  ASSUME TypeOK, PoolInv, OneHand, NEW w \in Workers, Finish(w)
  PROVE  InHand' = InHand \ {job[w]} /\ job[w] \in InHand
BY DEF Finish, InHand, TypeOK, PoolTypes, PoolInv, OneHand

(* Handlers that run are finitely many, and each is counted. *)
LEMMA RunningFinite == IsFiniteSet(Running) /\ Cardinality(Running) \in Nat
BY FS_Subset, FS_CardinalityType DEF Running

-----------------------------------------------------------------------------
(* Initial states, and a new process *)

LEMMA InitInv == Init => IndInv
<1> SUFFICES ASSUME Init PROVE IndInv
  OBVIOUS
<1>1. TypeOK
  <2>1. ServerTypes /\ RunTypes /\ ChanTypes /\ HistoryTypes
    BY DEF Init, ServerTypes, RunTypes, ChanTypes, HistoryTypes, Updates
  <2>2. PoolTypes
    BY DEF Init, PoolTypes, DispatchLock!Init
  <2>3. canceled \in BOOLEAN /\ closed \in BOOLEAN /\ health \in Counters
    BY DEF Init, Counters, NoCounts
  <2> QED
    BY <2>1, <2>2, <2>3 DEF TypeOK
<1>2. OffsetInv /\ Covered
  BY DEF Init, OffsetInv, Covered, Frontier, Larger, Updates
<1>3. PoolInv /\ DrainInv
  BY DEF Init, PoolInv, DrainInv, DispatchLock!Init
<1>4. ChanInv
  BY DEF Init, ChanInv, InOrder, Fetched, OneHand, New, Queued, InHand
<1>5. CountersAddUp
  <2>1. Running = {}
    BY DEF Init, Running
  <2> QED
    BY <2>1, FS_EmptySet DEF CountersAddUp, Init, NoCounts
<1> QED
  BY <1>1, <1>2, <1>3, <1>4, <1>5 DEF IndInv

(* A process that is gone, or one that starts, has nothing in memory. *)
LEMMA ForgetInv ==
  ASSUME Forget
  PROVE  /\ PoolInv' /\ ChanInv' /\ CountersAddUp'
         /\ ChanTypes' /\ PoolTypes' /\ canceled' \in BOOLEAN /\ closed' \in BOOLEAN
         /\ health' \in Counters /\ \A w \in Workers : wpc'[w] = "unborn"
<1>1. PoolInv'
  BY DEF Forget, PoolInv
<1>2. Queued' = {} /\ InHand' = {}
  BY DEF Forget, Queued, InHand
<1>3. ChanInv'
  BY <1>2 DEF Forget, ChanInv, InOrder, Fetched, OneHand, New
<1>4. CountersAddUp'
  <2>1. Running' = {}
    BY DEF Forget, Running
  <2> QED
    BY <2>1, FS_EmptySet DEF CountersAddUp, Forget, NoCounts
<1>5. ChanTypes' /\ PoolTypes'
  BY DEF Forget, ChanTypes, PoolTypes
<1>6. health' \in Counters
  BY DEF Forget, Counters, NoCounts
<1> QED
  BY <1>1, <1>3, <1>4, <1>5, <1>6 DEF Forget

LEMMA CrashStep == ASSUME IndInv, Crash PROVE IndInv'
<1> USE DEF IndInv
<1>1. TypeOK'
  <2>1. HistoryTypes'
    BY MemoryTypes DEF TypeOK, HistoryTypes, Crash, Forget
  <2>2. ServerTypes' /\ RunTypes'
    BY DEF TypeOK, ServerTypes, RunTypes, Crash, Forget, server
  <2> QED
    BY <2>1, <2>2, ForgetInv DEF TypeOK, Crash
<1>2. OffsetInv' /\ DrainInv'
  BY ForgetInv, Numbers DEF Crash, Forget, server, OffsetInv, DrainInv
<1>3. Covered'
  <2>1. Frontier' <= Frontier /\ Frontier \in Nat /\ Frontier' \in Nat
    BY Numbers DEF Crash, Forget, server, Frontier, Larger
  <2>2. \A u \in Updates : u < Frontier => u \in handled \cup dropped \cup lost'
    BY DEF Covered, Safe, Crash
  <2>3. \A u \in Updates : u < Frontier' => u < Frontier
    BY <2>1 DEF Updates
  <2>4. \A u : u \in handled \cup dropped \cup lost' => Safe(u)'
    BY DEF Safe, Crash
  <2> QED
    BY <2>2, <2>3, <2>4 DEF Covered
<1> QED
  BY <1>1, <1>2, <1>3, ForgetInv DEF Crash

(* Run returned after the drain, so nothing was left in memory. *)
LEMMA RestartStep == ASSUME IndInv, Restart PROVE IndInv'
<1> USE DEF IndInv
<1>1. TypeOK'
  <2>1. HistoryTypes' /\ ServerTypes' /\ RunTypes'
    BY DEF TypeOK, HistoryTypes, ServerTypes, RunTypes, Restart, Forget, server
  <2> QED
    BY <2>1, ForgetInv DEF TypeOK, Restart
<1>2. OffsetInv' /\ DrainInv'
  BY ForgetInv, Numbers DEF Restart, Forget, server, OffsetInv, DrainInv
<1>3. Covered'
  <2>1. Frontier' <= Frontier /\ Frontier \in Nat /\ Frontier' \in Nat
    BY Numbers DEF Restart, Forget, server, Frontier, Larger
  <2>2. \A u \in Updates : u < Frontier => u \in handled \cup dropped \cup lost
    BY DEF Covered, Safe, Restart, Alive, Serving, Polls
  <2>3. \A u \in Updates : u < Frontier' => u < Frontier
    BY <2>1 DEF Updates
  <2>4. \A u : u \in handled \cup dropped \cup lost => Safe(u)'
    BY DEF Safe, Restart
  <2> QED
    BY <2>2, <2>3, <2>4 DEF Covered
<1> QED
  BY <1>1, <1>2, <1>3, ForgetInv DEF Restart

-----------------------------------------------------------------------------
(* Telegram, the caller, and Run: what touches no worker *)

(* A step that leaves the workers, the channel and the counters alone, and    *)
(* moves the offset back over nothing.                                        *)
LEMMA MemoryKept ==
  ASSUME TypeOK, PoolInv, ChanInv, CountersAddUp, offset' \in Nat, offset' >= offset,
         UNCHANGED <<updateChan, health, job, phase, wpc, started>>
  PROVE  PoolInv' /\ ChanInv' /\ CountersAddUp' /\ Queued' = Queued /\ InHand' = InHand
<1>1. Queued' = Queued /\ InHand' = InHand
  BY DEF Queued, InHand
<1>2. PoolInv' /\ CountersAddUp'
  <2>1. Running' = Running
    BY DEF Running
  <2> QED
    BY <2>1 DEF PoolInv, CountersAddUp
<1>3. ChanInv'
  <2>1. Fetched'
    <3>1. /\ \A u \in Queued \cup InHand \cup started : u \in Nat
          /\ offset \in Nat
      BY Numbers
    <3> QED
      BY <1>1, <3>1 DEF ChanInv, Fetched
  <2> QED
    BY <1>1, <2>1 DEF ChanInv, InOrder, OneHand, New
<1> QED
  BY <1>1, <1>2, <1>3

LEMMA OutsideStep == ASSUME IndInv, NewUpdate \/ Cancel \/ UNCHANGED vars PROVE IndInv'
<1> USE DEF IndInv
<1>1. UNCHANGED <<first, runs, rpc, offset, at, upto, result, status, closed, updateChan, health>>
  BY DEF NewUpdate, Cancel, vars, server, poller
<1>2. UNCHANGED <<wpc, job, phase, want, handled, started, lost, dropped>>
  BY DEF NewUpdate, Cancel, vars, pool, history
<1>3. last' \in last..MaxUpdate /\ canceled' \in BOOLEAN
  <2>1. last' \in last..MaxUpdate
    BY Numbers DEF NewUpdate, Cancel, vars, server
  <2>2. canceled' \in BOOLEAN
    BY DEF NewUpdate, Cancel, vars, TypeOK
  <2> QED
    BY <2>1, <2>2
<1>4. TypeOK'
  BY <1>1, <1>2, <1>3 DEF TypeOK, ServerTypes, RunTypes, ChanTypes, PoolTypes, HistoryTypes
<1>5. PoolInv' /\ ChanInv' /\ CountersAddUp' /\ Queued' = Queued /\ InHand' = InHand
  BY <1>1, <1>2, MemoryKept, Numbers
<1>6. OffsetInv' /\ DrainInv'
  BY <1>1, <1>2, <1>3, Numbers DEF OffsetInv, DrainInv, Frontier, Larger
<1>7. Covered'
  BY <1>1, <1>2, <1>5 DEF Covered, Safe, Frontier, Larger, Alive
<1> QED
  BY <1>4, <1>5, <1>6, <1>7
(* What stays accounted for: nothing in memory is forgotten. *)
LEMMA CoveredKept ==
  ASSUME Covered, UNCHANGED <<handled, lost>>, dropped \subseteq dropped',
         Queued' = Queued, InHand' = InHand, Alive', Frontier' = Frontier
  PROVE  Covered'
BY DEF Covered, Safe

(* After the drain no update is in memory. *)
LEMMA Drained ==
  ASSUME IndInv, rpc = "hooks"
  PROVE  /\ updateChan = <<>> /\ Queued = {} /\ InHand = {} /\ Running = {}
         /\ \A w \in Workers : wpc[w] = "exited" /\ job[w] = None /\ phase[w] = "idle"
<1>1. \A w \in Workers : wpc[w] = "exited" /\ job[w] = None /\ phase[w] = "idle"
  BY DEF IndInv, DrainInv, PoolInv
<1>2. updateChan = <<>>
  <2>1. PICK w \in Workers : TRUE
    OBVIOUS
  <2> QED
    BY <1>1, <2>1 DEF IndInv, DrainInv
<1>3. Queued = {} /\ InHand = {} /\ Running = {}
  BY <1>1, <1>2 DEF Queued, InHand, Running
<1> QED
  BY <1>1, <1>2, <1>3

(* Hooks run when nothing is left to do. *)
LEMMA HooksInv == IndInv => HooksAfterDrain
<1> SUFFICES ASSUME IndInv, rpc = "hooks" PROVE HooksAfterDrain
  BY DEF HooksAfterDrain
<1>1. health.dispatched = health.matched + health.unmatched
  <2>1. health.matched \in Nat /\ health.unmatched \in Nat
    BY DEF IndInv, TypeOK, Counters
  <2>2. Cardinality(Running) = 0
    BY Drained, FS_EmptySet
  <2> QED
    BY <2>1, <2>2 DEF IndInv, CountersAddUp
<1>2. status = "stopped"
  BY DEF IndInv, DrainInv
<1> QED
  BY <1>1, <1>2, Drained DEF HooksAfterDrain

(* Steps of Run that only say where it is *)
LEMMA ControlStep ==
  ASSUME IndInv,
         StartupHooksFail \/ ObserveCancel \/ BackoffElapses \/ CloseUpdateChan \/ AwaitWorkers
           \/ RunShutdownHooks
  PROVE  IndInv'
<1> USE DEF IndInv
<1>1. UNCHANGED <<first, last, runs, offset, at, upto, canceled, updateChan, health>>
  BY DEF StartupHooksFail, ObserveCancel, BackoffElapses, CloseUpdateChan, AwaitWorkers,
         RunShutdownHooks, server
<1>2. UNCHANGED <<wpc, job, phase, want, handled, started, lost, dropped>>
  BY DEF StartupHooksFail, ObserveCancel, BackoffElapses, CloseUpdateChan, AwaitWorkers,
         RunShutdownHooks, pool, history
<1>3. TypeOK'
  <2>1. RunTypes'
    BY <1>1 DEF TypeOK, RunTypes, StartupHooksFail, ObserveCancel, BackoffElapses, CloseUpdateChan,
                AwaitWorkers, RunShutdownHooks, Serving, Polls
  <2>2. closed' \in BOOLEAN
    BY DEF TypeOK, StartupHooksFail, ObserveCancel, BackoffElapses, CloseUpdateChan, AwaitWorkers,
           RunShutdownHooks
  <2> QED
    BY <1>1, <1>2, <2>1, <2>2 DEF TypeOK, ServerTypes, ChanTypes, PoolTypes, HistoryTypes
<1>4. PoolInv' /\ ChanInv' /\ CountersAddUp' /\ Queued' = Queued /\ InHand' = InHand
  BY <1>1, <1>2, MemoryKept, Numbers
<1>5. OffsetInv'
  BY <1>1, Numbers DEF OffsetInv, StartupHooksFail, ObserveCancel, BackoffElapses, CloseUpdateChan,
              AwaitWorkers, RunShutdownHooks
<1>6. DrainInv'
  BY <1>1, <1>2 DEF DrainInv, StartupHooksFail, ObserveCancel, BackoffElapses, CloseUpdateChan,
                    AwaitWorkers, RunShutdownHooks, Polls
<1>7. Covered'
  <2>1. Frontier' = Frontier
    BY <1>1 DEF Frontier, Larger
  <2>2. CASE Alive'
    BY <1>2, <1>4, <2>1, <2>2, CoveredKept
  <2>3. CASE ~Alive'
    <3>1. CASE StartupHooksFail
      <4>1. Queued \cup InHand = {}
        <5>1. offset = 0
          BY <3>1 DEF StartupHooksFail, OffsetInv
        <5>2. \A u \in Queued \cup InHand : u \in Nat \ {0} /\ u < offset
          BY Numbers DEF ChanInv, Fetched
        <5> QED
          BY <5>1, <5>2
      <4> QED
        BY <1>2, <2>1, <4>1 DEF Covered, Safe
    <3>2. CASE RunShutdownHooks
      <4>1. Queued \cup InHand = {}
        BY <3>2, Drained DEF RunShutdownHooks
      <4> QED
        BY <1>2, <2>1, <4>1 DEF Covered, Safe
    <3>3. CASE ObserveCancel \/ BackoffElapses \/ CloseUpdateChan \/ AwaitWorkers
      BY <3>3, <2>3 DEF ObserveCancel, BackoffElapses, CloseUpdateChan, AwaitWorkers, Alive, Serving, Polls
    <3> QED
      BY <3>1, <3>2, <3>3
  <2> QED
    BY <2>2, <2>3
<1> QED
  BY <1>3, <1>4, <1>5, <1>6, <1>7

LEMMA StartWorkersStep == ASSUME IndInv, StartWorkers PROVE IndInv'
<1> USE DEF IndInv
<1>1. UNCHANGED <<first, last, runs, offset, at, upto, result, canceled, updateChan, closed, health, job,
                  phase, want, handled, started, lost, dropped>>
  BY DEF StartWorkers, server, history
<1>2. /\ rpc = "start" /\ rpc' \in {"drop", "poll"} /\ status' = "running"
      /\ wpc' = [w \in Workers |-> "receive"] /\ \A w \in Workers : wpc[w] = "unborn"
  BY DEF StartWorkers, DrainInv
<1>3. TypeOK'
  BY <1>1, <1>2 DEF TypeOK, ServerTypes, RunTypes, ChanTypes, PoolTypes, HistoryTypes, Serving, Polls
<1>4. Queued' = Queued /\ InHand' = InHand
  BY <1>1 DEF Queued, InHand
<1>5. PoolInv' /\ ChanInv'
  BY <1>1, <1>2, <1>4 DEF PoolInv, ChanInv, InOrder, Fetched, OneHand, New
<1>6. CountersAddUp'
  <2>1. Running' = {} /\ Running = {}
    BY <1>2 DEF Running
  <2> QED
    BY <1>1, <2>1 DEF CountersAddUp
<1>7. OffsetInv' /\ DrainInv'
  BY <1>1, <1>2 DEF OffsetInv, DrainInv
<1>8. Covered'
  <2>1. Frontier' = Frontier /\ Alive'
    BY <1>1, <1>2 DEF Frontier, Larger, Alive, Serving, Polls
  <2> QED
    BY <1>1, <1>4, <2>1, CoveredKept
<1> QED
  BY <1>3, <1>5, <1>6, <1>7, <1>8
(* Skipping what is pending passes over nothing but what it skips. *)
LEMMA SkipStep == ASSUME IndInv, SkipPendingUpdates \/ SkipPendingFails PROVE IndInv'
<1> USE DEF IndInv
<1>1. UNCHANGED <<last, runs, at, upto, canceled, updateChan, closed, status, health, wpc, job, phase,
                  want, handled, started, lost>>
  BY DEF SkipPendingUpdates, SkipPendingFails, ConfirmAllButLast, server, pool
<1>2. /\ rpc = "drop" /\ offset = 0 /\ rpc' \in {"poll", "stop"} /\ result' \in {result, "error"}
      /\ offset' = 0 \/ (first <= last /\ offset' = last + 1)
  BY DEF SkipPendingUpdates, SkipPendingFails, OffsetInv
<1>3. \/ first <= last /\ first' = last /\ dropped' = dropped \cup first..last
      \/ first > last /\ first' = first /\ dropped' = dropped \cup first..last
      \/ first' = first /\ dropped' = dropped /\ offset' = 0
  BY <1>2, Numbers DEF SkipPendingUpdates, SkipPendingFails, ConfirmAllButLast, server
<1>4. first' \in Nat /\ first' >= first /\ first' <= last + 1 /\ offset' \in 0..(last + 1)
  BY <1>2, <1>3, Numbers DEF OffsetInv
<1>5. TypeOK'
  <2>1. ServerTypes' /\ RunTypes'
    BY <1>1, <1>2, <1>4, Numbers DEF TypeOK, ServerTypes, RunTypes, Serving, Polls
  <2>2. HistoryTypes'
    <3>1. first..last \subseteq Updates
      BY Numbers DEF Updates
    <3> QED
      BY <1>1, <1>3, <3>1 DEF TypeOK, HistoryTypes
  <2> QED
    BY <1>1, <2>1, <2>2 DEF TypeOK, ChanTypes, PoolTypes
<1>6. PoolInv' /\ ChanInv' /\ CountersAddUp' /\ Queued' = Queued /\ InHand' = InHand
  BY <1>1, <1>2, <1>4, MemoryKept
<1>7. OffsetInv' /\ DrainInv'
  BY <1>1, <1>2, <1>4 DEF OffsetInv, DrainInv
<1>8. Covered'
  <2>1. Alive' /\ dropped \subseteq dropped'
    BY <1>2, <1>3 DEF Alive, Serving, Polls
  <2>2. SUFFICES ASSUME NEW u \in Updates, u < Frontier' PROVE u < Frontier \/ u \in dropped'
    BY <1>1, <1>6, <2>1 DEF Covered, Safe
  <2>3. Frontier = first /\ u \in Nat /\ u >= 1 /\ Frontier' \in Nat
    BY <1>2, <1>4, Numbers DEF Frontier, Larger, Updates
  <2>4. CASE first' = first /\ offset' = 0
    BY <2>2, <2>3, <2>4, Numbers DEF Frontier, Larger
  <2>5. CASE first <= last /\ dropped' = dropped \cup first..last
    <3>1. Frontier' <= last + 1 /\ Frontier' \in Nat
      BY <1>4, Numbers DEF Frontier, Larger
    <3> QED
      BY <2>2, <2>3, <2>5, <3>1, Numbers
  <2> QED
    BY <1>2, <1>3, <2>4, <2>5, Numbers
<1> QED
  BY <1>5, <1>6, <1>7, <1>8

(* A poll confirms up to its offset and no further. *)
LEMMA PollStep == ASSUME IndInv, GetUpdates \/ GetUpdatesFails PROVE IndInv'
<1> USE DEF IndInv
<1>1. UNCHANGED <<last, runs, offset, result, canceled, updateChan, closed, status, health, wpc, job, phase,
                  want, handled, started, lost, dropped>>
  BY DEF GetUpdates, GetUpdatesFails, Confirm, server, pool, history
<1>2. rpc = "poll" /\ rpc' \in {"poll", "queue", "backoff"} /\ first' \in {first, Frontier}
  BY DEF GetUpdates, GetUpdatesFails, Confirm, server, Frontier
<1>3. first' \in Nat /\ first' >= first /\ first' <= last + 1 /\ Frontier' = Frontier
  BY <1>1, <1>2, Numbers DEF Frontier, Larger, OffsetInv
<1>4. \/ at' = at /\ upto' = upto /\ rpc' # "queue"
      \/ /\ at' = Frontier' /\ at' = first' /\ upto' \in (first' - 1)..last
         /\ rpc' = "queue" => at' <= upto'
  <2>1. CASE GetUpdates
    <3>1. first' = Frontier' /\ first' = Frontier
      BY <1>1, <1>3, <2>1 DEF GetUpdates, Confirm, Frontier
    <3>2. PICK n \in (first' - 1)..Smaller(last, first' + Limit - 1) :
            at' = first' /\ upto' = n /\ rpc' = IF n < first' THEN "poll" ELSE "queue"
      BY <2>1 DEF GetUpdates
    <3>3. n \in (first' - 1)..last
      <4>1. first' - 1 \in Int /\ last \in Int /\ first' + Limit - 1 \in Int
        BY <1>3, Numbers
      <4>2. (first' - 1)..Smaller(last, first' + Limit - 1) \subseteq (first' - 1)..last
        BY <4>1, Smallest
      <4> QED
        BY <3>2, <4>2
    <3> QED
      BY <1>3, <3>1, <3>2, <3>3
  <2>2. CASE GetUpdatesFails
    BY <2>2 DEF GetUpdatesFails
  <2> QED
    BY <2>1, <2>2
<1>5. TypeOK'
  <2>1. at' \in 1..(MaxUpdate + 1) /\ upto' \in 0..MaxUpdate
    <3>1. at \in 1..(MaxUpdate + 1) /\ upto \in 0..MaxUpdate
      BY DEF TypeOK, RunTypes
    <3> QED
      BY <1>3, <1>4, <3>1, Numbers
  <2>2. ServerTypes' /\ RunTypes'
    BY <1>1, <1>2, <1>3, <2>1, Numbers DEF TypeOK, ServerTypes, RunTypes, Serving, Polls
  <2> QED
    BY <1>1, <2>2 DEF TypeOK, ChanTypes, PoolTypes, HistoryTypes
<1>6. PoolInv' /\ ChanInv' /\ CountersAddUp' /\ Queued' = Queued /\ InHand' = InHand
  BY <1>1, MemoryKept, Numbers
<1>7. OffsetInv'
  BY <1>1, <1>2, <1>3, <1>4, Numbers DEF OffsetInv
<1>8. DrainInv'
  BY <1>1, <1>2 DEF DrainInv
<1>9. Covered'
  BY <1>1, <1>2, <1>3, <1>6, CoveredKept DEF Alive, Serving, Polls
<1> QED
  BY <1>5, <1>6, <1>7, <1>8, <1>9

-----------------------------------------------------------------------------
(* The channel *)

(* The update goes into the channel and the offset over it, in one step as    *)
(* far as Telegram can see.                                                   *)
LEMMA EnqueueStep == ASSUME IndInv, Enqueue PROVE IndInv'
<1> USE DEF IndInv
<1>1. UNCHANGED <<first, last, runs, upto, result, canceled, closed, status, health, wpc, job, phase, want,
                  handled, started, lost, dropped>>
  BY DEF Enqueue, server, pool, history
<1>2. /\ rpc = "queue" /\ at = Frontier /\ at <= upto /\ upto <= last /\ first <= at /\ offset <= at
      /\ offset' = at + 1 /\ at' = at + 1 /\ Frontier' = at + 1
      /\ rpc' \in {"poll", "queue"} /\ (rpc' = "queue" => at # upto)
  BY Numbers DEF Enqueue, OffsetInv, Frontier, Larger, server
<1>3. at \in Updates /\ \A u \in Queued \cup InHand \cup started : u < at
  <2>1. \A u \in Queued \cup InHand \cup started : u \in Nat /\ u < offset
    BY Numbers DEF ChanInv, Fetched
  <2> QED
    BY <1>2, <2>1, Numbers DEF Updates
<1>4. /\ updateChan' = Append(updateChan, at) /\ Len(updateChan) < BufferSize
      /\ updateChan \in Seq(Updates)
  BY DEF Enqueue, TypeOK, ChanTypes
<1>5. TypeOK'
  <2>1. ChanTypes'
    BY <1>3, <1>4 DEF ChanTypes
  <2>2. RunTypes'
    BY <1>1, <1>2, Numbers DEF TypeOK, RunTypes, Serving, Polls
  <2> QED
    BY <1>1, <2>1, <2>2 DEF TypeOK, ServerTypes, PoolTypes, HistoryTypes
<1>6. Queued' = Queued \cup {at} /\ InHand' = InHand /\ Running' = Running
  BY <1>1, Appended DEF InHand, Running
<1>7. ChanInv'
  <2>1. InOrder'
    <3>1. \A i \in 1..Len(updateChan) : updateChan[i] < at
      BY <1>3 DEF Queued
    <3> QED
      BY <1>4, <3>1 DEF ChanInv, InOrder
  <2>2. Fetched'
    <3>1. \A u \in Queued \cup InHand \cup started \cup {at} : u \in Nat /\ u <= at
      BY <1>3, Numbers
    <3> QED
      BY <1>1, <1>2, <1>6, <3>1, Numbers DEF Fetched
  <2>3. at \notin InHand \cup started
    BY <1>3, Numbers
  <2> QED
    BY <1>1, <1>6, <2>1, <2>2, <2>3 DEF ChanInv, OneHand, New
<1>8. PoolInv' /\ CountersAddUp'
  BY <1>1, <1>6 DEF PoolInv, CountersAddUp
<1>9. OffsetInv' /\ DrainInv'
  <2>1. OffsetInv'
    BY <1>1, <1>2, Numbers DEF OffsetInv
  <2>2. ~closed /\ \A w \in Workers : wpc[w] # "exited"
    BY <1>2 DEF DrainInv
  <2> QED
    BY <1>1, <1>2, <2>1, <2>2 DEF DrainInv
<1>10. Covered'
  <2>1. \A u \in Updates : u < Frontier' => u < Frontier \/ u = at
    BY <1>2, Numbers DEF Updates
  <2>2. Alive /\ Alive'
    BY <1>2 DEF Alive, Serving, Polls
  <2> QED
    BY <1>1, <1>6, <2>1, <2>2 DEF Covered, Safe
<1> QED
  BY <1>5, <1>7, <1>8, <1>9, <1>10
-----------------------------------------------------------------------------
(* The workers *)

(* What a step of a worker leaves alone: Run, Telegram and the offset. *)
LEMMA RunKept ==
  ASSUME TypeOK, OffsetInv, UNCHANGED <<server, runs, poller, canceled, closed, status>>
  PROVE  /\ ServerTypes' /\ RunTypes' /\ canceled' \in BOOLEAN /\ closed' \in BOOLEAN /\ OffsetInv'
         /\ Frontier' = Frontier /\ Alive' = Alive /\ offset' = offset
BY DEF server, poller, TypeOK, ServerTypes, RunTypes, OffsetInv, Frontier, Larger, Alive

(* The update goes from the channel to a hand. *)
LEMMA ReceiveStep == ASSUME IndInv, NEW w \in Workers, Receive(w) PROVE IndInv'
<1> USE DEF IndInv
<1> DEFINE u == Head(updateChan)
<1>1. /\ UNCHANGED <<server, runs, poller, canceled, closed, status, health, handled, started, lost, dropped>>
      /\ Alive /\ wpc[w] = "receive" /\ updateChan # <<>>
      /\ job' = [job EXCEPT ![w] = u] /\ wpc' = [wpc EXCEPT ![w] = "lock"]
      /\ phase' = [phase EXCEPT ![w] = "waiting"] /\ want' = [want EXCEPT ![w] = KeyOf[u]]
  BY DEF Receive, history, DispatchLock!Request
<1>2. u \in Updates /\ Queued = Queued' \cup {u} /\ u \notin Queued' /\ InOrder'
      /\ updateChan' \in Seq(Updates) /\ Len(updateChan') = Len(updateChan) - 1
  BY Received DEF ChanInv
<1>3. InHand' = InHand \cup {u} /\ job[w] = None
  BY <1>1, <1>2, Taken DEF PoolInv
<1>4. Running' = Running
  BY <1>1 DEF Running, TypeOK, PoolTypes
<1>5. TypeOK'
  <2>1. ChanTypes'
    BY <1>2 DEF TypeOK, ChanTypes
  <2>2. PoolTypes'
    BY <1>1, <1>2 DEF TypeOK, PoolTypes, Updates
  <2> QED
    BY <1>1, <2>1, <2>2, RunKept DEF TypeOK, HistoryTypes
<1>6. PoolInv' /\ CountersAddUp'
  BY <1>1, <1>2, <1>4 DEF PoolInv, CountersAddUp, TypeOK, PoolTypes, Updates
<1>7. ChanInv'
  <2>1. u \notin InHand \cup started
    BY <1>2 DEF ChanInv, New
  <2>2. Fetched'
    BY <1>1, <1>2, <1>3, RunKept DEF ChanInv, Fetched
  <2>3. OneHand'
    BY <1>1, <2>1 DEF ChanInv, OneHand, InHand, TypeOK, PoolTypes
  <2>4. New'
    BY <1>1, <1>2, <1>3, <2>1 DEF ChanInv, New, TypeOK, PoolTypes
  <2> QED
    BY <1>2, <2>2, <2>3, <2>4 DEF ChanInv
<1>8. DrainInv'
  BY <1>1, RunKept DEF DrainInv, TypeOK, PoolTypes, Alive, Serving, Polls, poller
<1>9. Covered'
  BY <1>1, <1>2, <1>3, RunKept DEF Covered, Safe
<1> QED
  BY <1>1, <1>5, <1>6, <1>7, <1>8, <1>9, RunKept

(* Its dispatch is counted as it starts. *)
LEMMA BeginStep == ASSUME IndInv, NEW w \in Workers, Begin(w) PROVE IndInv'
<1> USE DEF IndInv
<1>1. /\ UNCHANGED <<server, runs, poller, canceled, updateChan, closed, status, job, want, handled, lost, dropped>>
      /\ Alive /\ wpc[w] = "lock" /\ wpc' = [wpc EXCEPT ![w] = "run"]
      /\ phase' = [phase EXCEPT ![w] = "holding"]
      /\ health' = [health EXCEPT !.dispatched = @ + 1] /\ started' = started \cup {job[w]}
  BY DEF Begin, DispatchLock!Grant
<1>2. job[w] # None /\ job[w] \in InHand /\ job[w] \in Updates
  BY <1>1 DEF PoolInv, InHand, TypeOK, PoolTypes
<1>3. Queued' = Queued /\ InHand' = InHand
  BY <1>1 DEF Queued, InHand
<1>4. TypeOK'
  <2>1. ChanTypes' /\ PoolTypes' /\ HistoryTypes'
    BY <1>1, <1>2 DEF TypeOK, ChanTypes, PoolTypes, HistoryTypes
  <2>2. health' \in Counters
    BY <1>1 DEF TypeOK, Counters
  <2> QED
    BY <1>1, <2>1, <2>2, RunKept DEF TypeOK
<1>5. PoolInv'
  BY <1>1, <1>2 DEF PoolInv, TypeOK, PoolTypes
<1>6. CountersAddUp'
  <2>1. Running' = Running \cup {w} /\ w \notin Running
    BY <1>1 DEF Running, TypeOK, PoolTypes
  <2>2. Cardinality(Running') = Cardinality(Running) + 1
    BY <2>1, RunningFinite, FS_AddElement
  <2>3. health.matched \in Nat /\ health.unmatched \in Nat /\ health.dispatched \in Nat
        /\ health'.dispatched = health.dispatched + 1 /\ health'.errors = health.errors
        /\ health'.matched = health.matched /\ health'.unmatched = health.unmatched
    BY <1>1 DEF TypeOK, Counters
  <2> QED
    BY <2>2, <2>3, RunningFinite DEF CountersAddUp
<1>7. ChanInv'
  <2>1. InOrder' /\ OneHand' /\ Fetched'
    BY <1>1, <1>2, <1>3, RunKept DEF ChanInv, InOrder, OneHand, Fetched
  <2>2. New'
    BY <1>1, <1>2, <1>3 DEF ChanInv, New, OneHand, TypeOK, PoolTypes, PoolInv
  <2> QED
    BY <2>1, <2>2 DEF ChanInv
<1>8. DrainInv'
  BY <1>1, RunKept DEF DrainInv, TypeOK, PoolTypes, Alive, Serving, Polls, poller
<1>9. Covered'
  BY <1>1, <1>3, RunKept DEF Covered, Safe
<1> QED
  BY <1>1, <1>4, <1>5, <1>6, <1>7, <1>8, <1>9, RunKept

(* An outcome is a match or none, and an error only with a match. *)
LEMMA Counted ==
  ASSUME NEW h \in Counters, h.errors <= h.matched,
         NEW g \in {[h EXCEPT !.unmatched = @ + 1], [h EXCEPT !.matched = @ + 1],
                    [h EXCEPT !.matched = @ + 1, !.errors = @ + 1]}
  PROVE  /\ g \in Counters /\ g.dispatched = h.dispatched
         /\ g.matched + g.unmatched = h.matched + h.unmatched + 1 /\ g.errors <= g.matched
<1>1. h.dispatched \in Nat /\ h.matched \in Nat /\ h.unmatched \in Nat /\ h.errors \in Nat
  BY DEF Counters
<1> DEFINE Unmatched == [dispatched |-> h.dispatched, matched |-> h.matched, unmatched |-> h.unmatched + 1, errors |-> h.errors]
           Matched   == [dispatched |-> h.dispatched, matched |-> h.matched + 1, unmatched |-> h.unmatched, errors |-> h.errors]
           Failed    == [dispatched |-> h.dispatched, matched |-> h.matched + 1, unmatched |-> h.unmatched, errors |-> h.errors + 1]
<1>2. g \in {Unmatched, Matched, Failed}
  <2>1. [h EXCEPT !.unmatched = @ + 1] = Unmatched
    BY DEF Counters
  <2>2. [h EXCEPT !.matched = @ + 1] = Matched
    BY DEF Counters
  <2>3. [h EXCEPT !.matched = @ + 1, !.errors = @ + 1] = Failed
    <3>1. [h EXCEPT !.matched = @ + 1, !.errors = @ + 1] = [Matched EXCEPT !.errors = h.errors + 1]
      BY <2>2
    <3> QED
      BY <3>1
  <2> QED
    BY <2>1, <2>2, <2>3
<1>3. g.dispatched = h.dispatched /\ g.matched + g.unmatched = h.matched + h.unmatched + 1
  <2>1. CASE g = Unmatched
    BY <1>1, <2>1
  <2>2. CASE g = Matched
    BY <1>1, <2>2
  <2>3. CASE g = Failed
    BY <1>1, <2>3
  <2> QED
    BY <1>2, <2>1, <2>2, <2>3
<1>4. g.errors <= g.matched
  BY <1>1, <1>2
<1>5. g \in Counters
  BY <1>1, <1>2 DEF Counters
<1> QED
  BY <1>3, <1>4, <1>5

(* Its outcome is counted once, as its handler is done. *)
LEMMA OutcomeStep == ASSUME IndInv, NEW w \in Workers, Outcome(w) PROVE IndInv'
<1> USE DEF IndInv
<1>1. /\ UNCHANGED <<server, runs, poller, canceled, updateChan, closed, status, job, phase, want, handled,
                     started, lost, dropped>>
      /\ Alive /\ wpc[w] = "run" /\ wpc' = [wpc EXCEPT ![w] = "unlock"]
  BY DEF Outcome, history
<1>2. Queued' = Queued /\ InHand' = InHand
  BY <1>1 DEF Queued, InHand
<1>3. health' \in Counters /\ CountersAddUp'
  <2>1. Running' = Running \ {w} /\ w \in Running
    BY <1>1 DEF Running, TypeOK, PoolTypes
  <2>2. Cardinality(Running') = Cardinality(Running) - 1
    BY <2>1, RunningFinite, FS_RemoveElement
  <2>3. /\ health \in Counters
        /\ health.matched \in Nat /\ health.unmatched \in Nat /\ health.dispatched \in Nat
        /\ health.errors \in Nat /\ Cardinality(Running) \in Nat
        /\ health.dispatched = health.matched + health.unmatched + Cardinality(Running)
        /\ health.errors <= health.matched
    BY RunningFinite DEF TypeOK, Counters, CountersAddUp
  <2>4. /\ health' \in Counters /\ health'.dispatched = health.dispatched
        /\ health'.matched + health'.unmatched = health.matched + health.unmatched + 1
        /\ health'.errors <= health'.matched
    BY <2>3, Counted DEF Outcome
  <2>5. health'.matched \in Nat /\ health'.unmatched \in Nat
    BY <2>4 DEF Counters
  <2> QED
    BY <2>2, <2>3, <2>4, <2>5 DEF CountersAddUp
<1>4. TypeOK'
  <2>1. ChanTypes' /\ PoolTypes' /\ HistoryTypes'
    BY <1>1 DEF TypeOK, ChanTypes, PoolTypes, HistoryTypes
  <2> QED
    BY <1>1, <1>3, <2>1, RunKept DEF TypeOK
<1>5. PoolInv'
  BY <1>1 DEF PoolInv, TypeOK, PoolTypes
<1>6. ChanInv'
  <2>1. InOrder' /\ OneHand'
    BY <1>1 DEF ChanInv, InOrder, OneHand, TypeOK, PoolTypes
  <2>2. Fetched'
    BY <1>1, <1>2, RunKept DEF ChanInv, Fetched
  <2>3. New'
    BY <1>1, <1>2 DEF ChanInv, New, TypeOK, PoolTypes
  <2> QED
    BY <2>1, <2>2, <2>3 DEF ChanInv
<1>7. DrainInv'
  BY <1>1, RunKept DEF DrainInv, TypeOK, PoolTypes, Alive, Serving, Polls, poller
<1>8. Covered'
  BY <1>1, <1>2, RunKept DEF Covered, Safe
<1> QED
  BY <1>1, <1>3, <1>4, <1>5, <1>6, <1>7, <1>8, RunKept

(* Its update leaves the hand for the history. *)
LEMMA FinishStep == ASSUME IndInv, NEW w \in Workers, Finish(w) PROVE IndInv'
<1> USE DEF IndInv
<1>1. /\ UNCHANGED <<server, runs, poller, canceled, updateChan, closed, status, health, started, lost, dropped>>
      /\ Alive /\ wpc[w] = "unlock" /\ wpc' = [wpc EXCEPT ![w] = "receive"]
      /\ job' = [job EXCEPT ![w] = None] /\ handled' = handled \cup {job[w]}
      /\ phase' = [phase EXCEPT ![w] = "idle"] /\ want' = [want EXCEPT ![w] = None]
  BY DEF Finish, DispatchLock!Release
<1>2. Queued' = Queued /\ InHand' = InHand \ {job[w]} /\ job[w] \in InHand /\ Running' = Running
  BY <1>1, PutDown DEF Queued, ChanInv, Running, TypeOK, PoolTypes
<1>3. TypeOK'
  <2>1. ChanTypes' /\ PoolTypes' /\ HistoryTypes'
    BY <1>1, <1>2, MemoryTypes DEF TypeOK, ChanTypes, PoolTypes, HistoryTypes
  <2> QED
    BY <1>1, <2>1, RunKept DEF TypeOK
<1>4. PoolInv' /\ CountersAddUp'
  BY <1>1, <1>2 DEF PoolInv, CountersAddUp, TypeOK, PoolTypes
<1>5. ChanInv'
  <2>1. InOrder' /\ OneHand'
    BY <1>1 DEF ChanInv, InOrder, OneHand, TypeOK, PoolTypes
  <2>2. Fetched'
    BY <1>1, <1>2, RunKept DEF ChanInv, Fetched
  <2>3. New'
    BY <1>1, <1>2 DEF ChanInv, New, TypeOK, PoolTypes
  <2> QED
    BY <2>1, <2>2, <2>3 DEF ChanInv
<1>6. DrainInv'
  BY <1>1, RunKept DEF DrainInv, TypeOK, PoolTypes, Alive, Serving, Polls, poller
<1>7. Covered'
  BY <1>1, <1>2, RunKept DEF Covered, Safe
<1> QED
  BY <1>1, <1>3, <1>4, <1>5, <1>6, <1>7, RunKept

(* A worker leaves when the channel is closed and empty. *)
LEMMA ExitStep == ASSUME IndInv, NEW w \in Workers, Exit(w) PROVE IndInv'
<1> USE DEF IndInv
<1>1. /\ UNCHANGED <<server, runs, poller, canceled, updateChan, closed, status, health, job, phase, want,
                     handled, started, lost, dropped>>
      /\ Alive /\ wpc[w] = "receive" /\ closed /\ updateChan = <<>> /\ wpc' = [wpc EXCEPT ![w] = "exited"]
  BY DEF Exit, history
<1>2. Queued' = Queued /\ InHand' = InHand /\ Running' = Running
  BY <1>1 DEF Queued, InHand, Running, TypeOK, PoolTypes
<1>3. TypeOK'
  <2>1. ChanTypes' /\ PoolTypes' /\ HistoryTypes'
    BY <1>1 DEF TypeOK, ChanTypes, PoolTypes, HistoryTypes
  <2> QED
    BY <1>1, <2>1, RunKept DEF TypeOK
<1>4. PoolInv' /\ CountersAddUp'
  BY <1>1, <1>2 DEF PoolInv, CountersAddUp, TypeOK, PoolTypes
<1>5. ChanInv'
  <2>1. InOrder' /\ OneHand'
    BY <1>1 DEF ChanInv, InOrder, OneHand, TypeOK, PoolTypes
  <2>2. Fetched'
    BY <1>1, <1>2, RunKept DEF ChanInv, Fetched
  <2>3. New'
    BY <1>1, <1>2 DEF ChanInv, New, TypeOK, PoolTypes
  <2> QED
    BY <2>1, <2>2, <2>3 DEF ChanInv
<1>6. DrainInv'
  BY <1>1, RunKept DEF DrainInv, TypeOK, PoolTypes, Alive, Serving, Polls, poller
<1>7. Covered'
  BY <1>1, <1>2, RunKept DEF Covered, Safe
<1> QED
  BY <1>1, <1>3, <1>4, <1>5, <1>6, <1>7, RunKept

LEMMA IndInvStep == ASSUME IndInv, [Next]_vars PROVE IndInv'
BY OutsideStep, CrashStep, RestartStep, ControlStep, StartWorkersStep, SkipStep, PollStep, EnqueueStep,
   ReceiveStep, BeginStep, OutcomeStep, FinishStep, ExitStep
   DEF Next, RunNext, WorkerNext

-----------------------------------------------------------------------------
(* The theorems.  They are about SafeSpec: safety owes nothing to fairness. *)

(* The inductive invariant holds, with it the types of all variables.         *)
THEOREM Inductive == SafeSpec => []IndInv
BY InitInv, IndInvStep, PTL DEF SafeSpec

(* No update that Telegram has forgotten is lost but by a crash: whatever the *)
(* buffer, the batches, the workers and the number of restarts.               *)
THEOREM NothingLost == SafeSpec => []NoUpdateLost
<1>1. IndInv => NoUpdateLost
  <2> SUFFICES ASSUME IndInv, NEW u \in 1..(first - 1) PROVE Safe(u)
    BY DEF NoUpdateLost, Safe
  <2>1. first \in Nat /\ first <= MaxUpdate + 1 /\ Frontier >= first
    BY Numbers DEF IndInv, OffsetInv, Frontier, Larger
  <2>2. u \in Updates /\ u < first
    BY <2>1 DEF Updates
  <2>3. u < Frontier
    BY <2>1, <2>2, Numbers DEF IndInv, Updates, Frontier, Larger
  <2> QED
    BY <2>2, <2>3 DEF IndInv, Covered
<1> QED
  BY <1>1, Inductive, PTL

(* One process dispatches no update twice. *)
THEOREM AtMostOnce == SafeSpec => []AtMostOncePerProcess
<1>1. IndInv => AtMostOncePerProcess
  <2> SUFFICES ASSUME IndInv PROVE AtMostOncePerProcess
    OBVIOUS
  <2>1. \A i, j \in 1..Len(updateChan) : updateChan[i] = updateChan[j] => i = j
    <3>1. \A i \in 1..Len(updateChan) : updateChan[i] \in Nat
      BY DEF IndInv, TypeOK, ChanTypes, Updates
    <3>2. Len(updateChan) \in Nat
      BY DEF IndInv, TypeOK, ChanTypes
    <3> QED
      BY <3>1, <3>2 DEF IndInv, ChanInv, InOrder
  <2> QED
    BY <2>1 DEF IndInv, ChanInv, OneHand, New, AtMostOncePerProcess
<1> QED
  BY <1>1, Inductive, PTL

(* Shutdown hooks run after the drain, with nothing queued, in hand or        *)
(* locked, however many workers there were.                                   *)
THEOREM HooksLast == SafeSpec => []HooksAfterDrain
BY HooksInv, Inductive, PTL

(* The health counters agree with each other and with the handlers that run.  *)
THEOREM CountersRight == SafeSpec => []CountersAddUp
<1>1. IndInv => CountersAddUp
  BY DEF IndInv
<1> QED
  BY <1>1, Inductive, PTL
=============================================================================
