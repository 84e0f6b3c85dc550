------------------------------- MODULE Polling -------------------------------
(***************************************************************************)
(* The long-polling runtime (bot.go): TelegramBot.Run fetching updates     *)
(* from Telegram with an offset and queueing them on updateChan, the       *)
(* worker pool that dispatches them under the per-key lock, the health     *)
(* counters, cancellation, the draining shutdown, crashes and restarts.    *)
(*                                                                         *)
(* Telegram confirms (forgets) every update below the offset of a          *)
(* getUpdates call, so the offset must never overtake what the process is  *)
(* sure to handle.  Update ids are consecutive, hence the server's queue   *)
(* is an interval and so is every batch it returns.                        *)
(***************************************************************************)
EXTENDS Integers, FiniteSets, Sequences

CONSTANTS
  Workers,      \* the worker goroutines (WithWorkers)
  Keys,         \* storage keys
  None,         \* nil
  MaxUpdate,    \* bound: updates Telegram receives for the bot
  KeyOf,        \* KeyOf[u]: the {chat, user} key of update u
  BufferSize,   \* capacity of updateChan (WithUpdateBuffer)
  Limit,        \* bound: the most updates one getUpdates call returns
  MaxRuns,      \* bound: processes started one after the other
  DropPending,  \* WithDropPendingUpdates: the choices a process may be started with
  Undecodable   \* updates with a union member this build has no type for

ASSUME PollingAssumption ==
  /\ IsFiniteSet(Workers) /\ Workers # {}
  /\ None \notin Keys /\ None \notin 1..MaxUpdate
  /\ MaxUpdate \in Nat /\ KeyOf \in [1..MaxUpdate -> Keys]
  /\ BufferSize \in Nat \ {0} /\ Limit \in Nat \ {0} /\ MaxRuns \in Nat \ {0}
  /\ DropPending \subseteq BOOLEAN
  /\ Undecodable \subseteq 1..MaxUpdate

VARIABLES
  first,      \* Telegram: the lowest update id not yet confirmed
  last,       \* Telegram: the highest update id received so far
  runs,       \* processes started so far
  rpc,        \* where the goroutine inside Run is
  offset,     \* Run's offset
  at,         \* Run's range loop: the next update of the batch to queue
  upto,       \* Run's range loop: the last update of the batch
  canceled,   \* ctx is done
  result,     \* what Run returned: "none" (still running), "nil" or "error"
  updateChan, \* the buffered channel
  closed,     \* updateChan has been closed
  status,     \* healthMonitor.status
  health,     \* healthMonitor's counters
  wpc,        \* wpc[w]: where worker w is
  job,        \* job[w]: the update w received, or None
  phase,      \* the per-key lock (module KeyLock): what each worker does with it
  want,       \* the per-key lock: the key each worker asked for
  handled,    \* history: updates whose dispatch has finished, ever
  started,    \* history: updates dispatched by the current process
  lost,       \* history: updates that were in memory when a process crashed
  dropped     \* history: updates skipped by WithDropPendingUpdates

server  == <<first, last>>
poller  == <<rpc, offset, at, upto, result>>
pool    == <<wpc, job, phase, want>>
history == <<handled, started, lost, dropped>>
vars    == <<server, runs, poller, canceled, updateChan, closed, status, health,
             pool, history>>

DispatchLock == INSTANCE KeyLock WITH Threads <- Workers, StuckKeys <- {}

-----------------------------------------------------------------------------

Updates == 1..MaxUpdate

Counters == [dispatched : Nat, matched : Nat, unmatched : Nat, errors : Nat]

NoCounts == [dispatched |-> 0, matched |-> 0, unmatched |-> 0, errors |-> 0]

Larger(a, b) == IF a > b THEN a ELSE b

Smaller(a, b) == IF a < b THEN a ELSE b

Queued == {updateChan[i] : i \in 1..Len(updateChan)}

InHand == {job[w] : w \in Workers} \ {None}

Running == {w \in Workers : wpc[w] = "run"}

(* Run is past startWorkers and has not returned. *)
Polls   == {"poll", "backoff", "queue"}
Serving == Polls \cup {"drop", "stop", "drain", "hooks"}

Alive == rpc \in Serving \cup {"start"}

Init ==
  /\ first = 1 /\ last = 0
  /\ runs = 1
  /\ rpc = "start" /\ offset = 0 /\ at = 1 /\ upto = 0
  /\ canceled = FALSE /\ result = "none"
  /\ updateChan = <<>> /\ closed = FALSE
  /\ status = "starting" /\ health = NoCounts
  /\ wpc = [w \in Workers |-> "unborn"] /\ job = [w \in Workers |-> None]
  /\ DispatchLock!Init
  /\ handled = {} /\ started = {} /\ lost = {} /\ dropped = {}

-----------------------------------------------------------------------------
(* The world outside: Telegram's users, the operator, failures. *)

(* A user acts: Telegram queues an update for the bot. *)
NewUpdate ==
  /\ last < MaxUpdate
  /\ last' = last + 1
  /\ UNCHANGED <<first, runs, poller, canceled, updateChan, closed, status, health,
                 pool, history>>

(* The caller cancels the context it gave to Run. *)
Cancel ==
  /\ Alive
  /\ ~canceled
  /\ canceled' = TRUE
  /\ UNCHANGED <<server, runs, poller, updateChan, closed, status, health, pool, history>>

(* Nothing of a process survives it. *)
Forget ==
  /\ offset' = 0 /\ at' = 1 /\ upto' = 0
  /\ canceled' = FALSE /\ result' = "none"
  /\ updateChan' = <<>> /\ closed' = FALSE
  /\ status' = "starting" /\ health' = NoCounts
  /\ wpc' = [w \in Workers |-> "unborn"] /\ job' = [w \in Workers |-> None]
  /\ phase' = [w \in Workers |-> "idle"] /\ want' = [w \in Workers |-> None]
  /\ started' = {}

(* The process dies: a kill, or a panic nothing recovers (TelegramBot.OnError's *)
(* handler runs outside safeDispatch's recover).                               *)
Crash ==
  /\ Alive
  /\ rpc'  = "dead"
  /\ lost' = lost \cup Queued \cup InHand
  /\ Forget
  /\ UNCHANGED <<server, runs, handled, dropped>>

(* A new TelegramBot in a new process *)
Restart ==
  /\ rpc \in {"returned", "dead"}
  /\ runs < MaxRuns
  /\ runs' = runs + 1
  /\ rpc'  = "start"
  /\ Forget
  /\ UNCHANGED <<server, handled, lost, dropped>>

-----------------------------------------------------------------------------
(* TelegramBot.Run *)

StartupHooksFail ==
  /\ rpc = "start"
  /\ rpc'    = "returned"
  /\ result' = "error"
  /\ status' = "error"
  /\ UNCHANGED <<server, runs, offset, at, upto, canceled, updateChan, closed, health,
                 pool, history>>

(* runStartupHooks succeeds and startWorkers spawns the pool *)
StartWorkers ==
  /\ rpc = "start"
  /\ \E drop \in DropPending : rpc' = IF drop THEN "drop" ELSE "poll"
  /\ status' = "running"
  /\ wpc'    = [w \in Workers |-> "receive"]
  /\ UNCHANGED <<server, runs, offset, at, upto, result, canceled, updateChan, closed,
                 health, job, phase, want, history>>

(* Mutant of SkipPendingUpdates: the offset overshoots by one. *)
SkipPendingTooFar ==
  /\ rpc = "drop"
  /\ rpc'     = "poll"
  /\ first'   = IF first <= last THEN last ELSE first
  /\ offset'  = IF first <= last /\ last < MaxUpdate THEN last + 2 ELSE 0
  /\ dropped' = dropped \cup first..last
  /\ UNCHANGED <<last, runs, at, upto, result, canceled, updateChan, closed, status,
                 health, pool, handled, started, lost>>

(* Mutant of SkipPendingFails: the deferred StopWorkers is skipped. *)
SkipPendingFailsUndrained ==
  /\ rpc = "drop"
  /\ rpc'    = "hooks"
  /\ result' = "error"
  /\ UNCHANGED <<server, runs, offset, at, upto, canceled, updateChan, closed, status,
                 health, pool, history>>

(* What Telegram does with getUpdates(offset -1): it answers with the last    *)
(* update and forgets the others.                                            *)
ConfirmAllButLast ==
  /\ first'   = IF first <= last THEN last ELSE first
  /\ dropped' = dropped \cup first..last
  /\ UNCHANGED last

SkipPendingUpdates ==
  /\ rpc = "drop"
  /\ first <= last => last \notin Undecodable
  /\ rpc'     = "poll"
  /\ offset'  = IF first <= last THEN last + 1 ELSE 0
  /\ ConfirmAllButLast
  /\ UNCHANGED <<runs, at, upto, result, canceled, updateChan, closed, status,
                 health, pool, handled, started, lost>>

(* The call fails, or its answer cannot be decoded. *)
SkipPendingFails ==
  /\ rpc = "drop"
  /\ rpc'    = "stop"
  /\ result' = "error"
  /\ ConfirmAllButLast \/ UNCHANGED <<server, dropped>>
  /\ UNCHANGED <<runs, offset, at, upto, canceled, updateChan, closed, status,
                 health, pool, handled, started, lost>>

(* The ctx checks: at the top of the loop and after a failed call, in the    *)
(* backoff's select, and in the select that queues an update.                *)
ObserveCancel ==
  /\ rpc \in Polls
  /\ canceled
  /\ rpc'    = "stop"
  /\ result' = "nil"
  /\ UNCHANGED <<server, runs, offset, at, upto, canceled, updateChan, closed, status,
                 health, pool, history>>

(* What Telegram does with getUpdates(offset): confirm, then pick a batch,    *)
(* which is empty when the long poll times out.                               *)
Confirm == first' = Larger(first, offset) /\ UNCHANGED last

(* A batch arrives: Run starts to queue it, its offset still where it was.    *)
(* json.Unmarshal decodes all of it or none.                                 *)
GetUpdates ==
  /\ rpc = "poll"
  /\ Confirm
  /\ \E n \in (first' - 1)..Smaller(last, first' + Limit - 1) :
       /\ first'..n \cap Undecodable = {}
       /\ at'   = first'
       /\ upto' = n
       /\ rpc'  = IF n < first' THEN "poll" ELSE "queue"
  /\ UNCHANGED <<runs, offset, result, canceled, updateChan, closed, status, health,
                 pool, history>>

(* The call fails: Telegram may have served it and only the answer be lost,   *)
(* or an update in the answer is one the bot cannot decode.                  *)
GetUpdatesFails ==
  /\ rpc = "poll"
  /\ Confirm \/ UNCHANGED server
  /\ rpc' = "backoff"
  /\ UNCHANGED <<runs, offset, at, upto, result, canceled, updateChan, closed, status,
                 health, pool, history>>

(* Mutant of BackoffElapses: a failed poll ends Run. *)
GiveUp ==
  /\ rpc = "backoff"
  /\ rpc'    = "stop"
  /\ result' = "error"
  /\ UNCHANGED <<server, runs, offset, at, upto, canceled, updateChan, closed, status,
                 health, pool, history>>

BackoffElapses ==
  /\ rpc = "backoff"
  /\ rpc' = "poll"
  /\ UNCHANGED <<server, runs, offset, at, upto, result, canceled, updateChan, closed,
                 status, health, pool, history>>

(* Mutant of Enqueue: the offset is left behind, so the update is fetched again. *)
EnqueueStaleOffset ==
  /\ rpc = "queue"
  /\ Len(updateChan) < BufferSize
  /\ updateChan' = Append(updateChan, at)
  /\ offset'     = at
  /\ at'         = at + 1
  /\ rpc'        = IF at = upto THEN "poll" ELSE "queue"
  /\ UNCHANGED <<server, runs, upto, result, canceled, closed, status, health, pool, history>>

(* b.updateChan <- update; offset = update.UpdateID + 1 *)
Enqueue ==
  /\ rpc = "queue"
  /\ Len(updateChan) < BufferSize
  /\ updateChan' = Append(updateChan, at)
  /\ offset'     = at + 1
  /\ at'         = at + 1
  /\ rpc'        = IF at = upto THEN "poll" ELSE "queue"
  /\ UNCHANGED <<server, runs, upto, result, canceled, closed, status, health, pool, history>>

(* Mutant of CloseUpdateChan: the channel is never closed. *)
ForgetToClose ==
  /\ rpc = "stop"
  /\ rpc'    = "drain"
  /\ status' = "stopping"
  /\ UNCHANGED <<server, runs, offset, at, upto, result, canceled, updateChan, closed,
                 health, pool, history>>

(* StopWorkers: SetStatus("stopping"), close(updateChan) *)
CloseUpdateChan ==
  /\ rpc = "stop"
  /\ rpc'    = "drain"
  /\ status' = "stopping"
  /\ closed' = TRUE
  /\ UNCHANGED <<server, runs, offset, at, upto, result, canceled, updateChan, health,
                 pool, history>>

(* Mutant of AwaitWorkers: an idle pool is taken for a finished one. *)
AwaitNoJob ==
  /\ rpc = "drain"
  /\ \A w \in Workers : job[w] = None
  /\ rpc'    = "hooks"
  /\ status' = "stopped"
  /\ UNCHANGED <<server, runs, offset, at, upto, result, canceled, updateChan, closed,
                 health, pool, history>>

(* StopWorkers: wg.Wait(), SetStatus("stopped") *)
AwaitWorkers ==
  /\ rpc = "drain"
  /\ \A w \in Workers : wpc[w] = "exited"
  /\ rpc'    = "hooks"
  /\ status' = "stopped"
  /\ UNCHANGED <<server, runs, offset, at, upto, result, canceled, updateChan, closed,
                 health, pool, history>>

(* runShutdownHooks: errors are only logged *)
RunShutdownHooks ==
  /\ rpc = "hooks"
  /\ rpc' = "returned"
  /\ UNCHANGED <<server, runs, offset, at, upto, result, canceled, updateChan, closed,
                 status, health, pool, history>>

-----------------------------------------------------------------------------
(* A worker: range over updateChan, dispatchCtx for each update. *)

(* The receive, and the call of dispatchLocks.Lock(key) it leads to. *)
Receive(w) ==
  /\ Alive
  /\ wpc[w] = "receive"
  /\ updateChan # <<>>
  /\ updateChan' = Tail(updateChan)
  /\ job'        = [job EXCEPT ![w] = Head(updateChan)]
  /\ wpc'        = [wpc EXCEPT ![w] = "lock"]
  /\ DispatchLock!Request(w, KeyOf[Head(updateChan)])
  /\ UNCHANGED <<server, runs, poller, canceled, closed, status, health, history>>

(* Lock returns; IncrementDispatched *)
Begin(w) ==
  /\ Alive
  /\ wpc[w] = "lock"
  /\ DispatchLock!Grant(w)
  /\ wpc'     = [wpc EXCEPT ![w] = "run"]
  /\ health'  = [health EXCEPT !.dispatched = @ + 1]
  /\ started' = started \cup {job[w]}
  /\ UNCHANGED <<server, runs, poller, canceled, updateChan, closed, status, job,
                 handled, lost, dropped>>

(* Mutant of Outcome: a panic is recovered without counting a match. *)
OutcomePanicUncounted(w) ==
  /\ Alive
  /\ wpc[w] = "run"
  /\ wpc' = [wpc EXCEPT ![w] = "unlock"]
  /\ \/ health' = [health EXCEPT !.unmatched = @ + 1]
     \/ health' = [health EXCEPT !.matched = @ + 1]
     \/ health' = [health EXCEPT !.errors = @ + 1]
  /\ UNCHANGED <<server, runs, poller, canceled, updateChan, closed, status, job,
                 phase, want, history>>

(* safeDispatch returns.  No route matched; or one did and its handler        *)
(* succeeded; or it failed or panicked and handleError records that.          *)
Outcome(w) ==
  /\ Alive
  /\ wpc[w] = "run"
  /\ wpc' = [wpc EXCEPT ![w] = "unlock"]
  /\ \/ health' = [health EXCEPT !.unmatched = @ + 1]
     \/ health' = [health EXCEPT !.matched = @ + 1]
     \/ health' = [health EXCEPT !.matched = @ + 1, !.errors = @ + 1]
  /\ UNCHANGED <<server, runs, poller, canceled, updateChan, closed, status, job,
                 phase, want, history>>

(* The deferred Unlock(key); back to the receive. *)
Finish(w) ==
  /\ Alive
  /\ wpc[w] = "unlock"
  /\ DispatchLock!Release(w)
  /\ wpc'     = [wpc EXCEPT ![w] = "receive"]
  /\ job'     = [job EXCEPT ![w] = None]
  /\ handled' = handled \cup {job[w]}
  /\ UNCHANGED <<server, runs, poller, canceled, updateChan, closed, status, health,
                 started, lost, dropped>>

(* Mutant of Exit: a worker leaves as soon as ctx is done. *)
ExitOnCancel(w) ==
  /\ Alive
  /\ wpc[w] = "receive"
  /\ canceled
  /\ wpc' = [wpc EXCEPT ![w] = "exited"]
  /\ UNCHANGED <<server, runs, poller, canceled, updateChan, closed, status, health,
                 job, phase, want, history>>

(* The range loop ends: the channel is closed and drained. *)
Exit(w) ==
  /\ Alive
  /\ wpc[w] = "receive"
  /\ closed /\ updateChan = <<>>
  /\ wpc' = [wpc EXCEPT ![w] = "exited"]
  /\ UNCHANGED <<server, runs, poller, canceled, updateChan, closed, status, health,
                 job, phase, want, history>>

-----------------------------------------------------------------------------

RunNext ==
  \/ StartupHooksFail \/ StartWorkers
  \/ SkipPendingUpdates \/ SkipPendingFails
  \/ ObserveCancel
  \/ GetUpdates \/ GetUpdatesFails \/ BackoffElapses \/ Enqueue
  \/ CloseUpdateChan \/ AwaitWorkers \/ RunShutdownHooks

WorkerNext(w) == Receive(w) \/ Begin(w) \/ Outcome(w) \/ Finish(w) \/ Exit(w)

Next ==
  \/ NewUpdate \/ Cancel \/ Crash \/ Restart
  \/ RunNext
  \/ \E w \in Workers : WorkerNext(w)

SafeSpec == Init /\ [][Next]_vars

(* Goroutines that can run do; handlers return; a mutex is not withheld for   *)
(* ever from a waiter; a getUpdates call that is retried for ever succeeds    *)
(* infinitely often, and then delivers what is pending.                       *)
Fairness ==
  /\ WF_vars(RunNext)
  /\ SF_vars(ObserveCancel)
  /\ SF_vars(GetUpdates /\ rpc' = "queue")
  /\ \A w \in Workers : WF_vars(WorkerNext(w)) /\ SF_vars(Begin(w))

Spec == SafeSpec /\ Fairness

-----------------------------------------------------------------------------
(* Properties *)

ServerTypes == first \in 1..(MaxUpdate + 1) /\ last \in 0..MaxUpdate /\ runs \in 1..MaxRuns

RunTypes ==
  /\ rpc \in Serving \cup {"start", "returned", "dead"}
  /\ offset \in 0..(MaxUpdate + 1) /\ at \in 1..(MaxUpdate + 1) /\ upto \in 0..MaxUpdate
  /\ result \in {"none", "nil", "error"}
  /\ status \in {"starting", "running", "stopping", "stopped", "error"}

ChanTypes == updateChan \in Seq(Updates) /\ Len(updateChan) <= BufferSize

PoolTypes ==
  /\ wpc \in [Workers -> {"unborn", "receive", "lock", "run", "unlock", "exited"}]
  /\ job \in [Workers -> Updates \cup {None}]
  /\ phase \in [Workers -> {"idle", "waiting", "holding"}]
  /\ want \in [Workers -> Keys \cup {None}]

HistoryTypes ==
  handled \subseteq Updates /\ started \subseteq Updates /\ lost \subseteq Updates /\ dropped \subseteq Updates

(* Every variable stays within its Go type and its bound. *)
TypeOK ==
  /\ ServerTypes /\ RunTypes /\ ChanTypes /\ PoolTypes /\ HistoryTypes
  /\ canceled \in BOOLEAN /\ closed \in BOOLEAN /\ health \in Counters

(* An update that Telegram has forgotten was handled, or is still in this     *)
(* process's channel or hands, or went down with a crashed process, or was    *)
(* skipped on request: cancellation, failed polls, full queues and restarts   *)
(* lose nothing (the comment on worker, bot.go:686).                          *)
NoUpdateLost ==
  \A u \in 1..(first - 1) :
    \/ u \in handled \cup lost \cup dropped
    \/ Alive /\ u \in Queued \cup InHand

(* Within one process no update is ever dispatched a second time: what is     *)
(* queued or waiting for its key is new, and is queued once.                  *)
AtMostOncePerProcess ==
  Alive =>
    /\ \A i, j \in 1..Len(updateChan) : updateChan[i] = updateChan[j] => i = j
    /\ \A v, w \in Workers : job[v] = job[w] /\ job[v] # None => v = w
    /\ Queued \cap (InHand \cup started) = {}
    /\ \A w \in Workers : wpc[w] = "lock" => job[w] \notin started

(* Shutdown hooks run "after ... every in-flight handler has finished"        *)
(* (bot.go:391): nothing is queued, nobody holds an update or a key, and the  *)
(* health monitor's books are closed.                                         *)
HooksAfterDrain ==
  rpc = "hooks" =>
    /\ updateChan = <<>>
    /\ \A w \in Workers : wpc[w] = "exited" /\ job[w] = None /\ phase[w] = "idle"
    /\ status = "stopped"
    /\ health.dispatched = health.matched + health.unmatched

(* The counters agree with what the workers are doing: every dispatched       *)
(* update is counted matched or unmatched exactly once, when its handler is   *)
(* done, and only a matched update is counted as an error.                    *)
CountersAddUp ==
  /\ health.dispatched = health.matched + health.unmatched + Cardinality(Running)
  /\ health.errors <= health.matched

(* A canceled Run returns: the poll loop notices, the workers drain what is   *)
(* queued and exit, the hooks run.  (A crash, too, ends the process.)  Only a *)
(* restart takes the cancel back, so no Run stays canceled for ever.           *)
CancelEndsRun == []<>~(canceled /\ Alive)

(* Every update is handled in the end, whatever polls fail and however often  *)
(* the bot is stopped or dies and is started again, unless it was dropped on  *)
(* request or went down with a crash, or the bot stays down; and "a canceled  *)
(* ctx is the only case Run returns from" (bot.go:521) once it polls: it stays *)
(* down because it was canceled, or crashed, or never dispatched anything.    *)
EveryUpdateHandled ==
  \/ <>[](1..last \subseteq handled \cup lost \cup dropped)
  \/ <>[](~Alive /\ (canceled \/ rpc = "dead" \/ started = {}))

(* "a bot binary that predates a new Telegram member type should fail loudly  *)
(* in the error handler" (internal/gen/unions.go:299-301): an update this     *)
(* build cannot decode ends up there like any other that fails, unless the    *)
(* bot goes down first.                                                       *)
UndecodableFailsLoudly ==
  \A u \in Undecodable :
    u <= last ~> u \in handled \cup lost \cup dropped \/ ~Alive
=============================================================================
