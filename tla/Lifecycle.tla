------------------------------ MODULE Lifecycle ------------------------------
(***************************************************************************)
(* A TelegramBot runs once (bot.go): Run, StartWorkers and StopWorkers,    *)
(* called again and again and by several goroutines, with the flag ran,    *)
(* the channel StopWorkers closes, stopOnce, the wait group of the workers *)
(* and the status.                                                         *)
(*                                                                         *)
(* StopWorkers is for who has called StartWorkers, or for a bot that never *)
(* starts: while a call of Run or StartWorkers is on its way to the stop,  *)
(* nobody else stops the bot, and nobody starts it while a call of         *)
(* StopWorkers has not yet marked it.                                      *)
(***************************************************************************)
EXTENDS Integers

CONSTANTS
  Callers,   \* goroutines that start and stop the bot
  Workers,   \* the pool
  MaxQueued  \* capacity of updateChan

(* WithWorkers ignores a count that is not positive. *)
LifecycleAssumption == Workers # {}

VARIABLES
  ran,      \* TelegramBot.ran
  at,       \* at[c]: where c is in the call it makes
  running,  \* the callers whose StopWorkers is the one Run defers
  queue,    \* how many updates updateChan holds
  closed,   \* updateChan has been closed
  stopOnce, \* "unused", "running" its function, or "done"
  worker,   \* worker[w]: "unborn", "ready" to receive, "busy", or "exited"
  status    \* healthMonitor.status

vars == <<ran, at, running, queue, closed, stopOnce, worker, status>>

Starting == {"startup", "start", "poll"}
Unmarked == {"Run", "StartWorkers", "StopWorkers"}

Init ==
  /\ ran = FALSE
  /\ at = [c \in Callers |-> "out"] /\ running = {}
  /\ queue = 0 /\ closed = FALSE /\ stopOnce = "unused"
  /\ worker = [w \in Workers |-> "unborn"]
  /\ status = "starting"

Goes(c, place) == at' = [at EXCEPT ![c] = place]

-----------------------------------------------------------------------------
(* The calls *)

CallRunOrStartWorkers(c) ==
  /\ at[c] = "out"
  /\ ran \/ \A d \in Callers : at[d] # "StopWorkers"
  /\ \E method \in {"Run", "StartWorkers"} : Goes(c, method)
  /\ UNCHANGED <<ran, running, queue, closed, stopOnce, worker, status>>

CallStopWorkers(c) ==
  /\ at[c] = "out"
  /\ \A d \in Callers :
       at[d] \notin Starting /\ (ran \/ at[d] \notin {"Run", "StartWorkers"})
  /\ Goes(c, "StopWorkers")
  /\ UNCHANGED <<ran, running, queue, closed, stopOnce, worker, status>>

(* Mutant of markRan: StopWorkers leaves the flag alone. *)
markRanStarting(c) ==
  /\ at[c] \in Unmarked
  /\ ran' = (ran \/ at[c] # "StopWorkers")
  /\ Goes(c, IF at[c] = "StopWorkers" THEN "stopping"
             ELSE IF ran THEN "out"
             ELSE IF at[c] = "Run" THEN "startup" ELSE "start")
  /\ running' = IF at[c] = "Run" /\ ~ran THEN running \cup {c} ELSE running
  /\ UNCHANGED <<queue, closed, stopOnce, worker, status>>

(* The flag is set by whichever call is first; a later Run or StartWorkers    *)
(* returns at once, StopWorkers goes on.                                     *)
markRan(c) ==
  /\ at[c] \in Unmarked
  /\ ran' = TRUE
  /\ Goes(c, IF at[c] = "StopWorkers" THEN "stopping"
             ELSE IF ran THEN "out"
             ELSE IF at[c] = "Run" THEN "startup" ELSE "start")
  /\ running' = IF at[c] = "Run" /\ ~ran THEN running \cup {c} ELSE running
  /\ UNCHANGED <<queue, closed, stopOnce, worker, status>>

-----------------------------------------------------------------------------
(* Run and StartWorkers *)

(* A startup hook fails: Run returns without having started anything. *)
StartupFails(c) ==
  /\ at[c] = "startup"
  /\ Goes(c, "out")
  /\ running' = running \ {c}
  /\ status' = "error"
  /\ UNCHANGED <<ran, queue, closed, stopOnce, worker>>

startWorkers(c) ==
  /\ at[c] \in {"startup", "start"}
  /\ Goes(c, IF c \in running THEN "poll" ELSE "out")
  /\ status' = "running"
  /\ worker' = [w \in Workers |-> "ready"]
  /\ UNCHANGED <<ran, running, queue, closed, stopOnce>>

(* Run's loop queues an update, which a closed channel does not survive. *)
Send(c) ==
  /\ at[c] = "poll"
  /\ queue < MaxQueued
  /\ queue' = queue + 1
  /\ UNCHANGED <<ran, at, running, closed, stopOnce, worker, status>>

(* The loop ends; the deferred StopWorkers *)
Canceled(c) ==
  /\ at[c] = "poll"
  /\ Goes(c, "StopWorkers")
  /\ UNCHANGED <<ran, running, queue, closed, stopOnce, worker, status>>

RunReturns(c) ==
  /\ at[c] = "shutdown"
  /\ Goes(c, "out")
  /\ running' = running \ {c}
  /\ UNCHANGED <<ran, queue, closed, stopOnce, worker, status>>

-----------------------------------------------------------------------------
(* StopWorkers *)

Stopping(c) ==
  /\ at[c] = "stopping"
  /\ Goes(c, "once")
  /\ status' = "stopping"
  /\ UNCHANGED <<ran, running, queue, closed, stopOnce, worker>>

CloseUpdateChan(c) ==
  /\ at[c] = "once" /\ stopOnce = "unused"
  /\ Goes(c, "wait")
  /\ stopOnce' = "running"
  /\ closed'   = TRUE
  /\ UNCHANGED <<ran, running, queue, worker, status>>

(* wg.Wait() *)
Drained(c) ==
  /\ at[c] = "wait"
  /\ \A w \in Workers : worker[w] \in {"unborn", "exited"}
  /\ Goes(c, "stopped")
  /\ stopOnce' = "done"
  /\ UNCHANGED <<ran, running, queue, closed, worker, status>>

(* Mutant of SkipOnce: the second caller does not wait for the first. *)
SkipAnyway(c) ==
  /\ at[c] = "once" /\ stopOnce # "unused"
  /\ Goes(c, "stopped")
  /\ UNCHANGED <<ran, running, queue, closed, stopOnce, worker, status>>

(* sync.Once: the others wait until the first is through. *)
SkipOnce(c) ==
  /\ at[c] = "once" /\ stopOnce = "done"
  /\ Goes(c, "stopped")
  /\ UNCHANGED <<ran, running, queue, closed, stopOnce, worker, status>>

Stopped(c) ==
  /\ at[c] = "stopped"
  /\ Goes(c, IF c \in running THEN "shutdown" ELSE "out")
  /\ status' = "stopped"
  /\ UNCHANGED <<ran, running, queue, closed, stopOnce, worker>>

-----------------------------------------------------------------------------
(* A worker *)

Receive(w) ==
  /\ worker[w] = "ready" /\ queue > 0
  /\ queue'  = queue - 1
  /\ worker' = [worker EXCEPT ![w] = "busy"]
  /\ UNCHANGED <<ran, at, running, closed, stopOnce, status>>

Handled(w) ==
  /\ worker[w] = "busy"
  /\ worker' = [worker EXCEPT ![w] = "ready"]
  /\ UNCHANGED <<ran, at, running, queue, closed, stopOnce, status>>

Exit(w) ==
  /\ worker[w] = "ready" /\ queue = 0 /\ closed
  /\ worker' = [worker EXCEPT ![w] = "exited"]
  /\ UNCHANGED <<ran, at, running, queue, closed, stopOnce, status>>

-----------------------------------------------------------------------------

Next ==
  \/ \E c \in Callers :
       \/ CallRunOrStartWorkers(c) \/ CallStopWorkers(c) \/ markRan(c)
       \/ StartupFails(c) \/ startWorkers(c) \/ Send(c) \/ Canceled(c) \/ RunReturns(c)
       \/ Stopping(c) \/ CloseUpdateChan(c) \/ Drained(c) \/ SkipOnce(c) \/ Stopped(c)
  \/ \E w \in Workers : Receive(w) \/ Handled(w) \/ Exit(w)

Spec == Init /\ [][Next]_vars

(* A stop is for good, however often callers start and stop the bot (but for *)
(* the stops excepted above): nobody is on the way to sending on the closed  *)
(* channel; who has come through stopOnce, and Run with its shutdown hooks,  *)
(* finds no handler running and nothing queued; and when every call has      *)
(* returned the status says so.                                              *)
StopIsFinal ==
  /\ closed => \A c \in Callers : at[c] \notin Starting
  /\ \A c \in Callers : at[c] \in {"stopped", "shutdown"} =>
       queue = 0 /\ \A w \in Workers : worker[w] \in {"unborn", "exited"}
  /\ stopOnce = "done" /\ (\A c \in Callers : at[c] \in Unmarked \cup {"out"})
       => status = "stopped"
=============================================================================
