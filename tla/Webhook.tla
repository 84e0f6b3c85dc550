------------------------------- MODULE Webhook -------------------------------
(***************************************************************************)
(* The webhook runtime (webhook.go): RunWebhook's HTTP server, whose        *)
(* request goroutines either dispatch an update themselves, holding the     *)
(* response open (AllowWebhookReply), or hand it to the worker pool; the    *)
(* server's bounded Shutdown, and the drain and hooks that follow it.       *)
(*                                                                          *)
(* Which way an update goes depends on the route that matches it, and that  *)
(* may depend on the conversation state (StateIs), which handlers change.   *)
(*                                                                          *)
(* Filters and TelegramBot.OnError are the application's, and may panic      *)
(* where nothing but net/http recovers.  A worker's panic in OnError ends   *)
(* the process; that crash is not modelled here.                             *)
(***************************************************************************)
EXTENDS Naturals, FiniteSets, Sequences

CONSTANTS
  Requests,    \* HTTP request goroutines (bound: concurrent deliveries)
  Workers,     \* worker goroutines
  Updates,     \* updates Telegram has for the bot
  Keys,        \* storage keys
  KeyOf,       \* KeyOf[u]: the {chat, user} key of update u
  BufferSize,  \* capacity of updateChan
  Faults,      \* which of "timeout", "serve" can happen (see below)
  None         \* nil

ASSUME WebhookAssumption ==
  /\ Requests \cap Workers = {} /\ Workers # {}
  /\ KeyOf \in [Updates -> Keys] /\ None \notin Updates \cup Keys
  /\ BufferSize \in Nat \ {0}
  /\ Faults \subseteq {"timeout", "serve"}

VARIABLES
  rpc,        \* where the goroutine inside RunWebhook is
  accepting,  \* the server takes new requests (Shutdown has not been called)
  updateChan, \* the buffered channel
  closed,     \* updateChan has been closed
  pc,         \* pc[a]: where goroutine a is
  job,        \* job[a]: the update goroutine a has in hand, or None
  gone,       \* request goroutines whose client has hung up
  phase,      \* the per-key lock (module KeyLock)
  want,       \* the per-key lock
  replying,   \* replying[k]: in k's state the matching route has AllowWebhookReply
  acked,      \* Telegram: updates answered with 200
  handled,    \* history: updates whose dispatch has finished
  dispatched, \* history: updates whose dispatch has begun
  unanswered, \* history: updates a client gave up on, or whose dispatch panicked
  overtime    \* history: the server stopped with requests open

queue    == <<updateChan, closed>>
lock     == <<phase, want>>
history  == <<handled, dispatched, unanswered, overtime>>
vars     == <<rpc, accepting, queue, pc, job, gone, lock, replying, acked, history>>

Actors == Requests \cup Workers

DispatchLock == INSTANCE KeyLock WITH Threads <- Actors, StuckKeys <- {}

-----------------------------------------------------------------------------

Queued == {updateChan[i] : i \in 1..Len(updateChan)}

Goto(a, from, to) == pc[a] = from /\ pc' = [pc EXCEPT ![a] = to]

(* startWorkers has spawned the pool and the server is listening. *)
Init ==
  /\ rpc = "serve" /\ accepting = TRUE
  /\ updateChan = <<>> /\ closed = FALSE
  /\ pc = [a \in Actors |-> IF a \in Workers THEN "receive" ELSE "idle"]
  /\ job = [a \in Actors |-> None]
  /\ gone = {}
  /\ DispatchLock!Init
  /\ replying \in [Keys -> BOOLEAN]
  /\ acked = {} /\ handled = {} /\ dispatched = {} /\ unanswered = {}
  /\ overtime = FALSE

-----------------------------------------------------------------------------
(* Telegram and the network *)

(* Telegram posts an update it has no answer for, unless a request for it is  *)
(* still open; Handler decodes and hydrates it.                               *)
Deliver(r, u) ==
  /\ accepting
  /\ u \notin acked
  /\ \A q \in Requests : job[q] = u => q \in gone
  /\ Goto(r, "idle", "match")
  /\ job' = [job EXCEPT ![r] = u]
  /\ UNCHANGED <<rpc, accepting, queue, gone, lock, replying, acked, history>>

(* The client closes the connection: r.Context() is done, and whatever is     *)
(* answered from now on reaches nobody.                                       *)
HangUp(r) ==
  /\ pc[r] # "idle" /\ r \notin gone
  /\ gone'   = gone \cup {r}
  /\ unanswered' = unanswered \cup {job[r]}
  /\ UNCHANGED <<rpc, accepting, queue, pc, job, lock, replying, acked, handled,
                 dispatched, overtime>>

-----------------------------------------------------------------------------
(* Handler(cfg): one request goroutine *)

(* ServeHTTP returns; the client, if still there, sees status 200 or nothing. *)
EndRequest(r, ok) ==
  /\ job'   = [job EXCEPT ![r] = None]
  /\ gone'  = gone \ {r}
  /\ acked' = IF ok /\ r \notin gone THEN acked \cup {job[r]} ELSE acked

(* matchingAllowsWebhookReply: the filters are evaluated on the live state,   *)
(* before dispatchCtx locks the key.                                          *)
Match(r) ==
  /\ pc[r] = "match"
  /\ IF replying[KeyOf[job[r]]]
       THEN pc' = [pc EXCEPT ![r] = "lock"] /\ DispatchLock!Request(r, KeyOf[job[r]])
       ELSE pc' = [pc EXCEPT ![r] = "send"] /\ UNCHANGED lock
  /\ UNCHANGED <<rpc, accepting, queue, job, gone, replying, acked, history>>

(* A filter panics there, under no recover of golagram's: net/http drops the  *)
(* connection.                                                                *)
MatchPanics(r) ==
  /\ Goto(r, "match", "idle")
  /\ EndRequest(r, FALSE)
  /\ UNCHANGED <<rpc, accepting, queue, lock, replying, history>>

(* case b.updateChan <- &update: w.WriteHeader(http.StatusOK) *)
Send(r) ==
  /\ ~closed
  /\ Len(updateChan) < BufferSize
  /\ Goto(r, "send", "idle")
  /\ updateChan' = Append(updateChan, job[r])
  /\ EndRequest(r, TRUE)
  /\ UNCHANGED <<rpc, accepting, closed, lock, replying, history>>

(* case <-r.Context().Done() *)
SendAbandoned(r) ==
  /\ r \in gone
  /\ Goto(r, "send", "idle")
  /\ EndRequest(r, FALSE)
  /\ UNCHANGED <<rpc, accepting, queue, lock, replying, history>>

(* A send on the closed channel panics; net/http recovers and drops the       *)
(* connection.                                                                *)
SendPanics(r) ==
  /\ closed
  /\ Goto(r, "send", "idle")
  /\ EndRequest(r, FALSE)
  /\ UNCHANGED <<rpc, accepting, queue, lock, replying, history>>

(* Mutant of Respond: the return after the synchronous dispatch is missing. *)
RespondFallsThrough(r) ==
  /\ Goto(r, "respond", "send")
  /\ UNCHANGED <<rpc, accepting, queue, job, gone, lock, replying, acked, history>>

(* The synchronous dispatch is over: 200, with or without an embedded reply. *)
Respond(r) ==
  /\ Goto(r, "respond", "idle")
  /\ EndRequest(r, TRUE)
  /\ UNCHANGED <<rpc, accepting, queue, lock, replying, history>>

-----------------------------------------------------------------------------
(* dispatchCtx, in a worker or in a request goroutine *)

Receive(w) ==
  /\ updateChan # <<>>
  /\ Goto(w, "receive", "lock")
  /\ updateChan' = Tail(updateChan)
  /\ job' = [job EXCEPT ![w] = Head(updateChan)]
  /\ DispatchLock!Request(w, KeyOf[Head(updateChan)])
  /\ UNCHANGED <<rpc, accepting, closed, gone, replying, acked, history>>

Begin(a) ==
  /\ Goto(a, "lock", "run")
  /\ DispatchLock!Grant(a)
  /\ dispatched' = dispatched \cup {job[a]}
  /\ UNCHANGED <<rpc, accepting, queue, job, gone, replying, acked, handled, unanswered, overtime>>

(* The handler runs, maybe moving the conversation to a state that another    *)
(* route matches; then the deferred Unlock.                                   *)
Handle(a) ==
  /\ pc[a] = "run"
  /\ DispatchLock!Release(a)
  /\ \E b \in BOOLEAN : replying' = [replying EXCEPT ![KeyOf[job[a]]] = b]
  /\ handled' = handled \cup {job[a]}
  /\ IF a \in Workers
       THEN pc' = [pc EXCEPT ![a] = "receive"] /\ job' = [job EXCEPT ![a] = None]
       ELSE pc' = [pc EXCEPT ![a] = "respond"] /\ UNCHANGED job
  /\ UNCHANGED <<rpc, accepting, queue, gone, acked, dispatched, unanswered, overtime>>

(* The handler fails, and TelegramBot.OnError, which handleError calls outside *)
(* safeDispatch's recover, panics: the deferred Unlock runs, net/http recovers *)
(* and drops the connection.                                                   *)
DispatchPanics(r) ==
  /\ Goto(r, "run", "idle")
  /\ DispatchLock!Release(r)
  /\ \E b \in BOOLEAN : replying' = [replying EXCEPT ![KeyOf[job[r]]] = b]
  /\ unanswered' = unanswered \cup {job[r]}
  /\ EndRequest(r, FALSE)
  /\ UNCHANGED <<rpc, accepting, queue, handled, dispatched, overtime>>

(* Mutant of Exit: a worker stops at the close, with updates still buffered. *)
ExitAtClose(w) ==
  /\ closed
  /\ Goto(w, "receive", "exited")
  /\ UNCHANGED <<rpc, accepting, queue, job, gone, lock, replying, acked, history>>

Exit(w) ==
  /\ closed /\ updateChan = <<>>
  /\ Goto(w, "receive", "exited")
  /\ UNCHANGED <<rpc, accepting, queue, job, gone, lock, replying, acked, history>>

-----------------------------------------------------------------------------
(* RunWebhook after the server has started *)

StepRun(from, to) == rpc = from /\ rpc' = to

Others == <<queue, pc, job, gone, lock, replying, acked, history>>

StopLate ==
  /\ overtime' = TRUE
  /\ UNCHANGED <<accepting, queue, pc, job, gone, lock, replying, acked, handled,
                 dispatched, unanswered>>

(* <-ctx.Done(): server.Shutdown stops accepting *)
CallShutdown ==
  /\ StepRun("serve", "shutdown")
  /\ accepting' = FALSE
  /\ UNCHANGED Others

(* Serve returns an error by itself; open connections live on. *)
ServeFails ==
  /\ "serve" \in Faults
  /\ StepRun("serve", "stop")
  /\ StopLate

(* Mutant of ShutdownDone: Shutdown only closes the listener. *)
ShutdownAtOnce ==
  /\ StepRun("shutdown", "stop")
  /\ UNCHANGED <<accepting, Others>>

(* Shutdown returns once no request is open ... *)
ShutdownDone ==
  /\ \A r \in Requests : pc[r] = "idle"
  /\ StepRun("shutdown", "stop")
  /\ UNCHANGED <<accepting, Others>>

(* ... or after ten seconds, whatever is open. *)
ShutdownTimesOut ==
  /\ "timeout" \in Faults
  /\ \E r \in Requests : pc[r] # "idle"
  /\ StepRun("shutdown", "stop")
  /\ StopLate

(* Mutant of CloseUpdateChan: workers are never told to stop. *)
ForgetToClose ==
  /\ StepRun("stop", "drain")
  /\ UNCHANGED <<accepting, Others>>

(* The deferred StopWorkers: close(updateChan), then wg.Wait *)
CloseUpdateChan ==
  /\ StepRun("stop", "drain")
  /\ closed' = TRUE
  /\ UNCHANGED <<accepting, updateChan, pc, job, gone, lock, replying, acked, history>>

AwaitWorkers ==
  /\ \A w \in Workers : pc[w] = "exited"
  /\ StepRun("drain", "hooks")
  /\ UNCHANGED <<accepting, Others>>

(* runShutdownHooks; then listener.Close and, if asked for, DeleteWebhook *)
RunShutdownHooks ==
  /\ StepRun("hooks", "returned")
  /\ accepting' = FALSE
  /\ UNCHANGED Others

-----------------------------------------------------------------------------

RunNext ==
  \/ ShutdownDone \/ ShutdownTimesOut \/ CloseUpdateChan \/ AwaitWorkers
  \/ RunShutdownHooks

RequestNext(r) ==
  \/ Match(r) \/ MatchPanics(r) \/ Send(r) \/ SendAbandoned(r) \/ SendPanics(r)
  \/ DispatchPanics(r) \/ Respond(r)

DispatchNext(a) == Begin(a) \/ Handle(a)

WorkerNext(w) == Receive(w) \/ Exit(w)

Next ==
  \/ \E r \in Requests : (\E u \in Updates : Deliver(r, u)) \/ HangUp(r) \/ RequestNext(r)
  \/ \E a \in Actors : DispatchNext(a)
  \/ \E w \in Workers : WorkerNext(w)
  \/ CallShutdown \/ ServeFails \/ RunNext

SafeSpec == Init /\ [][Next]_vars

(* Goroutines that can run do, and handlers return. *)
Fairness ==
  /\ WF_vars(RunNext)
  /\ \A r \in Requests : WF_vars(RequestNext(r) \/ DispatchNext(r))
  /\ \A w \in Workers : WF_vars(WorkerNext(w) \/ DispatchNext(w))

Spec == SafeSpec /\ Fairness

-----------------------------------------------------------------------------
(* Properties *)

ServerTypes ==
  /\ rpc \in {"serve", "shutdown", "stop", "drain", "hooks", "returned"}
  /\ accepting \in BOOLEAN /\ closed \in BOOLEAN /\ overtime \in BOOLEAN

ChanTypes == updateChan \in Seq(Updates) /\ Len(updateChan) <= BufferSize

ActorTypes ==
  /\ pc \in [Actors -> {"idle", "match", "send", "lock", "run", "respond", "receive", "exited"}]
  /\ job \in [Actors -> Updates \cup {None}]
  /\ phase \in [Actors -> {"idle", "waiting", "holding"}]
  /\ want \in [Actors -> Keys \cup {None}]

SetTypes ==
  /\ gone \subseteq Requests /\ replying \in [Keys -> BOOLEAN]
  /\ acked \subseteq Updates /\ handled \subseteq Updates /\ dispatched \subseteq Updates
  /\ unanswered \subseteq Updates

(* Every variable stays within its Go type and its bound. *)
TypeOK == ServerTypes /\ ChanTypes /\ ActorTypes /\ SetTypes

(* Telegram forgets an update answered with 200.  Such an update was handled,  *)
(* or it is in the channel of a pool that still drains it, or with a worker -  *)
(* also while the server shuts down, times out or fails.                       *)
AckedIsSafe ==
  \A u \in acked :
    \/ u \in handled
    \/ u \in Queued /\ \E w \in Workers : pc[w] # "exited"
    \/ \E w \in Workers : job[w] = u

(* An update is dispatched a second time only if nobody was told of the first: *)
(* a client hung up on it, or its dispatch panicked out of the request         *)
(* goroutine.  The two ways of dispatching exclude each other, and a dispatch  *)
(* that ends, also in a request the server no longer waits for, is answered.   *)
OnceUnlessUnanswered ==
  [][\A a \in Actors : pc[a] = "lock" /\ pc'[a] = "run" /\ job[a] \in dispatched
       => job[a] \in unanswered]_vars

(* What follows Shutdown relies on no request being open: a send would panic  *)
(* on the closed channel, and hooks run after RunWebhook "has stopped accepting *)
(* new updates and every in-flight handler has finished" (OnShutdown's comment, *)
(* bot.go:391), those in request goroutines too.  True unless Shutdown had to   *)
(* give up on them or Serve failed.                                            *)
QuietAfterShutdown ==
  ~overtime =>
    /\ closed => \A r \in Requests : pc[r] # "send"
    /\ rpc = "hooks" => ~accepting /\ \A a \in Actors : pc[a] \notin {"lock", "run"}

(* Filter's comment (router.go:56): "A filter runs inside TelegramBot's        *)
(* per-{chat,user} dispatch lock": while filters are evaluated for an update,  *)
(* no handler is changing the state of its key.                                *)
FiltersInsideLock ==
  \A r \in Requests, a \in Actors :
    pc[r] = "match" /\ pc[a] = "run" => KeyOf[job[r]] # KeyOf[job[a]]

(* A canceled RunWebhook returns: open requests end, also those blocked on a   *)
(* full channel, the pool drains, the hooks run.                               *)
ShutdownEnds == rpc = "shutdown" ~> rpc = "returned"
=============================================================================
