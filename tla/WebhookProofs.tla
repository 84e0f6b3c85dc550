---------------------------- MODULE WebhookProofs ----------------------------
(***************************************************************************)
(* Theorems about the webhook runtime, for any number of requests, workers *)
(* and updates and any buffer, with and without faults: what is answered   *)
(* with 200 is handled or in the pool's hands, no update is dispatched     *)
(* twice unless a client hung up on it or its dispatch panicked, and after *)
(* a clean Shutdown nothing is left that hooks or a closed channel could   *)
(* disturb.                                                                *)
(***************************************************************************)
EXTENDS Webhook, TLAPS

(* Where a goroutine is agrees with what it has in hand, and with its lock. *)
ActorInv ==
  /\ \A r \in Requests : pc[r] \in {"idle", "match", "send", "lock", "run", "respond"}
  /\ \A w \in Workers : pc[w] \in {"receive", "lock", "run", "exited"}
  /\ \A a \in Actors :
       /\ job[a] = None <=> pc[a] \in {"idle", "receive", "exited"}
       /\ pc[a] \notin {"lock", "run"} => phase[a] = "idle"
       /\ pc[a] = "lock" => phase[a] = "waiting"
       /\ pc[a] = "run" => phase[a] = "holding"

(* The server stops before the channel is closed, and the pool after it. *)
DrainInv ==
  /\ rpc = "shutdown" => ~accepting
  /\ rpc \in {"stop", "drain", "hooks", "returned"} /\ ~overtime =>
       ~accepting /\ \A r \in Requests : pc[r] = "idle"
  /\ closed => rpc \in {"drain", "hooks", "returned"}
  /\ \A w \in Workers : pc[w] = "exited" => closed /\ updateChan = <<>>
  /\ rpc = "hooks" => \A w \in Workers : pc[w] = "exited"

(* A request answers for its update once it is handled. *)
AnswerInv ==
  /\ \A r \in Requests : pc[r] = "respond" => job[r] \in handled
  /\ \A u \in acked : u \in handled \/ u \in Queued \/ \E w \in Workers : job[w] = u

OnceQueued(u) == \A i, j \in 1..Len(updateChan) : updateChan[i] = u /\ updateChan[j] = u => i = j

(* An update that nobody hung up on and no dispatch panicked on is in one     *)
(* place at a time, and is not posted again while it is there or once it has  *)
(* been dispatched.                                                           *)
OnePlace(u) ==
  /\ \A a, b \in Actors : job[a] = u /\ job[b] = u => a = b
  /\ OnceQueued(u)
  /\ u \in Queued => u \in acked /\ u \notin dispatched /\ \A a \in Actors : job[a] # u
  /\ \A w \in Workers : job[w] = u => u \in acked
  /\ \A a \in Actors : job[a] = u /\ pc[a] \in {"match", "send", "lock"} => u \notin dispatched
  /\ u \in dispatched => u \in acked \/ \E a \in Actors : job[a] = u

OnceInv ==
  /\ \A r \in gone : pc[r] # "idle" /\ job[r] \in unanswered
  /\ \A u \in Updates \ unanswered : OnePlace(u)

IndInv == TypeOK /\ ActorInv /\ DrainInv /\ AnswerInv /\ OnceInv

USE WebhookAssumption DEF WebhookAssumption, Actors
-----------------------------------------------------------------------------
(* The channel *)

(* What sending puts into the channel is behind what is there. *)
LEMMA Sent ==
  ASSUME ChanTypes, NEW u \in Updates, Len(updateChan) < BufferSize, updateChan' = Append(updateChan, u)
  PROVE  /\ ChanTypes' /\ Queued' = Queued \cup {u} /\ Len(updateChan') = Len(updateChan) + 1
         /\ Len(updateChan) \in Nat /\ updateChan'[Len(updateChan) + 1] = u
         /\ \A i \in 1..Len(updateChan) : updateChan'[i] = updateChan[i]
<1>1. /\ ChanTypes' /\ Len(updateChan') = Len(updateChan) + 1 /\ Len(updateChan) \in Nat
      /\ updateChan'[Len(updateChan) + 1] = u
      /\ \A i \in 1..Len(updateChan) : updateChan'[i] = updateChan[i]
  BY DEF ChanTypes
<1>2. Queued' = Queued \cup {u}
  BY DEF ChanTypes, Queued
<1> QED
  BY <1>1, <1>2

(* What receiving takes out of it was first. *)
LEMMA Received ==
  ASSUME ChanTypes, updateChan # <<>>, updateChan' = Tail(updateChan)
  PROVE  /\ ChanTypes' /\ Head(updateChan) \in Updates /\ Queued = Queued' \cup {Head(updateChan)}
         /\ Len(updateChan) \in Nat \ {0} /\ Len(updateChan') = Len(updateChan) - 1
         /\ Head(updateChan) = updateChan[1]
         /\ \A i \in 1..(Len(updateChan) - 1) : updateChan'[i] = updateChan[i + 1]
<1> DEFINE n == Len(updateChan)
<1>1. n \in Nat \ {0} /\ Len(updateChan') = n - 1 /\ updateChan' \in Seq(Updates) /\ n <= BufferSize
  BY DEF ChanTypes
<1>2. Head(updateChan) = updateChan[1] /\ \A i \in 1..(n - 1) : updateChan'[i] = updateChan[i + 1]
  BY <1>1 DEF ChanTypes
<1>3. updateChan[1] \in Updates
  BY <1>1 DEF ChanTypes
<1>4. Queued' = {updateChan[i] : i \in 2..n}
  <2>1. Queued' = {updateChan'[i] : i \in 1..(n - 1)}
    BY <1>1 DEF Queued
  <2>2. \A i \in 2..n : i - 1 \in 1..(n - 1) /\ updateChan'[i - 1] = updateChan[i]
    BY <1>1, <1>2
  <2>3. \A i \in 1..(n - 1) : i + 1 \in 2..n /\ updateChan'[i] = updateChan[i + 1]
    BY <1>1, <1>2
  <2>4. \A x : (\E i \in 1..(n - 1) : x = updateChan'[i]) <=> (\E i \in 2..n : x = updateChan[i])
    BY <2>2, <2>3
  <2> QED
    BY <2>1, <2>4
<1>5. Queued = Queued' \cup {updateChan[1]}
  <2>1. 1..n = {1} \cup 2..n
    BY <1>1
  <2> QED
    BY <2>1, <1>4 DEF Queued
<1>6. ChanTypes'
  BY <1>1 DEF ChanTypes
<1> QED
  BY <1>1, <1>2, <1>3, <1>5, <1>6

(* An update that is there once is there no more when it is taken. *)
LEMMA TakenOnce ==
  ASSUME ChanTypes, updateChan # <<>>, updateChan' = Tail(updateChan), NEW u, OnceQueued(u)
  PROVE  OnceQueued(u)' /\ (u = Head(updateChan) => u \notin Queued')
<1> DEFINE n == Len(updateChan)
<1>1. /\ n \in Nat \ {0} /\ Len(updateChan') = n - 1 /\ Head(updateChan) = updateChan[1]
      /\ \A i \in 1..(n - 1) : updateChan'[i] = updateChan[i + 1]
  BY Received
<1>2. OnceQueued(u)'
  BY <1>1 DEF OnceQueued
<1>3. ASSUME u = Head(updateChan) PROVE u \notin Queued'
  <2>1. \A i \in 1..(n - 1) : updateChan'[i] # u
    BY <1>1, <1>3 DEF OnceQueued
  <2> QED
    BY <1>1, <2>1 DEF Queued
<1> QED
  BY <1>2, <1>3

(* An update that is not there is there once when it is sent. *)
LEMMA SentOnce ==
  ASSUME ChanTypes, NEW v \in Updates, Len(updateChan) < BufferSize, updateChan' = Append(updateChan, v),
         NEW u, OnceQueued(u), u = v => u \notin Queued
  PROVE  OnceQueued(u)'
<1> DEFINE n == Len(updateChan)
<1>1. n \in Nat /\ Len(updateChan') = n + 1 /\ updateChan'[n + 1] = v
      /\ \A i \in 1..n : updateChan'[i] = updateChan[i]
  BY Sent
<1>2. u = v => \A i \in 1..n : updateChan[i] # u
  BY DEF Queued
<1> QED
  BY <1>1, <1>2 DEF OnceQueued

-----------------------------------------------------------------------------
(* Initial states *)

LEMMA InitInv == Init => IndInv
<1> SUFFICES ASSUME Init PROVE IndInv
  OBVIOUS
<1>1. Queued = {} /\ Len(updateChan) = 0
  BY DEF Init, Queued
<1>2. TypeOK
  <2>1. ServerTypes
    BY DEF Init, ServerTypes
  <2>2. ChanTypes
    BY DEF Init, ChanTypes
  <2>3. SetTypes
    BY DEF Init, SetTypes
  <2>4. ActorTypes
    BY DEF Init, ActorTypes, DispatchLock!Init
  <2> QED
    BY <2>1, <2>2, <2>3, <2>4 DEF TypeOK
<1>3. ActorInv /\ DrainInv
  BY DEF Init, ActorInv, DrainInv, DispatchLock!Init
<1>4. AnswerInv
  BY DEF Init, AnswerInv
<1>5. OnceInv
  BY <1>1 DEF Init, OnceInv, OnePlace, OnceQueued
<1> QED
  BY <1>2, <1>3, <1>4, <1>5 DEF IndInv
-----------------------------------------------------------------------------
(* Steps that move no update *)

(* What is in hand, queued, answered and dispatched stays as it was. *)
LEMMA OnceKept ==
  ASSUME SetTypes, OnceInv, UNCHANGED <<updateChan, job, gone, acked, dispatched, unanswered>>,
         \A a \in Actors : pc'[a] = pc[a] \/ (pc[a] # "idle" /\ pc'[a] # "idle" /\
           (pc'[a] \in {"match", "send", "lock"} => pc[a] \in {"match", "send", "lock"}))
  PROVE  OnceInv'
<1>1. Queued' = Queued
  BY DEF Queued
<1>2. \A u : OnceQueued(u)' <=> OnceQueued(u)
  BY DEF OnceQueued
<1>3. \A r \in gone' : pc'[r] # "idle" /\ job'[r] \in unanswered'
  BY DEF OnceInv, SetTypes
<1>4. ASSUME NEW u \in Updates \ unanswered PROVE OnePlace(u)'
  BY <1>1, <1>2, <1>4 DEF OnceInv, OnePlace
<1> QED
  BY <1>3, <1>4 DEF OnceInv

(* Steps of RunWebhook and the HTTP server *)
LEMMA RunStep ==
  ASSUME IndInv, CallShutdown \/ ServeFails \/ RunNext \/ UNCHANGED vars
  PROVE  IndInv'
<1> USE DEF IndInv, TypeOK
<1>1. UNCHANGED <<updateChan, pc, job, gone, phase, want, replying, acked, handled, dispatched, unanswered>>
  BY DEF CallShutdown, ServeFails, StopLate, RunNext, ShutdownDone, ShutdownTimesOut, CloseUpdateChan,
         AwaitWorkers, RunShutdownHooks, Others, vars, queue, lock, history
<1>2. ServerTypes'
  BY DEF ServerTypes, CallShutdown, ServeFails, StopLate, RunNext, ShutdownDone, ShutdownTimesOut,
         CloseUpdateChan, AwaitWorkers, RunShutdownHooks, StepRun, Others, vars, queue, history
<1>3. ChanTypes' /\ ActorTypes' /\ SetTypes'
  BY <1>1 DEF ChanTypes, ActorTypes, SetTypes
<1>4. ActorInv' /\ AnswerInv'
  BY <1>1 DEF ActorInv, AnswerInv, Queued
<1>5. DrainInv'
  <2>1. CASE CallShutdown \/ ShutdownDone \/ UNCHANGED vars
    BY <1>1, <2>1 DEF DrainInv, CallShutdown, ShutdownDone, StepRun, Others, vars, queue, history
  <2>2. CASE ServeFails \/ ShutdownTimesOut
    BY <1>1, <2>2 DEF DrainInv, ServeFails, ShutdownTimesOut, StopLate, StepRun, queue
  <2>3. CASE CloseUpdateChan \/ AwaitWorkers \/ RunShutdownHooks
    BY <1>1, <2>3 DEF DrainInv, CloseUpdateChan, AwaitWorkers, RunShutdownHooks, StepRun, Others, queue,
                      history
  <2> QED
    BY <2>1, <2>2, <2>3 DEF RunNext
<1>6. OnceInv'
  BY <1>1, OnceKept
<1> QED
  BY <1>2, <1>3, <1>4, <1>5, <1>6

(* Steps of one actor leave the server alone. *)
LEMMA ServerKept ==
  ASSUME ServerTypes, UNCHANGED <<rpc, accepting, closed, overtime>>
  PROVE  ServerTypes'
BY DEF ServerTypes

LEMMA MatchStep == ASSUME IndInv, NEW r \in Requests, Match(r) PROVE IndInv'
<1> USE DEF IndInv, TypeOK
<1>1. /\ UNCHANGED <<rpc, accepting, updateChan, closed, job, gone, replying, acked, handled, dispatched,
                     unanswered, overtime>>
      /\ pc[r] = "match"
      /\ \/ /\ pc' = [pc EXCEPT ![r] = "lock"] /\ phase' = [phase EXCEPT ![r] = "waiting"]
            /\ want' = [want EXCEPT ![r] = KeyOf[job[r]]]
         \/ pc' = [pc EXCEPT ![r] = "send"] /\ UNCHANGED <<phase, want>>
  BY DEF Match, DispatchLock!Request, lock, queue, history
<1>2. job[r] \in Updates
  BY <1>1 DEF ActorTypes, ActorInv
<1>3. ServerTypes' /\ ChanTypes' /\ SetTypes'
  BY <1>1, ServerKept DEF ChanTypes, SetTypes
<1>4. ActorTypes' /\ ActorInv'
  BY <1>1, <1>2 DEF ActorTypes, ActorInv
<1>5. DrainInv' /\ AnswerInv'
  BY <1>1 DEF ActorTypes, DrainInv, AnswerInv, Queued
<1>6. OnceInv'
  BY <1>1, OnceKept DEF ActorTypes
<1> QED
  BY <1>3, <1>4, <1>5, <1>6

LEMMA ExitStep == ASSUME IndInv, NEW w \in Workers, Exit(w) PROVE IndInv'
<1> USE DEF IndInv, TypeOK
<1>1. /\ UNCHANGED <<rpc, accepting, updateChan, closed, job, gone, phase, want, replying, acked, handled,
                     dispatched, unanswered, overtime>>
      /\ pc[w] = "receive" /\ pc' = [pc EXCEPT ![w] = "exited"] /\ closed /\ updateChan = <<>>
  BY DEF Exit, Goto, lock, queue, history
<1>2. ServerTypes' /\ ChanTypes' /\ SetTypes'
  BY <1>1, ServerKept DEF ChanTypes, SetTypes
<1>3. ActorTypes' /\ ActorInv'
  BY <1>1 DEF ActorTypes, ActorInv
<1>4. DrainInv' /\ AnswerInv'
  BY <1>1 DEF ActorTypes, DrainInv, AnswerInv, Queued
<1>5. OnceInv'
  BY <1>1, OnceKept DEF ActorTypes
<1> QED
  BY <1>2, <1>3, <1>4, <1>5

(* A client that hangs up may post its update again: nothing more is said of it. *)
LEMMA HangUpStep == ASSUME IndInv, NEW r \in Requests, HangUp(r) PROVE IndInv'
<1> USE DEF IndInv, TypeOK
<1>1. /\ UNCHANGED <<rpc, accepting, updateChan, closed, pc, job, phase, want, replying, acked, handled,
                     dispatched, overtime>>
      /\ pc[r] # "idle" /\ gone' = gone \cup {r} /\ unanswered' = unanswered \cup {job[r]}
  BY DEF HangUp, lock, queue
<1>2. job[r] \in Updates
  BY <1>1 DEF ActorTypes, ActorInv
<1>3. ServerTypes' /\ ChanTypes' /\ ActorTypes' /\ SetTypes'
  BY <1>1, <1>2, ServerKept DEF ChanTypes, ActorTypes, SetTypes
<1>4. ActorInv' /\ DrainInv' /\ AnswerInv'
  BY <1>1 DEF ActorInv, DrainInv, AnswerInv, Queued
<1>5. OnceInv'
  <2>1. Queued' = Queued /\ \A u : OnceQueued(u)' <=> OnceQueued(u)
    BY <1>1 DEF Queued, OnceQueued
  <2>2. \A u \in Updates \ unanswered' : u \in Updates \ unanswered
    BY <1>1
  <2> QED
    BY <1>1, <2>1, <2>2 DEF OnceInv, OnePlace
<1> QED
  BY <1>3, <1>4, <1>5
-----------------------------------------------------------------------------
(* Steps that move updates *)

(* An update is posted when it is unanswered and no open request has it. *)
LEMMA DeliverStep == ASSUME IndInv, NEW r \in Requests, NEW u \in Updates, Deliver(r, u) PROVE IndInv'
<1> USE DEF IndInv, TypeOK
<1>1. /\ UNCHANGED <<rpc, accepting, updateChan, closed, gone, phase, want, replying, acked, handled,
                     dispatched, unanswered, overtime>>
      /\ pc[r] = "idle" /\ pc' = [pc EXCEPT ![r] = "match"] /\ job' = [job EXCEPT ![r] = u]
      /\ accepting /\ u \notin acked /\ \A q \in Requests : job[q] = u => q \in gone
  BY DEF Deliver, Goto, lock, queue, history
<1>2. Queued' = Queued /\ \A v : OnceQueued(v)' <=> OnceQueued(v)
  BY <1>1 DEF Queued, OnceQueued
<1>3. ServerTypes' /\ ChanTypes' /\ ActorTypes' /\ SetTypes'
  BY <1>1, ServerKept DEF ChanTypes, ActorTypes, SetTypes
<1>4. ActorInv' /\ AnswerInv'
  BY <1>1, <1>2 DEF ActorTypes, ActorInv, AnswerInv
<1>5. DrainInv'
  <2>1. rpc \in {"stop", "drain", "hooks", "returned"} => overtime
    BY <1>1 DEF DrainInv
  <2> QED
    BY <1>1, <2>1 DEF ActorTypes, DrainInv
<1>6. OnceInv'
  <2>1. \A q \in gone : q # r
    BY <1>1 DEF OnceInv
  <2>2. u \notin unanswered => u \notin Queued /\ u \notin dispatched /\ \A a \in Actors : job[a] # u
    <3>1. SUFFICES ASSUME u \notin unanswered PROVE u \notin Queued /\ u \notin dispatched /\ \A a \in Actors : job[a] # u
      OBVIOUS
    <3>2. OnePlace(u)
      BY <3>1 DEF OnceInv
    <3>3. \A q \in Requests : job[q] # u
      BY <1>1, <3>1 DEF OnceInv
    <3>4. \A w \in Workers : job[w] # u
      BY <1>1, <3>2 DEF OnePlace
    <3> QED
      BY <1>1, <3>2, <3>3, <3>4 DEF OnePlace
  <2>3. ASSUME NEW v \in Updates \ unanswered, v # u PROVE OnePlace(v)'
    <3>1. OnePlace(v) /\ job[r] = None /\ v # None
      BY <1>1, <2>3 DEF OnceInv, ActorInv
    <3>2. \A a \in Actors : job'[a] = v <=> job[a] = v
      BY <1>1, <2>3, <3>1 DEF ActorTypes
    <3> QED
      BY <1>1, <1>2, <2>3, <3>1, <3>2 DEF OnePlace, ActorTypes
  <2>4. ASSUME u \notin unanswered PROVE OnePlace(u)'
    BY <1>1, <1>2, <2>2, <2>4 DEF OnceInv, OnePlace, ActorTypes
  <2> QED
    BY <1>1, <2>1, <2>3, <2>4 DEF OnceInv, ActorTypes, SetTypes
<1> QED
  BY <1>3, <1>4, <1>5, <1>6

(* A request ends: what it answered with 200 is accounted for already, and    *)
(* what was dispatched in it is answered unless the client is gone.           *)
LEMMA EndStep ==
  ASSUME IndInv, NEW r \in Requests, MatchPanics(r) \/ SendAbandoned(r) \/ SendPanics(r) \/ Respond(r)
  PROVE  IndInv'
<1> USE DEF IndInv, TypeOK
<1>1. /\ UNCHANGED <<rpc, accepting, updateChan, closed, phase, want, replying, handled, dispatched, unanswered,
                     overtime>>
      /\ pc' = [pc EXCEPT ![r] = "idle"] /\ job' = [job EXCEPT ![r] = None] /\ gone' = gone \ {r}
      /\ \/ pc[r] \in {"match", "send"} /\ acked' = acked
         \/ pc[r] = "respond" /\ acked' = IF r \notin gone THEN acked \cup {job[r]} ELSE acked
  BY DEF MatchPanics, SendAbandoned, SendPanics, Respond, EndRequest, Goto, lock, queue, history
<1>2. job[r] \in Updates /\ Queued' = Queued /\ \A v : OnceQueued(v)' <=> OnceQueued(v)
  BY <1>1 DEF ActorTypes, ActorInv, Queued, OnceQueued
<1>3. ServerTypes' /\ ChanTypes' /\ ActorTypes' /\ SetTypes'
  BY <1>1, <1>2, ServerKept DEF ChanTypes, ActorTypes, SetTypes
<1>4. ActorInv' /\ DrainInv'
  BY <1>1 DEF ActorTypes, ActorInv, DrainInv
<1>5. AnswerInv'
  <2>1. \A u \in acked' : u \in acked \/ u \in handled
    BY <1>1 DEF AnswerInv
  <2> QED
    BY <1>1, <1>2, <2>1 DEF AnswerInv, ActorTypes
<1>6. OnceInv'
  <2>1. \A q \in gone' : pc'[q] # "idle" /\ job'[q] \in unanswered'
    BY <1>1 DEF OnceInv, ActorTypes, SetTypes
  <2>2. ASSUME NEW u \in Updates \ unanswered PROVE OnePlace(u)'
    <3>1. OnePlace(u) /\ acked \subseteq acked'
      BY <1>1 DEF OnceInv
    <3>2. u \in dispatched /\ job[r] = u => u \in acked'
      BY <1>1, <3>1 DEF OnePlace, OnceInv
    <3> QED
      BY <1>1, <1>2, <3>1, <3>2 DEF OnePlace, ActorTypes
  <2> QED
    BY <1>1, <2>1, <2>2 DEF OnceInv
<1> QED
  BY <1>3, <1>4, <1>5, <1>6

(* A request hands its update to the pool, and is answered. *)
LEMMA SendStep == ASSUME IndInv, NEW r \in Requests, Send(r) PROVE IndInv'
<1> USE DEF IndInv, TypeOK
<1>1. /\ UNCHANGED <<rpc, accepting, closed, phase, want, replying, handled, dispatched, unanswered, overtime>>
      /\ pc[r] = "send" /\ pc' = [pc EXCEPT ![r] = "idle"] /\ job' = [job EXCEPT ![r] = None]
      /\ gone' = gone \ {r} /\ acked' = (IF r \notin gone THEN acked \cup {job[r]} ELSE acked)
      /\ ~closed /\ Len(updateChan) < BufferSize /\ updateChan' = Append(updateChan, job[r])
  BY DEF Send, EndRequest, Goto, lock, history
<1>2. job[r] \in Updates
  BY <1>1 DEF ActorTypes, ActorInv
<1>3. ChanTypes' /\ Queued' = Queued \cup {job[r]}
  BY <1>1, <1>2, Sent
<1>4. ServerTypes' /\ ActorTypes' /\ SetTypes'
  BY <1>1, <1>2, ServerKept DEF ActorTypes, SetTypes
<1>5. ActorInv' /\ DrainInv' /\ AnswerInv'
  BY <1>1, <1>3 DEF ActorTypes, ActorInv, DrainInv, AnswerInv
<1>6. OnceInv'
  <2>1. \A q \in gone' : pc'[q] # "idle" /\ job'[q] \in unanswered'
    BY <1>1 DEF OnceInv, ActorTypes, SetTypes
  <2>2. ASSUME NEW u \in Updates \ unanswered PROVE OnePlace(u)'
    <3>1. OnePlace(u) /\ acked \subseteq acked' /\ (u = job[r] => u \notin Queued)
      BY <1>1 DEF OnceInv, OnePlace
    <3>2. u = job[r] => u \in acked' /\ u \notin dispatched
      BY <1>1, <3>1 DEF OnceInv, OnePlace
    <3>3. OnceQueued(u)'
      BY <1>1, <1>2, <3>1, SentOnce DEF OnePlace
    <3> QED
      BY <1>1, <1>3, <3>1, <3>2, <3>3 DEF OnePlace, ActorTypes
  <2> QED
    BY <1>1, <2>1, <2>2 DEF OnceInv
<1> QED
  BY <1>3, <1>4, <1>5, <1>6

(* A worker takes an update from the channel. *)
LEMMA ReceiveStep == ASSUME IndInv, NEW w \in Workers, Receive(w) PROVE IndInv'
<1> USE DEF IndInv, TypeOK
<1> DEFINE u == Head(updateChan)
<1>1. /\ UNCHANGED <<rpc, accepting, closed, gone, replying, acked, handled, dispatched, unanswered, overtime>>
      /\ pc[w] = "receive" /\ pc' = [pc EXCEPT ![w] = "lock"] /\ job' = [job EXCEPT ![w] = u]
      /\ phase' = [phase EXCEPT ![w] = "waiting"] /\ want' = [want EXCEPT ![w] = KeyOf[u]]
      /\ updateChan # <<>> /\ updateChan' = Tail(updateChan)
  BY DEF Receive, Goto, DispatchLock!Request, history
<1>2. ChanTypes' /\ u \in Updates /\ Queued = Queued' \cup {u}
  BY <1>1, Received
<1>3. ServerTypes' /\ ActorTypes' /\ SetTypes'
  BY <1>1, <1>2, ServerKept DEF ActorTypes, SetTypes
<1>4. ActorInv'
  BY <1>1, <1>2 DEF ActorTypes, ActorInv
<1>5. DrainInv'
  BY <1>1 DEF ActorTypes, DrainInv
<1>6. AnswerInv'
  <2>1. \A r \in Requests : pc'[r] = pc[r] /\ job'[r] = job[r]
    BY <1>1 DEF ActorTypes
  <2>2. ASSUME NEW v \in acked PROVE v \in handled \/ v \in Queued' \/ \E x \in Workers : job'[x] = v
    <3>1. job'[w] = u /\ job[w] = None /\ \A x \in Workers \ {w} : job'[x] = job[x]
      BY <1>1 DEF ActorTypes, ActorInv
    <3>2. v # None
      BY DEF SetTypes
    <3> QED
      BY <1>2, <3>1, <3>2 DEF AnswerInv
  <2> QED
    BY <1>1, <2>1, <2>2 DEF AnswerInv
<1>7. OnceInv'
  <2>1. \A q \in gone' : pc'[q] # "idle" /\ job'[q] \in unanswered'
    BY <1>1 DEF OnceInv, ActorTypes, SetTypes
  <2>2. ASSUME NEW v \in Updates \ unanswered PROVE OnePlace(v)'
    <3>1. OnePlace(v) /\ job[w] = None
      BY <1>1 DEF OnceInv, ActorInv
    <3>2. OnceQueued(v)' /\ (v = u => v \notin Queued')
      BY <1>1, <3>1, TakenOnce DEF OnePlace
    <3>3. v = u => v \in acked /\ v \notin dispatched /\ \A a \in Actors : job[a] # v
      BY <1>2, <3>1 DEF OnePlace
    <3> QED
      BY <1>1, <1>2, <3>1, <3>2, <3>3 DEF OnePlace, ActorTypes
  <2> QED
    BY <1>1, <2>1, <2>2 DEF OnceInv
<1> QED
  BY <1>2, <1>3, <1>4, <1>5, <1>6, <1>7

(* A dispatch begins ... *)
LEMMA BeginStep == ASSUME IndInv, NEW a \in Actors, Begin(a) PROVE IndInv'
<1> USE DEF IndInv, TypeOK
<1>1. /\ UNCHANGED <<rpc, accepting, updateChan, closed, job, gone, want, replying, acked, handled, unanswered,
                     overtime>>
      /\ pc[a] = "lock" /\ pc' = [pc EXCEPT ![a] = "run"] /\ phase' = [phase EXCEPT ![a] = "holding"]
      /\ dispatched' = dispatched \cup {job[a]}
  BY DEF Begin, Goto, DispatchLock!Grant, queue
<1>2. job[a] \in Updates /\ Queued' = Queued /\ \A v : OnceQueued(v)' <=> OnceQueued(v)
  BY <1>1 DEF ActorTypes, ActorInv, Queued, OnceQueued
<1>3. ServerTypes' /\ ChanTypes' /\ ActorTypes' /\ SetTypes'
  BY <1>1, <1>2, ServerKept DEF ChanTypes, ActorTypes, SetTypes
<1>4. ActorInv'
  BY <1>1 DEF ActorTypes, ActorInv
<1>5. DrainInv' /\ AnswerInv'
  BY <1>1, <1>2 DEF ActorTypes, DrainInv, AnswerInv
<1>6. OnceInv'
  <2>1. \A q \in gone' : pc'[q] # "idle" /\ job'[q] \in unanswered'
    BY <1>1 DEF OnceInv, ActorTypes, SetTypes
  <2>2. ASSUME NEW v \in Updates \ unanswered PROVE OnePlace(v)'
    <3>1. OnePlace(v)
      BY DEF OnceInv
    <3>2. v = job[a] => v \notin Queued /\ \A b \in Actors : job[b] = v => b = a
      BY <3>1 DEF OnePlace
    <3> QED
      BY <1>1, <1>2, <3>1, <3>2 DEF OnePlace, ActorTypes
  <2> QED
    BY <1>1, <2>1, <2>2 DEF OnceInv
<1> QED
  BY <1>3, <1>4, <1>5, <1>6

(* ... and ends. *)
LEMMA HandleStep == ASSUME IndInv, NEW a \in Actors, Handle(a) PROVE IndInv'
<1> USE DEF IndInv, TypeOK
<1>1. /\ UNCHANGED <<rpc, accepting, updateChan, closed, gone, acked, dispatched, unanswered, overtime>>
      /\ pc[a] = "run" /\ phase' = [phase EXCEPT ![a] = "idle"] /\ want' = [want EXCEPT ![a] = None]
      /\ handled' = handled \cup {job[a]}
      /\ \/ a \in Workers /\ pc' = [pc EXCEPT ![a] = "receive"] /\ job' = [job EXCEPT ![a] = None]
         \/ a \in Requests /\ pc' = [pc EXCEPT ![a] = "respond"] /\ job' = job
  BY DEF Handle, DispatchLock!Release, queue
<1>2. job[a] \in Updates /\ Queued' = Queued /\ \A v : OnceQueued(v)' <=> OnceQueued(v)
  BY <1>1 DEF ActorTypes, ActorInv, Queued, OnceQueued
<1>3. ServerTypes' /\ ChanTypes' /\ ActorTypes'
  BY <1>1, ServerKept DEF ChanTypes, ActorTypes
<1>4. SetTypes'
  <2>1. replying' \in [Keys -> BOOLEAN]
    BY DEF Handle, SetTypes
  <2> QED
    BY <1>1, <1>2, <2>1 DEF SetTypes
<1>5. ActorInv'
  BY <1>1, <1>2 DEF ActorTypes, ActorInv
<1>6. DrainInv'
  BY <1>1 DEF ActorTypes, DrainInv, ActorInv
<1>7. AnswerInv'
  BY <1>1, <1>2 DEF ActorTypes, AnswerInv
<1>8. OnceInv'
  <2>1. \A q \in gone' : pc'[q] # "idle" /\ job'[q] \in unanswered'
    BY <1>1 DEF OnceInv, ActorTypes, SetTypes
  <2>2. ASSUME NEW v \in Updates \ unanswered PROVE OnePlace(v)'
    <3>1. OnePlace(v)
      BY DEF OnceInv
    <3>2. v = job[a] /\ a \in Workers => v \in acked
      BY <3>1 DEF OnePlace
    <3> QED
      BY <1>1, <1>2, <3>1, <3>2 DEF OnePlace, ActorTypes
  <2> QED
    BY <1>1, <2>1, <2>2 DEF OnceInv
<1> QED
  BY <1>3, <1>4, <1>5, <1>6, <1>7, <1>8

(* ... or panics in a request: nothing more is said of its update. *)
LEMMA PanicStep == ASSUME IndInv, NEW r \in Requests, DispatchPanics(r) PROVE IndInv'
<1> USE DEF IndInv, TypeOK
<1>1. /\ UNCHANGED <<rpc, accepting, updateChan, closed, handled, dispatched, overtime>>
      /\ pc[r] = "run" /\ pc' = [pc EXCEPT ![r] = "idle"] /\ job' = [job EXCEPT ![r] = None]
      /\ phase' = [phase EXCEPT ![r] = "idle"] /\ want' = [want EXCEPT ![r] = None]
      /\ gone' = gone \ {r} /\ acked' = acked /\ unanswered' = unanswered \cup {job[r]}
  BY DEF DispatchPanics, EndRequest, Goto, DispatchLock!Release, queue
<1>2. job[r] \in Updates /\ Queued' = Queued /\ \A v : OnceQueued(v)' <=> OnceQueued(v)
  BY <1>1 DEF ActorTypes, ActorInv, Queued, OnceQueued
<1>3. ServerTypes' /\ ChanTypes' /\ ActorTypes'
  BY <1>1, ServerKept DEF ChanTypes, ActorTypes
<1>4. SetTypes'
  <2>1. replying' \in [Keys -> BOOLEAN]
    BY DEF DispatchPanics, SetTypes
  <2> QED
    BY <1>1, <1>2, <2>1 DEF SetTypes
<1>5. ActorInv' /\ DrainInv' /\ AnswerInv'
  BY <1>1, <1>2 DEF ActorTypes, ActorInv, DrainInv, AnswerInv
<1>6. OnceInv'
  <2>1. \A q \in gone' : pc'[q] # "idle" /\ job'[q] \in unanswered'
    BY <1>1 DEF OnceInv, ActorTypes, SetTypes
  <2>2. ASSUME NEW u \in Updates \ unanswered' PROVE OnePlace(u)'
    <3>1. OnePlace(u) /\ job[r] # u /\ u # None
      BY <1>1, <2>2 DEF OnceInv
    <3>2. \A a \in Actors : job'[a] = u <=> job[a] = u
      BY <1>1, <3>1 DEF ActorTypes
    <3> QED
      BY <1>1, <1>2, <3>1, <3>2 DEF OnePlace, ActorTypes
  <2> QED
    BY <2>1, <2>2 DEF OnceInv
<1> QED
  BY <1>3, <1>4, <1>5, <1>6

LEMMA IndInvStep == ASSUME IndInv, [Next]_vars PROVE IndInv'
BY RunStep, MatchStep, ExitStep, HangUpStep, DeliverStep, EndStep, SendStep, ReceiveStep, BeginStep, HandleStep,
   PanicStep
   DEF Next, RequestNext, DispatchNext, WorkerNext

-----------------------------------------------------------------------------
(* The theorems.  They are about SafeSpec: safety owes nothing to fairness. *)

(* The inductive invariant holds, with it the types of all variables.         *)
THEOREM Inductive == SafeSpec => []IndInv
BY InitInv, IndInvStep, PTL DEF SafeSpec

(* Whatever Telegram has been told to forget was handled, or is with a pool   *)
(* that still drains it; shutdowns that time out and servers that fail        *)
(* included.                                                                  *)
THEOREM NothingLost == SafeSpec => []AckedIsSafe
<1>1. IndInv => AckedIsSafe
  <2> SUFFICES ASSUME IndInv, NEW u \in acked, u \in Queued PROVE \E w \in Workers : pc[w] # "exited"
    BY DEF IndInv, AnswerInv, AckedIsSafe
  <2>1. updateChan # <<>>
    BY DEF Queued
  <2> QED
    BY <2>1 DEF IndInv, DrainInv
<1> QED
  BY <1>1, Inductive, PTL

(* No update is dispatched twice unless a client hung up on it or its dispatch *)
(* panicked out of the request.                                                *)
THEOREM Once == SafeSpec => OnceUnlessUnanswered
<1>1. IndInv => \A a \in Actors : pc[a] = "lock" /\ pc'[a] = "run" /\ job[a] \in dispatched => job[a] \in unanswered
  <2> SUFFICES ASSUME IndInv, NEW a \in Actors, pc[a] = "lock", job[a] \in dispatched, job[a] \notin unanswered
               PROVE  FALSE
    OBVIOUS
  <2>1. job[a] \in Updates
    BY DEF IndInv, TypeOK, ActorTypes, ActorInv
  <2> QED
    BY <2>1 DEF IndInv, OnceInv, OnePlace
<1> QED
  BY <1>1, Inductive, PTL DEF OnceUnlessUnanswered

(* A Shutdown that was given its time leaves nobody to send on the closed     *)
(* channel, and no handler running when the hooks do.                         *)
THEOREM Quiet == SafeSpec => []QuietAfterShutdown
<1>1. IndInv => QuietAfterShutdown
  BY DEF IndInv, DrainInv, ActorInv, QuietAfterShutdown
<1> QED
  BY <1>1, Inductive, PTL
=============================================================================
