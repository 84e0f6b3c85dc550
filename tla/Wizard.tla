------------------------------- MODULE Wizard -------------------------------
(***************************************************************************)
(* Wizard conversations (wizard.go) on the FSM (fsm.go), driven by workers *)
(* that dispatch updates under the per-key lock.  The wizard's router is   *)
(* included first and the application's command that enters the wizard     *)
(* comes after it.  A step's handler, written as Wizard's comment shows,   *)
(* stores its answer and then moves; every storage call may fail.  Then the *)
(* handler returns the error and leaves the rest undone - or goes on, as     *)
(* the one in the comment does, which discards the error of FSMSet.          *)
(***************************************************************************)
EXTENDS Identity, Integers

CONSTANTS
  Workers,          \* goroutines dispatching updates
  Senders,          \* who sends what from where: the updates but for their text
  Strategy,         \* the FSMKeyStrategy choices
  SenderIdentity,   \* the WithSenderIdentity choices, a subset of BOOLEAN
  Handles,          \* how step handlers reach their data: "ctx", "entity"
  NSteps,           \* steps of the wizard
  AllowCommands,    \* steps with WithStepAllowCommands
  MaxAttempts,      \* bound: times the wizard is entered, in all conversations
  None              \* no update in hand

ASSUME WizardAssumption ==
  /\ Strategy \subseteq Strategies /\ SenderIdentity \subseteq BOOLEAN
  /\ Handles \subseteq {"ctx", "entity"}
  /\ NSteps \in Nat \ {0} /\ AllowCommands \subseteq 0..NSteps - 1
  /\ MaxAttempts \in Nat

VARIABLES
  config,   \* the bot's options: [strategy, identity]
  state,    \* storage: state[k], a step's state or NoState
  data,     \* storage: data[k][i], the attempt that answered step i, or 0
  pc,       \* pc[w]: where worker w is
  job,      \* job[w]: the update in hand, [from, text, handle], or None
  at,       \* at[w]: WizardCtx.stepIndex
  phase,    \* the per-key lock (module KeyLock)
  want,     \* the per-key lock
  entered,  \* history: times the wizard was entered
  attempt,  \* history: attempt[k], the number of the attempt going on in k, or 0
  missed    \* history: missed[k], steps of this attempt that were left unanswered:
            \* storing failed and the handler went on, or GoTo passed over them

history == <<entered, attempt, missed>>
store   == <<state, data, history>>
lock    == <<phase, want>>
vars    == <<config, store, pc, job, at, lock>>

-----------------------------------------------------------------------------

Steps   == 0..NSteps - 1
NoState == -1
Texts   == {"text", "enter", "cancel"}
NoData  == [i \in Steps |-> 0]

Keys == {ctxKey(s, b, u) : s \in Strategy, b \in SenderIdentity, u \in Senders}
          \cup {entityKey(s, u) : s \in Strategy, u \in Senders}

DispatchLock == INSTANCE KeyLock WITH Threads <- Workers, StuckKeys <- {}

KeyOf(u) == ctxKey(config.strategy, config.identity, u)
Key(w)   == KeyOf(job[w].from)

(* The conversation whose data worker w's handler writes. *)
DataKey(w) ==
  IF job[w].handle = "ctx" THEN Key(w) ELSE entityKey(config.strategy, job[w].from)

Goto(w, from, to) == pc[w] = from /\ pc' = [pc EXCEPT ![w] = to]

Init ==
  /\ config \in [strategy : Strategy, identity : SenderIdentity]
  /\ state = [k \in Keys |-> NoState] /\ data = [k \in Keys |-> NoData]
  /\ entered = 0 /\ attempt = [k \in Keys |-> 0] /\ missed = [k \in Keys |-> {}]
  /\ pc = [w \in Workers |-> "idle"] /\ job = [w \in Workers |-> None]
  /\ at = [w \in Workers |-> 0]
  /\ DispatchLock!Init

-----------------------------------------------------------------------------
(* dispatchCtx *)

(* The lock is taken for the person, whatever shares the conversation *)
ReceiveForSender(w, u, text, handle) ==
  /\ Goto(w, "idle", "lock")
  /\ job' = [job EXCEPT ![w] = [from |-> u, text |-> text, handle |-> handle]]
  /\ DispatchLock!Request(w, apply("UserInTopic", ChatOf(u), SenderOf(u), ThreadOf(u)))
  /\ UNCHANGED <<config, store, at>>

Receive(w, u, text, handle) ==
  /\ handle = "entity" => u.kind \in {"message", "callback"}
  /\ Goto(w, "idle", "lock")
  /\ job' = [job EXCEPT ![w] = [from |-> u, text |-> text, handle |-> handle]]
  /\ DispatchLock!Request(w, KeyOf(u))
  /\ UNCHANGED <<config, store, at>>

Begin(w) ==
  /\ Goto(w, "lock", "match")
  /\ DispatchLock!Grant(w)
  /\ UNCHANGED <<config, store, job, at>>

(* The wizard's own routes, in order: the cancel command in any of its       *)
(* states, then each step in its state unless the text is a command.         *)
InWizard(w) == state[Key(w)] \in Steps

MatchCancel(w) ==
  /\ Goto(w, "match", "cancel")
  /\ job[w].from.kind = "message" /\ job[w].text = "cancel" /\ InWizard(w)
  /\ UNCHANGED <<config, store, job, at, lock>>

(* Of a step that allows commands: also /cancel, if reading the state failed *)
(* for the cancel route and then succeeded for the step's.                   *)
MatchStep(w) ==
  /\ Goto(w, "match", "answer")
  /\ job[w].from.kind = "message" /\ InWizard(w)
  /\ job[w].text = "text" \/ state[Key(w)] \in AllowCommands
  /\ at' = [at EXCEPT ![w] = state[Key(w)]]
  /\ UNCHANGED <<config, store, job, lock>>

(* No wizard route matches, also because reading the state fails (StateIs    *)
(* and StateIn are then false): the routes after the wizard are tried.       *)
FallThrough(w) ==
  /\ pc[w] = "match"
  /\ pc' = [pc EXCEPT ![w] = IF job[w].text = "enter" THEN "enter" ELSE "unlock"]
  /\ UNCHANGED <<config, store, job, at, lock>>

Unlock(w) ==
  /\ Goto(w, "unlock", "idle")
  /\ DispatchLock!Release(w)
  /\ job' = [job EXCEPT ![w] = None]
  /\ at' = [at EXCEPT ![w] = 0]
  /\ UNCHANGED <<config, store>>

-----------------------------------------------------------------------------
(* Handlers *)

InHandler == {"answer", "move", "cancel", "exit", "enter", "start"}

(* A storage call fails and the handler returns its error, or one of its own, *)
(* or panics (as GoTo does out of range).                                     *)
Fail(w) ==
  /\ \E here \in InHandler : Goto(w, here, "unlock")
  /\ UNCHANGED <<config, store, job, at, lock>>

(* A storage that replaces what it holds of a conversation *)
SetStateDroppingData(w, s) ==
  /\ state' = [state EXCEPT ![Key(w)] = s]
  /\ data' = [data EXCEPT ![Key(w)] = NoData]
  /\ UNCHANGED <<config, entered, attempt, job, at, lock>>

SetState(w, s) ==
  /\ state' = [state EXCEPT ![Key(w)] = s]
  /\ UNCHANGED <<config, data, entered, attempt, job, at, lock>>

Clear(w) ==
  /\ state' = [state EXCEPT ![Key(w)] = NoState]
  /\ data' = [data EXCEPT ![Key(w)] = NoData]
  /\ attempt' = [attempt EXCEPT ![Key(w)] = 0]
  /\ missed' = [missed EXCEPT ![Key(w)] = {}]
  /\ UNCHANGED <<config, entered, job, at, lock>>

(* FSMSet(wc.FSM(), ...) in a step *)
Answer(w) ==
  /\ Goto(w, "answer", "move")
  /\ data' = [data EXCEPT ![DataKey(w)][at[w]] = attempt[Key(w)]]
  /\ missed' = [missed EXCEPT ![Key(w)] = @ \ {at[w]}]
  /\ UNCHANGED <<config, state, entered, attempt, job, at, lock>>

(* Those of steps S that have no answer yet are left without one. *)
LeaveOut(w, S) ==
  missed' = [missed EXCEPT ![Key(w)] = @ \cup {i \in S : data[Key(w)][i] = 0}]

(* ... fails, and the handler goes on all the same. *)
AnswerDiscarded(w) ==
  /\ Goto(w, "answer", "move")
  /\ LeaveOut(w, {at[w]})
  /\ UNCHANGED <<config, state, data, entered, attempt, job, at, lock>>

(* WizardCtx.Next: the last step exits *)
Advance(w) ==
  \/ /\ at[w] + 1 < NSteps
     /\ Goto(w, "move", "unlock")
     /\ SetState(w, at[w] + 1)
     /\ UNCHANGED missed
  \/ /\ at[w] + 1 >= NSteps
     /\ Goto(w, "move", "exit")
     /\ UNCHANGED <<config, store, job, at, lock>>

(* WizardCtx.Back *)
Back(w) ==
  /\ Goto(w, "move", "unlock")
  /\ IF at[w] = 0 THEN UNCHANGED <<config, store, job, at, lock>>
                  ELSE SetState(w, at[w] - 1) /\ UNCHANGED missed

(* WizardCtx.GoTo, to any step *)
GoTo(w, i) ==
  /\ Goto(w, "move", "unlock")
  /\ SetState(w, i)
  /\ LeaveOut(w, at[w] + 1..i - 1)

(* Leaving without a look at the data *)
ExitStateOnly(w) ==
  /\ \E here \in {"exit", "cancel"} : Goto(w, here, "unlock")
  /\ SetState(w, NoState)
  /\ UNCHANGED missed

(* Wizard.Exit and Wizard.Cancel; their hooks run after the Clear, and what  *)
(* they return is the handler's result.                                      *)
Exit(w) ==
  /\ \E here \in {"exit", "cancel"} : Goto(w, here, "unlock")
  /\ Clear(w)

(* Entering over an abandoned attempt without clearing it *)
EnterKeepingData(w) ==
  /\ Goto(w, "enter", "start")
  /\ SetState(w, NoState)
  /\ UNCHANGED missed

(* Wizard.Enter: Clear ... *)
Enter(w) ==
  /\ Goto(w, "enter", "start")
  /\ Clear(w)

(* ... then SetState(states[0]) *)
Start(w) ==
  /\ Goto(w, "start", "unlock")
  /\ entered < MaxAttempts
  /\ entered' = entered + 1
  /\ state' = [state EXCEPT ![Key(w)] = 0]
  /\ attempt' = [attempt EXCEPT ![Key(w)] = entered + 1]
  /\ UNCHANGED <<config, data, missed, job, at, lock>>

-----------------------------------------------------------------------------

Dispatch(w) ==
  \/ \E u \in Senders, text \in Texts, handle \in Handles : Receive(w, u, text, handle)
  \/ Begin(w) \/ MatchCancel(w) \/ MatchStep(w) \/ FallThrough(w) \/ Unlock(w)

Handler(w) ==
  \/ Fail(w) \/ Answer(w) \/ AnswerDiscarded(w) \/ Advance(w) \/ Back(w) \/ (\E i \in Steps : GoTo(w, i))
  \/ Exit(w) \/ Enter(w) \/ Start(w)

Next == \E w \in Workers : Dispatch(w) \/ Handler(w)

Spec == Init /\ [][Next]_vars

-----------------------------------------------------------------------------
(* Properties *)

TypeOK ==
  /\ config \in [strategy : Strategy, identity : SenderIdentity]
  /\ state \in [Keys -> Steps \cup {NoState}]
  /\ data \in [Keys -> [Steps -> 0..MaxAttempts]]
  /\ entered \in 0..MaxAttempts /\ attempt \in [Keys -> 0..MaxAttempts]
  /\ missed \in [Keys -> SUBSET Steps]
  /\ pc \in [Workers -> {"idle", "lock", "match", "unlock"} \cup InHandler]
  /\ job \in [Workers -> [from : Senders, text : Texts, handle : Handles] \cup {None}]
  /\ at \in [Workers -> Steps]
  /\ phase \in [Workers -> {"idle", "waiting", "holding"}]
  /\ want \in [Workers -> Keys \cup {None}]

(* "updates sharing FSM state are processed serially and never race on it"   *)
(* (WithFSMKeyStrategy, bot.go): two dispatches past the lock never work on  *)
(* the same conversation, whatever the key strategy and sender identity.     *)
NoRace ==
  \A v, w \in Workers :
    v # w /\ phase[v] = "holding" /\ phase[w] = "holding"
      => {Key(v), DataKey(v)} \cap {Key(w), DataKey(w)} = {}

(* The step index a handler was given is the state of its conversation until *)
(* it moves: Next and Back go on from where the conversation is.             *)
StepIsCurrent == \A w \in Workers : pc[w] \in {"answer", "move"} => state[Key(w)] = at[w]

(* "a re-entered wizard never inherits stale data from an earlier abandoned  *)
(* attempt" (Wizard.Enter), whatever failed on the way; and Exit, Cancel and *)
(* Next past the last step end the conversation for good: no data stays      *)
(* behind where no wizard is in progress.                                    *)
NoStaleAnswers ==
  \A k \in Keys :
    IF state[k] = NoState THEN data[k] = NoData
                          ELSE \A i \in Steps : data[k][i] \in {0, attempt[k]}

(* A conversation that has reached step i holds the answers to the steps      *)
(* before it, after going back, jumps, failed calls and retried updates too,  *)
(* but for those that were left out when they were passed: a later call never *)
(* loses an answer, and nobody else's handler moves the conversation on.      *)
EarlierAnswersKept ==
  \A k \in Keys : \A i \in Steps : i < state[k] => data[k][i] # 0 \/ i \in missed[k]
=============================================================================
