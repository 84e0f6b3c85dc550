---------------------------- MODULE WizardProofs ----------------------------
(***************************************************************************)
(* Theorems about the wizard (wizard.go) for any number of workers, of     *)
(* senders and of steps, any choice of key strategies and sender           *)
(* identities, and any steps that allow commands: two dispatches never     *)
(* race on a conversation, a step's index is current until it moves, no    *)
(* answer outlives its attempt, and none that was stored is lost.          *)
(*                                                                         *)
(* They hold where OneIdentity does: wherever a handler may reach its data *)
(* through Message.FSM or CallbackQuery.FSM, that is the conversation the  *)
(* dispatch lock was taken for.                                            *)
(***************************************************************************)
EXTENDS Wizard, TLAPS

OneIdentity ==
  "entity" \in Handles =>
    \A s \in Strategy, b \in SenderIdentity, u \in Senders : ctxKey(s, b, u) = entityKey(s, u)

Jobs == [from : Senders, text : Texts, handle : Handles]

-----------------------------------------------------------------------------
(* The inductive invariant *)

(* Where a worker is says what it holds of the lock, and the key it asked    *)
(* for is the conversation of the update in hand.                            *)
LockInv ==
  /\ \A w \in Workers :
       /\ pc[w] = "idle" => phase[w] = "idle"
       /\ pc[w] = "lock" => phase[w] = "waiting"
       /\ pc[w] \notin {"idle", "lock"} => phase[w] = "holding"
       /\ pc[w] # "idle" => job[w] \in Jobs /\ want[w] = Key(w)
  /\ \A v, w \in Workers :
       v # w /\ phase[v] = "holding" /\ phase[w] = "holding" => want[v] # want[w]

(* What a handler has done so far is still there at its next step. *)
HandlerInv ==
  \A w \in Workers :
    /\ pc[w] \in {"answer", "move"} => state[Key(w)] = at[w]
    /\ pc[w] = "move" => data[Key(w)][at[w]] # 0 \/ at[w] \in missed[Key(w)]
    /\ pc[w] = "start" => state[Key(w)] = NoState

(* What the storage holds of a conversation, after each storage call *)
Sound(k) ==
  /\ state[k] = NoState => data[k] = NoData
  /\ state[k] # NoState => attempt[k] > 0
  /\ \A i \in Steps : data[k][i] \in {0, attempt[k]}
  /\ \A i \in Steps : i < state[k] => data[k][i] # 0 \/ i \in missed[k]

StoreInv == \A k \in Keys : Sound(k)

(* A step that leaves a conversation alone *)
Same(k) ==
  /\ state'[k] = state[k] /\ data'[k] = data[k]
  /\ attempt'[k] = attempt[k] /\ missed'[k] = missed[k]

IndInv == TypeOK /\ LockInv /\ HandlerInv /\ StoreInv

USE WizardAssumption

-----------------------------------------------------------------------------
(* Keys *)

(* OneIdentity holds of an application that reaches its data only through    *)
(* the Ctx, and of a bot without WithSenderIdentity.                         *)
LEMMA OneIdentityHolds ==
  ASSUME "entity" \notin Handles \/ TRUE \notin SenderIdentity
  PROVE  OneIdentity
BY DEF OneIdentity, ctxKey, entityKey

(* The key of an update in hand is a key of the storage. *)
LEMMA KeyType ==
  ASSUME TypeOK, NEW w \in Workers, job[w] \in Jobs
  PROVE  Key(w) \in Keys
<1>1. config.strategy \in Strategy /\ config.identity \in SenderIdentity /\ job[w].from \in Senders
  BY DEF TypeOK, Jobs
<1>. QED
  BY <1>1 DEF Key, KeyOf, Keys

LEMMA KeyOfType ==
  ASSUME TypeOK, NEW u \in Senders
  PROVE  KeyOf(u) \in Keys
<1>1. config.strategy \in Strategy /\ config.identity \in SenderIdentity
  BY DEF TypeOK
<1>. QED
  BY <1>1 DEF KeyOf, Keys

(* A handler's data is in the conversation its dispatch holds the lock of. *)
LEMMA OneKey ==
  ASSUME OneIdentity, TypeOK, NEW w \in Workers, job[w] \in Jobs
  PROVE  DataKey(w) = Key(w)
<1>1. config.strategy \in Strategy /\ config.identity \in SenderIdentity
  BY DEF TypeOK
<1>2. job[w].from \in Senders /\ job[w].handle \in Handles
  BY DEF Jobs
<1>3. CASE job[w].handle = "ctx"
  BY <1>3 DEF DataKey
<1>4. CASE job[w].handle # "ctx"
  <2>1. "entity" \in Handles
    BY <1>2, <1>4
  <2>. QED
    BY <1>1, <1>2, <1>4, <2>1 DEF OneIdentity, DataKey, Key, KeyOf
<1>. QED
  BY <1>3, <1>4

(* A worker past the lock shares its conversation with no other. *)
LEMMA Alone ==
  ASSUME IndInv, NEW v \in Workers, NEW w \in Workers, v # w,
         pc[v] \notin {"idle", "lock"}, pc[w] \notin {"idle", "lock"}
  PROVE  Key(v) # Key(w)
BY DEF IndInv, LockInv

-----------------------------------------------------------------------------
(* Steps preserve the invariant. *)

LEMMA InitInd == Init => IndInv
<1>. SUFFICES ASSUME Init PROVE IndInv
  OBVIOUS
<1>1. TypeOK
  BY DEF Init, TypeOK, DispatchLock!Init, NoData, Steps, NoState
<1>2. LockInv
  BY DEF Init, LockInv, DispatchLock!Init
<1>3. HandlerInv
  BY DEF Init, HandlerInv
<1>4. StoreInv
  BY DEF Init, StoreInv, Sound, NoData, Steps, NoState
<1>. QED
  BY <1>1, <1>2, <1>3, <1>4 DEF IndInv

(* The conversations, where a step leaves the storage alone *)
LEMMA StoreKept ==
  ASSUME StoreInv, UNCHANGED store
  PROVE  StoreInv'
BY DEF StoreInv, Sound, store, history

(* A step of a worker that leaves alone its job, its place in the lock and   *)
(* the options                                                               *)
LEMMA LockKept ==
  ASSUME TypeOK, LockInv, NEW w \in Workers, UNCHANGED <<config, job, lock>>,
         pc[w] \notin {"idle", "lock"}, NEW to \in {"match", "unlock"} \cup InHandler,
         pc' = [pc EXCEPT ![w] = to]
  PROVE  LockInv'
<1>1. UNCHANGED <<phase, want>> /\ \A v \in Workers : Key(v)' = Key(v)
  BY DEF lock, Key, KeyOf
<1>2. \A v \in Workers : v # w => pc'[v] = pc[v]
  BY DEF TypeOK
<1>3. pc'[w] \notin {"idle", "lock"}
  BY DEF TypeOK, InHandler
<1>. QED
  BY <1>1, <1>2, <1>3 DEF LockInv

(* A step of a worker in its critical section that changes at most its own   *)
(* conversation keeps what the handlers of the others have done.             *)
LEMMA OthersKept ==
  ASSUME IndInv, NEW w \in Workers, UNCHANGED <<config, job>>,
         pc[w] \notin {"idle", "lock"},
         \A v \in Workers : v # w => pc'[v] = pc[v] /\ at'[v] = at[v],
         \A k \in Keys : k # Key(w) =>
           Same(k),
         NEW v \in Workers, v # w
  PROVE  /\ pc'[v] \in {"answer", "move"} => state'[Key(v)'] = at'[v]
         /\ pc'[v] = "move" => data'[Key(v)'][at'[v]] # 0 \/ at'[v] \in missed'[Key(v)']
         /\ pc'[v] = "start" => state'[Key(v)'] = NoState
<1>1. Key(v)' = Key(v)
  BY DEF Key, KeyOf
<1>2. CASE pc[v] \in {"answer", "move", "start"}
  <2>1. Key(v) # Key(w)
    BY <1>2, Alone
  <2>2. job[v] \in Jobs
    BY <1>2 DEF IndInv, LockInv
  <2>3. Key(v) \in Keys
    BY <2>2, KeyType DEF IndInv
  <2>. QED
    BY <1>1, <2>1, <2>3 DEF IndInv, HandlerInv, Same
<1>. QED
  BY <1>2
LEMMA ReceiveInd ==
  ASSUME IndInv, NEW w \in Workers, NEW u \in Senders, NEW text \in Texts,
         NEW handle \in Handles, Receive(w, u, text, handle)
  PROVE  IndInv'
<1>. USE DEF IndInv
<1>. DEFINE new == [from |-> u, text |-> text, handle |-> handle]
<1>1. /\ pc[w] = "idle" /\ pc' = [pc EXCEPT ![w] = "lock"]
      /\ job' = [job EXCEPT ![w] = new]
      /\ phase[w] = "idle" /\ phase' = [phase EXCEPT ![w] = "waiting"]
      /\ want' = [want EXCEPT ![w] = KeyOf(u)]
      /\ UNCHANGED <<config, state, data, entered, attempt, missed, at>>
  BY DEF Receive, Goto, DispatchLock!Request, store, history
<1>2. new \in Jobs /\ KeyOf(u) \in Keys
  BY KeyOfType DEF Jobs
<1>3. job'[w] = new /\ \A v \in Workers : v # w => job'[v] = job[v]
  BY <1>1 DEF TypeOK
<1>4. TypeOK'
  BY <1>1, <1>2 DEF TypeOK, Jobs
<1>5. Key(w)' = KeyOf(u) /\ \A v \in Workers : v # w => Key(v)' = Key(v)
  BY <1>1, <1>3 DEF Key, KeyOf
<1>6. LockInv'
  BY <1>1, <1>2, <1>3, <1>5 DEF TypeOK, LockInv
<1>7. HandlerInv'
  BY <1>1, <1>5 DEF TypeOK, HandlerInv
<1>8. StoreInv'
  BY <1>1, StoreKept DEF store, history
<1>. QED
  BY <1>4, <1>6, <1>7, <1>8

LEMMA BeginInd ==
  ASSUME IndInv, NEW w \in Workers, Begin(w)
  PROVE  IndInv'
<1>. USE DEF IndInv
<1>1. /\ pc[w] = "lock" /\ pc' = [pc EXCEPT ![w] = "match"]
      /\ phase' = [phase EXCEPT ![w] = "holding"]
      /\ \A v \in Workers : v # w /\ phase[v] = "holding" => want[v] # want[w]
      /\ UNCHANGED <<config, state, data, entered, attempt, missed, job, at, want>>
  BY DEF Begin, Goto, DispatchLock!Grant, DispatchLock!Excluded, store, history
<1>2. TypeOK'
  BY <1>1 DEF TypeOK
<1>3. \A v \in Workers : Key(v)' = Key(v)
  BY <1>1 DEF Key, KeyOf
<1>4. LockInv'
  BY <1>1, <1>3 DEF TypeOK, LockInv
<1>5. HandlerInv'
  BY <1>1, <1>3 DEF TypeOK, HandlerInv
<1>6. StoreInv'
  BY <1>1, StoreKept DEF store, history
<1>. QED
  BY <1>2, <1>4, <1>5, <1>6

LEMMA UnlockInd ==
  ASSUME IndInv, NEW w \in Workers, Unlock(w)
  PROVE  IndInv'
<1>. USE DEF IndInv
<1>1. /\ pc[w] = "unlock" /\ pc' = [pc EXCEPT ![w] = "idle"]
      /\ phase' = [phase EXCEPT ![w] = "idle"] /\ want' = [want EXCEPT ![w] = None]
      /\ job' = [job EXCEPT ![w] = None] /\ at' = [at EXCEPT ![w] = 0]
      /\ UNCHANGED <<config, state, data, entered, attempt, missed>>
  BY DEF Unlock, Goto, DispatchLock!Release, store, history
<1>2. TypeOK'
  BY <1>1 DEF TypeOK, Steps
<1>3. \A v \in Workers : v # w => Key(v)' = Key(v) /\ job'[v] = job[v]
  BY <1>1 DEF TypeOK, Key, KeyOf
<1>4. LockInv'
  BY <1>1, <1>3 DEF TypeOK, LockInv
<1>5. HandlerInv'
  BY <1>1, <1>3 DEF TypeOK, HandlerInv
<1>6. StoreInv'
  BY <1>1, StoreKept DEF store, history
<1>. QED
  BY <1>2, <1>4, <1>5, <1>6

(* A step of a handler, or of the matching before it, that leaves the        *)
(* storage alone and goes to a place that promises nothing of it.            *)
LEMMA QuietInd ==
  ASSUME IndInv, NEW w \in Workers, UNCHANGED <<config, store, job, at, lock>>,
         pc[w] \notin {"idle", "lock"}, NEW to \in {"cancel", "enter", "exit", "unlock"},
         pc' = [pc EXCEPT ![w] = to]
  PROVE  IndInv'
<1>. USE DEF IndInv
<1>1. UNCHANGED <<config, state, data, entered, attempt, missed, job, at, phase, want>>
  BY DEF store, history, lock
<1>2. TypeOK'
  BY <1>1 DEF TypeOK, InHandler
<1>3. to \in {"match", "unlock"} \cup InHandler
  BY DEF InHandler
<1>4. LockInv'
  BY <1>3, LockKept
<1>5. \A v \in Workers : Key(v)' = Key(v)
  BY <1>1 DEF Key, KeyOf
<1>6. HandlerInv'
  BY <1>1, <1>5 DEF TypeOK, HandlerInv
<1>7. StoreInv'
  BY StoreKept
<1>. QED
  BY <1>2, <1>4, <1>6, <1>7

LEMMA MatchCancelInd ==
  ASSUME IndInv, NEW w \in Workers, MatchCancel(w)
  PROVE  IndInv'
BY QuietInd DEF MatchCancel, Goto

LEMMA FallThroughInd ==
  ASSUME IndInv, NEW w \in Workers, FallThrough(w)
  PROVE  IndInv'
BY QuietInd DEF FallThrough

LEMMA FailInd ==
  ASSUME IndInv, NEW w \in Workers, Fail(w)
  PROVE  IndInv'
<1>1. /\ pc[w] \in InHandler /\ pc' = [pc EXCEPT ![w] = "unlock"]
      /\ UNCHANGED <<config, store, job, at, lock>>
  BY DEF Fail, Goto
<1>2. pc[w] \notin {"idle", "lock"}
  BY <1>1 DEF InHandler
<1>. QED
  BY <1>1, <1>2, QuietInd

LEMMA MatchStepInd ==
  ASSUME IndInv, NEW w \in Workers, MatchStep(w)
  PROVE  IndInv'
<1>. USE DEF IndInv
<1>1. /\ pc[w] = "match" /\ pc' = [pc EXCEPT ![w] = "answer"]
      /\ state[Key(w)] \in Steps /\ at' = [at EXCEPT ![w] = state[Key(w)]]
      /\ UNCHANGED <<config, state, data, entered, attempt, missed, job, phase, want>>
  BY DEF MatchStep, InWizard, Goto, store, history, lock
<1>2. TypeOK'
  BY <1>1 DEF TypeOK, InHandler
<1>3. LockInv'
  BY <1>1, LockKept DEF lock, InHandler
<1>4. \A v \in Workers : Key(v)' = Key(v)
  BY <1>1 DEF Key, KeyOf
<1>5. HandlerInv'
  BY <1>1, <1>4 DEF TypeOK, HandlerInv
<1>6. StoreInv'
  BY <1>1, StoreKept DEF store, history
<1>. QED
  BY <1>2, <1>3, <1>5, <1>6
(* A step in a critical section: only its own conversation has to be looked  *)
(* at, and what its own handler relies on.                                   *)
LEMMA OwnStepInd ==
  ASSUME IndInv, NEW w \in Workers, UNCHANGED <<config, job, at, lock>>,
         pc[w] \notin {"idle", "lock"}, NEW to \in {"unlock"} \cup InHandler,
         pc' = [pc EXCEPT ![w] = to], TypeOK',
         \A k \in Keys : k # Key(w) =>
           Same(k),
         Sound(Key(w))',
         to # "answer",
         to = "move" =>
           state'[Key(w)] = at[w] /\ (data'[Key(w)][at[w]] # 0 \/ at[w] \in missed'[Key(w)]),
         to = "start" => state'[Key(w)] = NoState
  PROVE  IndInv'
<1>1. LockInv'
  BY LockKept DEF IndInv
<1>2. /\ pc'[w] = to /\ UNCHANGED <<at, config, job>> /\ Key(w)' = Key(w)
      /\ \A v \in Workers : v # w => pc'[v] = pc[v] /\ at'[v] = at[v]
  BY DEF IndInv, TypeOK, Key, KeyOf
<1>3. HandlerInv'
  <2>. SUFFICES ASSUME NEW v \in Workers
       PROVE  /\ pc'[v] \in {"answer", "move"} => state'[Key(v)'] = at'[v]
              /\ pc'[v] = "move" => data'[Key(v)'][at'[v]] # 0 \/ at'[v] \in missed'[Key(v)']
              /\ pc'[v] = "start" => state'[Key(v)'] = NoState
    BY DEF HandlerInv, NoState
  <2>1. CASE v = w
    BY <1>2, <2>1
  <2>2. CASE v # w
    BY <1>2, <2>2, OthersKept
  <2>. QED
    BY <2>1, <2>2
<1>4. StoreInv'
  <2>. SUFFICES ASSUME NEW k \in Keys PROVE Sound(k)'
    BY DEF StoreInv, Keys
  <2>1. CASE k = Key(w)
    BY <1>2, <2>1 DEF Sound
  <2>2. CASE k # Key(w)
    <3>1. Sound(k)
      BY DEF IndInv, StoreInv
    <3>. QED
      BY <3>1, <2>2 DEF Sound, Same, NoState, NoData, Steps
  <2>. QED
    BY <2>1, <2>2
<1>. QED
  BY <1>1, <1>3, <1>4 DEF IndInv

(* What a critical section may rely on of its own conversation *)
LEMMA Own ==
  ASSUME IndInv, NEW w \in Workers, pc[w] \notin {"idle", "lock"}
  PROVE  Key(w) \in Keys /\ job[w] \in Jobs /\ Sound(Key(w))
<1>1. job[w] \in Jobs
  BY DEF IndInv, LockInv
<1>2. Key(w) \in Keys
  BY <1>1, KeyType DEF IndInv
<1>. QED
  BY <1>1, <1>2 DEF IndInv, StoreInv

LEMMA MissedType ==
  ASSUME IndInv, NEW k \in Keys, NEW S,
         missed' = [missed EXCEPT ![k] = @ \cup {i \in S : data[k][i] = 0}],
         S \subseteq Steps
  PROVE  missed' \in [Keys -> SUBSET Steps]
BY DEF IndInv, TypeOK

(* A handler that moves its conversation to another step, having left out    *)
(* those it passed over                                                      *)
LEMMA SetStateInd ==
  ASSUME IndInv, NEW w \in Workers, NEW s \in Steps, NEW S, S \subseteq Steps,
         SetState(w, s), LeaveOut(w, S),
         pc[w] = "move", pc' = [pc EXCEPT ![w] = "unlock"],
         \A i \in Steps : at[w] < i /\ i < s => i \in S
  PROVE  IndInv'
<1>. DEFINE k == Key(w)
<1>1. /\ state' = [state EXCEPT ![k] = s]
      /\ missed' = [missed EXCEPT ![k] = @ \cup {i \in S : data[k][i] = 0}]
      /\ UNCHANGED <<config, data, entered, attempt, job, at, phase, want>>
  BY DEF SetState, LeaveOut, lock
<1>2. k \in Keys /\ Sound(k)
  BY Own
<1>3. missed' \in [Keys -> SUBSET Steps]
  BY <1>1, <1>2, MissedType
<1>4. TypeOK'
  BY <1>1, <1>3 DEF IndInv, TypeOK, InHandler
<1>5. state[k] = at[w] /\ (data[k][at[w]] # 0 \/ at[w] \in missed[k]) /\ at[w] \in Steps
  BY DEF IndInv, TypeOK, HandlerInv
<1>6. /\ state'[k] = s /\ data'[k] = data[k] /\ attempt'[k] = attempt[k] /\ k' = k
      /\ missed'[k] = missed[k] \cup {i \in S : data[k][i] = 0}
  BY <1>1, <1>2 DEF IndInv, TypeOK, Key, KeyOf
<1>7. attempt[k] > 0 /\ \A i \in Steps : i < s => data[k][i] # 0 \/ i \in missed'[k]
  <2>1. attempt[k] > 0
    BY <1>2, <1>5 DEF Sound, Steps, NoState
  <2>2. ASSUME NEW i \in Steps, i < s PROVE data[k][i] # 0 \/ i \in missed'[k]
    <3>1. CASE i < at[w]
      BY <1>2, <1>5, <1>6, <3>1 DEF Sound
    <3>2. CASE i = at[w]
      BY <1>5, <1>6, <3>2
    <3>3. CASE i > at[w]
      BY <1>6, <2>2, <3>3
    <3>. QED
      BY <1>5, <3>1, <3>2, <3>3 DEF Steps
  <2>. QED
    BY <2>1, <2>2
<1>8. Sound(k)'
  BY <1>2, <1>6, <1>7 DEF Sound, Steps, NoState
<1>9. \A j \in Keys : j # k => Same(j)
  BY <1>1 DEF IndInv, TypeOK, Same
<1>10. UNCHANGED <<config, job, at, lock>>
  BY <1>1 DEF lock
<1>. QED
  BY <1>4, <1>8, <1>9, <1>10, OwnStepInd

LEMMA ClearInd ==
  ASSUME IndInv, NEW w \in Workers, Clear(w), pc[w] \in {"exit", "cancel", "enter"},
         NEW to \in {"unlock", "start"}, pc' = [pc EXCEPT ![w] = to]
  PROVE  IndInv'
<1>. DEFINE k == Key(w)
<1>1. /\ state' = [state EXCEPT ![k] = NoState] /\ data' = [data EXCEPT ![k] = NoData]
      /\ attempt' = [attempt EXCEPT ![k] = 0] /\ missed' = [missed EXCEPT ![k] = {}]
      /\ UNCHANGED <<config, entered, job, at, phase, want>>
  BY DEF Clear, lock
<1>2. k \in Keys
  BY Own
<1>3. NoData \in [Steps -> 0..MaxAttempts] /\ 0 \in 0..MaxAttempts
  BY DEF NoData
<1>4. TypeOK'
  BY <1>1, <1>3 DEF IndInv, TypeOK, InHandler
<1>5. state'[k] = NoState /\ data'[k] = NoData /\ attempt'[k] = 0 /\ k' = k
  BY <1>1, <1>2 DEF IndInv, TypeOK, Key, KeyOf
<1>6. Sound(k)'
  BY <1>5 DEF Sound, NoData, NoState, Steps
<1>7. \A j \in Keys : j # k => Same(j)
  BY <1>1 DEF IndInv, TypeOK, Same
<1>8. UNCHANGED <<config, job, at, lock>>
  BY <1>1 DEF lock
<1>. QED
  BY <1>4, <1>5, <1>6, <1>7, <1>8, OwnStepInd DEF InHandler

LEMMA AnswerInd ==
  ASSUME OneIdentity, IndInv, NEW w \in Workers, Answer(w)
  PROVE  IndInv'
<1>. DEFINE k == Key(w)
<1>1. /\ pc[w] = "answer" /\ pc' = [pc EXCEPT ![w] = "move"]
      /\ data' = [data EXCEPT ![DataKey(w)][at[w]] = attempt[k]]
      /\ missed' = [missed EXCEPT ![k] = @ \ {at[w]}]
      /\ UNCHANGED <<config, state, entered, attempt, job, at, phase, want>>
  BY DEF Answer, Goto, lock
<1>2. k \in Keys /\ job[w] \in Jobs /\ Sound(k)
  BY <1>1, Own
<1>3. DataKey(w) = k
  BY <1>2, OneKey DEF IndInv
<1>4. at[w] \in Steps /\ state[k] = at[w] /\ attempt[k] \in 0..MaxAttempts
  BY <1>1, <1>2 DEF IndInv, TypeOK, HandlerInv
<1>5. /\ data \in [Keys -> [Steps -> 0..MaxAttempts]]
      /\ missed \in [Keys -> SUBSET Steps]
  BY DEF IndInv, TypeOK
<1>6. /\ data' = [data EXCEPT ![k] = [data[k] EXCEPT ![at[w]] = attempt[k]]]
      /\ data' \in [Keys -> [Steps -> 0..MaxAttempts]]
      /\ missed' \in [Keys -> SUBSET Steps]
  BY <1>1, <1>2, <1>3, <1>4, <1>5
<1>7. TypeOK'
  BY <1>1, <1>6 DEF IndInv, TypeOK, InHandler
<1>8. /\ state'[k] = state[k] /\ attempt'[k] = attempt[k] /\ k' = k
      /\ data'[k] = [data[k] EXCEPT ![at[w]] = attempt[k]]
      /\ missed'[k] = missed[k] \ {at[w]}
  BY <1>1, <1>2, <1>5, <1>6 DEF Key, KeyOf
<1>9. attempt[k] > 0
  BY <1>2, <1>4 DEF Sound, Steps, NoState
<1>10. data'[k][at[w]] = attempt[k] /\ \A i \in Steps : i # at[w] => data'[k][i] = data[k][i]
  BY <1>2, <1>4, <1>5, <1>8
<1>11. state[k] # NoState
  BY <1>4 DEF Steps, NoState
<1>12. Sound(k)'
  <2>1. \A i \in Steps : data'[k][i] \in {0, attempt[k]}
    BY <1>2, <1>10 DEF Sound
  <2>2. \A i \in Steps : i < state[k] => data'[k][i] # 0 \/ i \in missed'[k]
    BY <1>2, <1>4, <1>8, <1>9, <1>10 DEF Sound
  <2>. QED
    BY <1>8, <1>9, <1>11, <2>1, <2>2 DEF Sound, NoState
<1>13. \A j \in Keys : j # k => Same(j)
  BY <1>1, <1>5, <1>6 DEF Same
<1>14. UNCHANGED <<config, job, at, lock>>
  BY <1>1 DEF lock
<1>15. state'[k] = at[w] /\ data'[k][at[w]] # 0
  BY <1>4, <1>8, <1>9, <1>10
<1>16. pc[w] \notin {"idle", "lock"} /\ "move" \in {"unlock"} \cup InHandler
  BY <1>1 DEF InHandler
<1>. QED
  BY <1>1, <1>7, <1>12, <1>13, <1>14, <1>15, <1>16, OwnStepInd

LEMMA AnswerDiscardedInd ==
  ASSUME IndInv, NEW w \in Workers, AnswerDiscarded(w)
  PROVE  IndInv'
<1>. DEFINE k == Key(w)
<1>1. /\ pc[w] = "answer" /\ pc' = [pc EXCEPT ![w] = "move"]
      /\ missed' = [missed EXCEPT ![k] = @ \cup {i \in {at[w]} : data[k][i] = 0}]
      /\ UNCHANGED <<config, state, data, entered, attempt, job, at, phase, want>>
  BY DEF AnswerDiscarded, LeaveOut, Goto, lock
<1>2. k \in Keys /\ Sound(k)
  BY <1>1, Own
<1>3. at[w] \in Steps /\ state[k] = at[w]
  BY <1>1 DEF IndInv, TypeOK, HandlerInv
<1>4. missed' \in [Keys -> SUBSET Steps]
  <2>. DEFINE S == {at[w]}
  <2>1. missed' = [missed EXCEPT ![k] = @ \cup {i \in S : data[k][i] = 0}]
    BY <1>1
  <2>2. S \subseteq Steps
    BY <1>3
  <2>. HIDE DEF S
  <2>. QED
    BY <1>2, <2>1, <2>2, MissedType
<1>5. TypeOK'
  BY <1>1, <1>4 DEF IndInv, TypeOK, InHandler
<1>6. /\ state'[k] = state[k] /\ data'[k] = data[k] /\ attempt'[k] = attempt[k] /\ k' = k
      /\ missed'[k] = missed[k] \cup {i \in {at[w]} : data[k][i] = 0}
  BY <1>1, <1>2 DEF IndInv, TypeOK, Key, KeyOf
<1>7. Sound(k)'
  BY <1>2, <1>6 DEF Sound
<1>8. \A j \in Keys : j # k => Same(j)
  BY <1>1 DEF IndInv, TypeOK, Same
<1>9. UNCHANGED <<config, job, at, lock>>
  BY <1>1 DEF lock
<1>10. state'[k] = at[w] /\ (data'[k][at[w]] # 0 \/ at[w] \in missed'[k])
  BY <1>3, <1>6
<1>11. pc[w] \notin {"idle", "lock"} /\ "move" \in {"unlock"} \cup InHandler
  BY <1>1 DEF InHandler
<1>. QED
  BY <1>1, <1>5, <1>7, <1>8, <1>9, <1>10, <1>11, OwnStepInd

(* A step that passes over no other leaves none out. *)
LEMMA NothingLeftOut ==
  ASSUME IndInv, NEW w \in Workers, UNCHANGED missed
  PROVE  LeaveOut(w, {})
BY DEF IndInv, TypeOK, LeaveOut

LEMMA AdvanceInd ==
  ASSUME IndInv, NEW w \in Workers, Advance(w)
  PROVE  IndInv'
<1>1. at[w] \in Steps
  BY DEF IndInv, TypeOK
<1>2. CASE at[w] + 1 < NSteps /\ Goto(w, "move", "unlock") /\ SetState(w, at[w] + 1)
             /\ UNCHANGED missed
  <2>1. at[w] + 1 \in Steps /\ \A i \in Steps : at[w] < i /\ i < at[w] + 1 => i \in {}
    BY <1>1, <1>2 DEF Steps
  <2>2. LeaveOut(w, {})
    BY <1>2, NothingLeftOut
  <2>. QED
    BY <1>2, <2>1, <2>2, SetStateInd DEF Goto
<1>3. CASE Goto(w, "move", "exit") /\ UNCHANGED <<config, store, job, at, lock>>
  BY <1>3, QuietInd DEF Goto
<1>. QED
  BY <1>2, <1>3 DEF Advance

LEMMA BackInd ==
  ASSUME IndInv, NEW w \in Workers, Back(w)
  PROVE  IndInv'
<1>1. at[w] \in Steps /\ Goto(w, "move", "unlock")
  BY DEF IndInv, TypeOK, Back
<1>2. CASE at[w] = 0
  BY <1>1, <1>2, QuietInd DEF Back, Goto
<1>3. CASE at[w] # 0
  <2>1. /\ at[w] - 1 \in Steps /\ SetState(w, at[w] - 1) /\ UNCHANGED missed
        /\ \A i \in Steps : at[w] < i /\ i < at[w] - 1 => i \in {}
    BY <1>1, <1>3 DEF Back, Steps
  <2>2. LeaveOut(w, {})
    BY <2>1, NothingLeftOut
  <2>. QED
    BY <1>1, <2>1, <2>2, SetStateInd DEF Goto
<1>. QED
  BY <1>2, <1>3

LEMMA GoToInd ==
  ASSUME IndInv, NEW w \in Workers, NEW i \in Steps, GoTo(w, i)
  PROVE  IndInv'
<1>. DEFINE S == at[w] + 1..i - 1
<1>1. at[w] \in Steps
  BY DEF IndInv, TypeOK
<1>2. SetState(w, i) /\ Goto(w, "move", "unlock") /\ LeaveOut(w, S)
  BY DEF GoTo
<1>3. S \subseteq Steps /\ \A j \in Steps : at[w] < j /\ j < i => j \in S
  BY <1>1 DEF Steps
<1>. HIDE DEF S
<1>. QED
  BY <1>2, <1>3, SetStateInd DEF Goto

LEMMA ExitInd ==
  ASSUME IndInv, NEW w \in Workers, Exit(w)
  PROVE  IndInv'
BY ClearInd DEF Exit, Goto

LEMMA EnterInd ==
  ASSUME IndInv, NEW w \in Workers, Enter(w)
  PROVE  IndInv'
BY ClearInd DEF Enter, Goto

LEMMA StartInd ==
  ASSUME IndInv, NEW w \in Workers, Start(w)
  PROVE  IndInv'
<1>. DEFINE k == Key(w)
<1>1. /\ pc[w] = "start" /\ pc' = [pc EXCEPT ![w] = "unlock"]
      /\ state' = [state EXCEPT ![k] = 0] /\ attempt' = [attempt EXCEPT ![k] = entered + 1]
      /\ entered < MaxAttempts /\ entered' = entered + 1
      /\ UNCHANGED <<config, data, missed, job, at, phase, want>>
  BY DEF Start, Goto, lock
<1>2. k \in Keys /\ Sound(k)
  BY <1>1, Own
<1>3. state[k] = NoState /\ entered \in Nat /\ entered + 1 \in 0..MaxAttempts
  BY <1>1, <1>2 DEF IndInv, TypeOK, HandlerInv
<1>4. TypeOK'
  BY <1>1, <1>2, <1>3 DEF IndInv, TypeOK, InHandler, Steps
<1>5. state'[k] = 0 /\ data'[k] = NoData /\ attempt'[k] = entered + 1 /\ k' = k
  BY <1>1, <1>2, <1>3 DEF IndInv, TypeOK, Key, KeyOf, Sound
<1>6. Sound(k)'
  BY <1>3, <1>5 DEF Sound, NoData, NoState, Steps
<1>7. \A j \in Keys : j # k => Same(j)
  BY <1>1 DEF IndInv, TypeOK, Same
<1>8. UNCHANGED <<config, job, at, lock>>
  BY <1>1 DEF lock
<1>. QED
  BY <1>1, <1>4, <1>6, <1>7, <1>8, OwnStepInd DEF InHandler

-----------------------------------------------------------------------------
(* Every behaviour of the wizard keeps the invariant: who is where in the    *)
(* lock, what a handler has done so far, and what the storage holds.         *)
THEOREM Inductive == OneIdentity => (Spec => []IndInv)
<1>. SUFFICES ASSUME OneIdentity PROVE Spec => []IndInv
  OBVIOUS
<1>1. Init => IndInv
  BY InitInd
<1>2. IndInv /\ [Next]_vars => IndInv'
  <2>. SUFFICES ASSUME IndInv, [Next]_vars PROVE IndInv'
    OBVIOUS
  <2>1. CASE UNCHANGED vars
    <3>1. /\ UNCHANGED <<config, state, data, entered, attempt, missed, pc, job, at, phase, want>>
          /\ \A w \in Workers : Key(w)' = Key(w)
      BY <2>1 DEF vars, store, history, lock, Key, KeyOf
    <3>2. TypeOK' /\ LockInv' /\ HandlerInv'
      BY <3>1 DEF IndInv, TypeOK, LockInv, HandlerInv
    <3>3. StoreInv'
      BY <3>1, StoreKept DEF IndInv, store, history
    <3>. QED
      BY <3>2, <3>3 DEF IndInv
  <2>2. ASSUME NEW w \in Workers, Dispatch(w) PROVE IndInv'
    BY <2>2, ReceiveInd, BeginInd, MatchCancelInd, MatchStepInd, FallThroughInd, UnlockInd
    DEF Dispatch
  <2>3. ASSUME NEW w \in Workers, Handler(w) PROVE IndInv'
    BY <2>3, FailInd, AnswerInd, AnswerDiscardedInd, AdvanceInd, BackInd, GoToInd, ExitInd,
       EnterInd, StartInd
    DEF Handler
  <2>. QED
    BY <2>1, <2>2, <2>3 DEF Next
<1>. QED
  BY <1>1, <1>2, PTL DEF Spec

(* "updates sharing FSM state are processed serially and never race on it"   *)
(* (WithFSMKeyStrategy, bot.go), for every key strategy and both sender      *)
(* identities: identityTriple gives the lock and the handler one key.        *)
THEOREM NeverRaces == OneIdentity => (Spec => []NoRace)
<1>. SUFFICES ASSUME OneIdentity PROVE Spec => []NoRace
  OBVIOUS
<1>1. IndInv => NoRace
  <2>. SUFFICES ASSUME IndInv, NEW v \in Workers, NEW w \in Workers, v # w,
                       phase[v] = "holding", phase[w] = "holding"
       PROVE  {Key(v), DataKey(v)} \cap {Key(w), DataKey(w)} = {}
    BY DEF NoRace
  <2>1. pc[v] \notin {"idle", "lock"} /\ pc[w] \notin {"idle", "lock"}
    BY DEF IndInv, LockInv
  <2>2. DataKey(v) = Key(v) /\ DataKey(w) = Key(w)
    BY <2>1, Own, OneKey DEF IndInv
  <2>. QED
    BY <2>1, <2>2, Alone
<1>. QED
  BY <1>1, Inductive, PTL

(* The step index a handler was given is the state of its conversation until *)
(* it moves, so that Next and Back go on from where the conversation is.     *)
THEOREM StepStaysCurrent == OneIdentity => (Spec => []StepIsCurrent)
<1>1. IndInv => StepIsCurrent
  BY DEF IndInv, HandlerInv, StepIsCurrent
<1>. QED
  BY <1>1, Inductive, PTL

(* "a re-entered wizard never inherits stale data from an earlier abandoned  *)
(* attempt" (Wizard.Enter), whichever storage calls fail.                    *)
THEOREM NothingStale == OneIdentity => (Spec => []NoStaleAnswers)
<1>1. IndInv => NoStaleAnswers
  BY DEF IndInv, StoreInv, Sound, NoStaleAnswers
<1>. QED
  BY <1>1, Inductive, PTL

(* A conversation that has reached step i holds the answers to all steps     *)
(* before it, also after Back and GoTo, failed calls and retried updates, but *)
(* for those that were left out when they were passed.                       *)
THEOREM AnswersKept == OneIdentity => (Spec => []EarlierAnswersKept)
<1>1. IndInv => EarlierAnswersKept
  BY DEF IndInv, StoreInv, Sound, EarlierAnswersKept
<1>. QED
  BY <1>1, Inductive, PTL
=============================================================================
