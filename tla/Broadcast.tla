----------------------------- MODULE Broadcast -----------------------------
(***************************************************************************)
(* Broadcast (broadcast.go): the caller feeds chats to a pool of workers   *)
(* over an unbuffered channel, every worker sends paced by one shared      *)
(* token bucket, a flood error pauses the whole bucket, and the context    *)
(* may be canceled at any time.  Durations are remaining ones; a unit of   *)
(* time is what one part of a token takes to come, a token has Cost parts, *)
(* and rate and burst, one number in the code, make Burst units a second.  *)
(***************************************************************************)
EXTENDS Integers

CONSTANTS
  Workers,  \* WithBroadcastConcurrency
  NChats,   \* len(chatIDs)
  Burst,    \* capacity of the pacer, in parts of a token
  Cost,     \* parts in one token; Burst < Cost is a rate below one a second
  Pauses    \* what RetryAfter may be

ASSUME BroadcastAssumption ==
  NChats \in Nat /\ Burst \in Nat \ {0} /\ Cost \in Nat \ {0} /\ Pauses \subseteq Nat

VARIABLES
  main,      \* the caller: "feeding", "closed", then "complete" or "canceled"
  next,      \* the chat fed next
  canceled,  \* ctx is done
  pc,        \* pc[w]: where worker w is
  chat,      \* chat[w]: the chat it works on, or 0
  sleep,     \* sleep[w]: what is left of its wait in Wait
  tokens,    \* broadcastPacer, as of the last refill
  elapsed,   \* time since then, which no longer matters once it fills the bucket
  paused,    \* what is left of pausedUntil
  outcome,   \* the BroadcastResult, by chat
  owed,      \* history: owed[w], what is left of the RetryAfter worker w was told
  begun      \* history: the chats that somebody has begun to send to

pacer   == <<tokens, elapsed, paused>>
caller  == <<main, next, canceled>>
workers == <<pc, chat, sleep>>
vars    == <<caller, workers, pacer, outcome, owed, begun>>

-----------------------------------------------------------------------------

Chats    == 1..NChats
Least(a, b)    == IF a < b THEN a ELSE b
Greatest(a, b) == IF a > b THEN a ELSE b
Left(t)  == IF t > 0 THEN t - 1 ELSE 0

Waiting  == {"wait", "rewait"}
Sending  == {"send", "resend"}
Granted  == [wait |-> "send", rewait |-> "resend"]
Returned == {"complete", "canceled"}

Init ==
  /\ main = "feeding" /\ next = 1 /\ canceled = FALSE
  /\ pc = [w \in Workers |-> "receive"]
  /\ chat = [w \in Workers |-> 0] /\ sleep = [w \in Workers |-> 0]
  /\ tokens = Burst /\ elapsed = 0 /\ paused = 0
  /\ outcome = [c \in Chats |-> "none"]
  /\ owed = [w \in Workers |-> 0] /\ begun = {}

-----------------------------------------------------------------------------
(* The caller *)

Feed(w) ==
  /\ main = "feeding" /\ next <= NChats /\ pc[w] = "receive"
  /\ next' = next + 1
  /\ chat' = [chat EXCEPT ![w] = next]
  /\ pc' = [pc EXCEPT ![w] = "wait"]
  /\ UNCHANGED <<main, canceled, sleep, pacer, outcome, owed, begun>>

(* The chats are used up, or the select finds ctx done, while a worker may   *)
(* be ready as well: then close(idCh).                                       *)
Close ==
  /\ main = "feeding" /\ (next > NChats \/ canceled)
  /\ main' = "closed"
  /\ UNCHANGED <<next, canceled, workers, pacer, outcome, owed, begun>>

(* Broadcast without its wg.Wait *)
ReturnAtOnce ==
  /\ main = "closed"
  /\ main' = IF canceled THEN "canceled" ELSE "complete"
  /\ UNCHANGED <<next, canceled, workers, pacer, outcome, owed, begun>>

Return ==
  /\ main = "closed" /\ \A w \in Workers : pc[w] = "done"
  /\ main' = IF canceled THEN "canceled" ELSE "complete"
  /\ UNCHANGED <<next, canceled, workers, pacer, outcome, owed, begun>>

Cancel ==
  /\ ~canceled /\ canceled' = TRUE
  /\ UNCHANGED <<main, next, workers, pacer, outcome, owed, begun>>

-----------------------------------------------------------------------------
(* broadcastPacer *)

LevelUncapped == tokens + elapsed

Level == Least(Burst, tokens + elapsed)

(* A token, or how long until there is one *)
Draw(w) ==
  /\ pc[w] \in Waiting /\ sleep[w] = 0 /\ paused = 0
  /\ \/ /\ Level < Cost
        /\ tokens' = Level
        /\ sleep' = [sleep EXCEPT ![w] = Cost - Level]
        /\ pc' = pc /\ begun' = begun
     \/ /\ Level >= Cost
        /\ tokens' = Level - Cost
        /\ sleep' = sleep
        /\ pc' = [pc EXCEPT ![w] = Granted[pc[w]]]
        /\ begun' = begun \cup {chat[w]}
  /\ UNCHANGED <<caller, chat, paused, outcome, owed>>

(* lastRefill is when the bucket was made *)
ReserveKeepingClock(w) == Draw(w) /\ elapsed' = elapsed

Reserve(w) == Draw(w) /\ elapsed' = 0

ReservePaused(w) ==
  /\ pc[w] \in Waiting /\ sleep[w] = 0 /\ paused > 0
  /\ sleep' = [sleep EXCEPT ![w] = paused]
  /\ UNCHANGED <<caller, pc, chat, pacer, outcome, owed, begun>>

Tick ==
  /\ paused' = Left(paused)
  /\ sleep' = [w \in Workers |-> Left(sleep[w])]
  /\ owed' = [w \in Workers |-> Left(owed[w])]
  /\ elapsed' = Least(Burst, elapsed + 1)
  /\ UNCHANGED <<caller, pc, chat, tokens, outcome, begun>>

-----------------------------------------------------------------------------
(* sendOne *)

Resolve(w, how) ==
  /\ outcome' = [outcome EXCEPT ![chat[w]] = how]
  /\ pc' = [pc EXCEPT ![w] = "receive"]
  /\ chat' = [chat EXCEPT ![w] = 0]

(* Without the return after resolve *)
GiveUpAndSend(w) ==
  /\ pc[w] \in Waiting /\ sleep[w] > 0 /\ canceled
  /\ outcome' = [outcome EXCEPT ![chat[w]] = "canceled"]
  /\ pc' = [pc EXCEPT ![w] = Granted[pc[w]]]
  /\ sleep' = [sleep EXCEPT ![w] = 0]
  /\ UNCHANGED <<caller, chat, pacer, owed, begun>>

(* Wait's select finds ctx done before the timer *)
GiveUp(w) ==
  /\ pc[w] \in Waiting /\ sleep[w] > 0 /\ canceled
  /\ Resolve(w, "canceled")
  /\ sleep' = [sleep EXCEPT ![w] = 0]
  /\ UNCHANGED <<caller, pacer, owed, begun>>

(* A flood error of the second attempt is a failure like any other. *)
SendReturns(w) ==
  /\ pc[w] \in Sending
  /\ \E how \in {"sent", "failed", "blocked"} : Resolve(w, how)
  /\ UNCHANGED <<caller, sleep, pacer, owed, begun>>

(* Every flood error is worth another try *)
FloodRetriedForever(w) ==
  /\ pc[w] \in Sending
  /\ \E d \in Pauses :
       /\ paused' = Greatest(paused, d)
       /\ owed' = [owed EXCEPT ![w] = d]
  /\ pc' = [pc EXCEPT ![w] = "rewait"]
  /\ UNCHANGED <<caller, chat, sleep, tokens, elapsed, outcome, begun>>

(* pauseFor without a look at the pause in force *)
FloodOverwriting(w) ==
  /\ pc[w] = "send"
  /\ \E d \in Pauses :
       /\ paused' = d
       /\ owed' = [owed EXCEPT ![w] = d]
  /\ pc' = [pc EXCEPT ![w] = "rewait"]
  /\ UNCHANGED <<caller, chat, sleep, tokens, elapsed, outcome, begun>>

Flood(w) ==
  /\ pc[w] = "send"
  /\ \E d \in Pauses :
       /\ paused' = Greatest(paused, d)
       /\ owed' = [owed EXCEPT ![w] = d]
  /\ pc' = [pc EXCEPT ![w] = "rewait"]
  /\ UNCHANGED <<caller, chat, sleep, tokens, elapsed, outcome, begun>>

(* The channel is closed and empty. *)
Leave(w) ==
  /\ main = "closed" /\ pc[w] = "receive"
  /\ pc' = [pc EXCEPT ![w] = "done"]
  /\ UNCHANGED <<caller, chat, sleep, pacer, outcome, owed, begun>>

-----------------------------------------------------------------------------

Worker(w) ==
  Feed(w) \/ Reserve(w) \/ ReservePaused(w) \/ GiveUp(w) \/ SendReturns(w) \/ Flood(w) \/ Leave(w)

Next == Close \/ Return \/ Cancel \/ Tick \/ \E w \in Workers : Worker(w)

SafeSpec == Init /\ [][Next]_vars

(* Time passes, goroutines that can run do run, and a send ends: every call  *)
(* the bot makes has a deadline.                                             *)
Spec == SafeSpec /\ WF_vars(Tick) /\ WF_vars(Close) /\ WF_vars(Return)
                 /\ \A w \in Workers : WF_vars(Worker(w))

-----------------------------------------------------------------------------
(* Properties *)

TypeOK ==
  /\ main \in {"feeding", "closed"} \cup Returned
  /\ next \in 1..NChats + 1 /\ canceled \in BOOLEAN
  /\ pc \in [Workers -> {"receive", "done"} \cup Waiting \cup Sending]
  /\ chat \in [Workers -> 0..NChats]
  /\ sleep \in [Workers -> Nat] /\ owed \in [Workers -> Nat]
  /\ tokens \in 0..Burst /\ elapsed \in 0..Burst /\ paused \in Nat
  /\ outcome \in [Chats -> {"none", "sent", "failed", "blocked", "canceled"}]
  /\ begun \subseteq Chats

(* WithBroadcastRate: all workers together keep the rate, first attempts and *)
(* retries, although the bucket is refilled only when somebody asks.         *)
Bucket == INSTANCE TokenBucket WITH level <- Level
RateHeld == Bucket!Spec

(* A flood error "pauses the shared pacer for the error's RetryAfter": no    *)
(* worker starts a send before every RetryAfter received has passed.         *)
PauseHonored ==
  [][\A w \in Workers :
       pc[w] \in Waiting /\ pc'[w] \in Sending => \A v \in Workers : owed[v] = 0]_vars

(* Each chat is resolved once: no worker works on a chat another has, and a  *)
(* result stands.                                                            *)
ResolvedOnce ==
  /\ \A v, w \in Workers : v # w /\ chat[v] # 0 => chat[v] # chat[w]
  /\ \A w \in Workers : chat[w] # 0 => chat[w] < next /\ outcome[chat[w]] = "none"

(* When Broadcast returns nobody is sending any more, every chat it began to *)
(* send to is in the result, chats it did not get to are "simply absent",    *)
(* and if it returns nil every chat is there, none as canceled.  Nothing is  *)
(* said of a chat that was waiting for its first token when ctx was done:    *)
(* the comment on Broadcast has it absent, sendOne records it as failed.     *)
ResultIsFinal ==
  main \in Returned =>
    /\ \A w \in Workers : pc[w] = "done"
    /\ \A c \in begun : outcome[c] # "none"
    /\ \A c \in Chats : c >= next => outcome[c] = "none"
    /\ main = "complete" => \A c \in Chats : outcome[c] \notin {"none", "canceled"}

(* Broadcast returns, canceled or not. *)
Returns == <>(main \in Returned)
=============================================================================
