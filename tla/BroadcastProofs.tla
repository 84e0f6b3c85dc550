-------------------------- MODULE BroadcastProofs --------------------------
(***************************************************************************)
(* Theorems about Broadcast, for any number of workers and chats, any rate *)
(* and any pauses.                                                         *)
(***************************************************************************)
EXTENDS Broadcast, TLAPS

Working == Waiting \cup Sending

(* A worker has a chat while it works on one. *)
Busy == \A w \in Workers : chat[w] # 0 <=> pc[w] \in Working

(* The pause in force is the longest that is still owed to somebody. *)
PauseCovers == \A w \in Workers : owed[w] <= paused

(* No chat is forgotten: it is in the result or with a worker. *)
Accounted == \A c \in Chats : c < next /\ outcome[c] = "none" => \E w \in Workers : chat[w] = c

(* A chat that has not been handed out is not in the result. *)
Fresh == \A c \in Chats : c >= next => outcome[c] = "none"

(* After the close, nothing is left to feed unless ctx was canceled. *)
FedOut ==
  /\ main # "feeding" => canceled \/ next > NChats
  /\ main = "complete" => next > NChats
  /\ main \in Returned => \A w \in Workers : pc[w] = "done"

(* Chats that were begun have been handed out. *)
Begun == \A c \in begun : c < next

(* Only a canceled broadcast gives up on a chat. *)
Uncanceled == ~canceled \/ main = "complete" => \A c \in Chats : outcome[c] # "canceled"

IndInv ==
  TypeOK /\ Busy /\ PauseCovers /\ ResolvedOnce /\ Fresh /\ Accounted /\ FedOut /\ Begun /\ Uncanceled

USE BroadcastAssumption DEF BroadcastAssumption

(* The initial states satisfy the invariant. *)
LEMMA InitInv == Init => IndInv
<1> SUFFICES ASSUME Init PROVE IndInv
  OBVIOUS
<1>1. TypeOK
  <2>1. /\ tokens \in 0..Burst /\ elapsed \in 0..Burst /\ next \in 1..NChats + 1
    BY DEF Init
  <2>2. /\ chat \in [Workers -> 0..NChats]
        /\ sleep \in [Workers -> Nat] /\ owed \in [Workers -> Nat]
    BY DEF Init
  <2> QED
    BY <2>1, <2>2 DEF Init, TypeOK
<1>2. Busy /\ PauseCovers /\ ResolvedOnce
  BY DEF Init, Busy, PauseCovers, ResolvedOnce, Working, Waiting, Sending
<1>3. Fresh /\ Accounted /\ FedOut /\ Begun /\ Uncanceled
  BY DEF Init, Fresh, Accounted, FedOut, Begun, Uncanceled, Chats, Returned
<1> QED
  BY <1>1, <1>2, <1>3 DEF IndInv

(* The level of the bucket is a number of parts it can hold. *)
LEMMA LevelType == ASSUME TypeOK PROVE Level \in 0..Burst /\ tokens <= Level
  BY DEF TypeOK, Level, Least

Places   == {"receive", "done"} \cup Waiting \cup Sending
Outcomes == {"none", "sent", "failed", "blocked", "canceled"}

(* Resolving a chat keeps the types. *)
LEMMA ResolveType ==
  ASSUME TypeOK, NEW w \in Workers, NEW how \in Outcomes, Resolve(w, how)
  PROVE  /\ outcome' \in [Chats -> Outcomes]
         /\ pc' \in [Workers -> Places] /\ chat' \in [Workers -> 0..NChats]
<1>1. outcome' \in [Chats -> Outcomes]
  <2> DEFINE c == chat[w]
  <2>1. outcome \in [Chats -> Outcomes] /\ outcome' = [outcome EXCEPT ![c] = how]
    BY DEF TypeOK, Outcomes, Resolve
  <2> HIDE DEF c
  <2> QED
    BY <2>1
<1>2. pc' \in [Workers -> Places]
  BY DEF TypeOK, Places, Resolve
<1>3. chat' \in [Workers -> 0..NChats]
  BY DEF TypeOK, Resolve
<1> QED
  BY <1>1, <1>2, <1>3

(* The variables keep their types. *)
LEMMA TypeStep == ASSUME IndInv, [Next]_vars PROVE TypeOK'
<1> USE DEF IndInv, TypeOK
<1>0. CASE UNCHANGED vars
  BY <1>0 DEF vars, caller, workers, pacer
<1>1. CASE Close \/ Return \/ Cancel
  BY <1>1 DEF Close, Return, Cancel, caller, workers, pacer, Returned
<1>2. CASE Tick
  BY <1>2 DEF Tick, Left, Least, caller
<1>3. ASSUME NEW w \in Workers, Worker(w) PROVE TypeOK'
  <2>1. CASE Feed(w)
    BY <2>1 DEF Feed, pacer, Waiting
  <2>2. CASE Reserve(w)
    <3>1. Level \in 0..Burst
      BY LevelType
    <3>2. chat[w] \in Chats
      BY <2>2 DEF Reserve, Draw, Busy, Working, Chats
    <3>3. begun' \subseteq Chats
      BY <2>2, <3>2 DEF Reserve, Draw
    <3> QED
      BY <2>2, <3>1, <3>3 DEF Reserve, Draw, caller, Granted, Waiting, Sending
  <2>3. CASE ReservePaused(w)
    BY <2>3 DEF ReservePaused, pacer, caller
  <2>4. CASE GiveUp(w)
    BY <2>4, ResolveType DEF GiveUp, Outcomes, Places, pacer, caller
  <2>5. CASE SendReturns(w)
    BY <2>5, ResolveType DEF SendReturns, Outcomes, Places, pacer, caller
  <2>6. CASE Flood(w)
    <3>1. PICK d \in Pauses : paused' = Greatest(paused, d) /\ owed' = [owed EXCEPT ![w] = d]
      BY <2>6 DEF Flood
    <3>2. paused' \in Nat /\ owed' \in [Workers -> Nat]
      BY <3>1 DEF Greatest
    <3> QED
      BY <2>6, <3>2 DEF Flood, caller, Waiting
  <2>7. CASE Leave(w)
    BY <2>7 DEF Leave, pacer, caller
  <2> QED
    BY <1>3, <2>1, <2>2, <2>3, <2>4, <2>5, <2>6, <2>7 DEF Worker
<1> QED
  BY <1>0, <1>1, <1>2, <1>3 DEF Next

(* What a step leaves to say about the other parts of the invariant. *)
Core ==
  Busy /\ PauseCovers /\ ResolvedOnce /\ Fresh /\ Accounted /\ FedOut /\ Begun /\ Uncanceled

(* Ends the work on a chat: as if it had never been handed out, but resolved. *)
LEMMA ResolveStep ==
  ASSUME IndInv, NEW w \in Workers, NEW how \in Outcomes \ {"none"},
         pc[w] \in Working, how = "canceled" => canceled, Resolve(w, how),
         UNCHANGED <<caller, paused, owed, begun>>
  PROVE  Core'
<1> USE DEF IndInv, TypeOK
<1> DEFINE c == chat[w]
<1>1. c \in Chats /\ c < next /\ outcome[c] = "none"
  BY DEF Busy, ResolvedOnce, Chats
<1>2. /\ pc'[w] = "receive" /\ chat'[w] = 0 /\ outcome'[c] = how
      /\ \A v \in Workers \ {w} : pc'[v] = pc[v] /\ chat'[v] = chat[v] /\ chat[v] # c
      /\ \A d \in Chats \ {c} : outcome'[d] = outcome[d]
  <2>1. \A v \in Workers \ {w} : chat[v] # c
    BY <1>1 DEF ResolvedOnce, Chats
  <2> QED
    BY <1>1, <2>1 DEF Resolve
<1>3. Busy'
  BY <1>2 DEF Busy, Working, Waiting, Sending
<1>4. PauseCovers'
  BY DEF PauseCovers
<1>5. ResolvedOnce'
  <2>1. \A v \in Workers : chat'[v] # 0 => chat'[v] < next' /\ outcome'[chat'[v]] = "none"
    <3> SUFFICES ASSUME NEW v \in Workers, chat'[v] # 0
                 PROVE  chat'[v] < next' /\ outcome'[chat'[v]] = "none"
      OBVIOUS
    <3>1. v # w /\ chat'[v] = chat[v] /\ chat[v] \in Chats \ {c}
      BY <1>2 DEF Chats
    <3> QED
      BY <3>1, <1>2 DEF ResolvedOnce, caller
  <2> QED
    BY <1>2, <2>1 DEF ResolvedOnce
<1>6. Fresh' /\ Accounted'
  BY <1>1, <1>2 DEF Fresh, Accounted, caller, Outcomes
<1>7. FedOut'
  BY <1>2 DEF FedOut, caller, Working, Waiting, Sending, Returned
<1>8. Begun' /\ Uncanceled'
  BY <1>2 DEF Begun, Uncanceled, FedOut, caller, Working, Waiting, Sending, Returned
<1> QED
  BY <1>3, <1>4, <1>5, <1>6, <1>7, <1>8 DEF Core

(* The invariant is inductive. *)
LEMMA CoreStep == ASSUME IndInv, [Next]_vars PROVE Core'
<1> USE DEF IndInv, TypeOK
<1>0. CASE UNCHANGED vars
  BY <1>0 DEF vars, caller, workers, pacer, Core, Busy, PauseCovers, ResolvedOnce, Fresh, Accounted, FedOut, Begun, Uncanceled
<1>1. CASE Close \/ Return \/ Cancel
  BY <1>1 DEF Close, Return, Cancel, caller, workers, pacer, Returned, Core, Busy, PauseCovers,
              ResolvedOnce, Fresh, Accounted, FedOut, Begun, Uncanceled
<1>2. CASE Tick
  <2>1. PauseCovers'
    BY <1>2 DEF Tick, Left, PauseCovers
  <2> QED
    BY <1>2, <2>1 DEF Tick, caller, Core, Busy, ResolvedOnce, Fresh, Accounted, FedOut, Begun, Uncanceled
<1>3. ASSUME NEW w \in Workers, Worker(w) PROVE Core'
  <2>1. CASE Feed(w)
    <3>1. /\ next \in Chats /\ next' = next + 1 /\ main = "feeding" /\ main' = main
          /\ pc[w] = "receive" /\ chat'[w] = next /\ pc'[w] = "wait"
          /\ \A v \in Workers \ {w} : chat'[v] = chat[v] /\ pc'[v] = pc[v]
          /\ UNCHANGED <<paused, owed, outcome, canceled, begun>>
      BY <2>1 DEF Feed, Chats, pacer
    <3>7. chat[w] = 0
      BY <3>1 DEF Busy, Working, Waiting, Sending
    <3>2. PauseCovers' /\ FedOut'
      <4>1. PauseCovers'
        BY <3>1 DEF PauseCovers
      <4>2. FedOut'
        BY <3>1 DEF FedOut, Returned
      <4> QED
        BY <4>1, <4>2
    <3>5. Busy'
      <4>1. next # 0 /\ "wait" \in Working
        BY <3>1 DEF Working, Waiting, Chats
      <4>2. chat'[w] # 0 /\ pc'[w] \in Working
        BY <3>1, <4>1
      <4>3. \A v \in Workers \ {w} : chat'[v] # 0 <=> pc'[v] \in Working
        BY <3>1 DEF Busy
      <4> QED
        BY <4>2, <4>3 DEF Busy
    <3>6. outcome[next] = "none" /\ \A v \in Workers : chat[v] # next
      <4>1. outcome[next] = "none"
        BY <3>1 DEF Fresh, Chats
      <4>2. next # 0 /\ ~(next < next)
        BY <3>1 DEF Chats
      <4> QED
        BY <4>1, <4>2 DEF ResolvedOnce
    <3>3. ResolvedOnce'
      <4>1. \A u, v \in Workers : u # v /\ chat'[u] # 0 => chat'[u] # chat'[v]
        <5> SUFFICES ASSUME NEW u \in Workers, NEW v \in Workers, u # v, chat'[u] # 0
                     PROVE  chat'[u] # chat'[v]
          OBVIOUS
        <5>1. CASE u = w
          BY <5>1, <3>1, <3>6
        <5>2. CASE v = w
          BY <5>2, <3>1, <3>6
        <5>3. CASE u # w /\ v # w
          BY <5>3, <3>1 DEF ResolvedOnce
        <5> QED
          BY <5>1, <5>2, <5>3
      <4>2. \A v \in Workers : chat'[v] # 0 => chat'[v] < next' /\ outcome'[chat'[v]] = "none"
        <5> SUFFICES ASSUME NEW v \in Workers, chat'[v] # 0
                     PROVE  chat'[v] < next' /\ outcome'[chat'[v]] = "none"
          OBVIOUS
        <5>1. CASE v = w
          BY <5>1, <3>1, <3>6 DEF Chats
        <5>2. CASE v # w
          <6>1. chat'[v] = chat[v] /\ chat[v] < next /\ outcome[chat[v]] = "none"
            BY <5>2, <3>1 DEF ResolvedOnce
          <6> QED
            BY <6>1, <3>1 DEF Chats
        <5> QED
          BY <5>1, <5>2
      <4> QED
        BY <4>1, <4>2 DEF ResolvedOnce
    <3>8. Accounted'
      <4> SUFFICES ASSUME NEW c \in Chats, c < next + 1, outcome[c] = "none"
                   PROVE  \E v \in Workers : chat'[v] = c
        BY <3>1 DEF Accounted
      <4>1. CASE c = next
        BY <4>1, <3>1
      <4>2. CASE c < next
        <5>1. PICK v \in Workers : chat[v] = c
          BY <4>2 DEF Accounted
        <5>2. v # w
          BY <5>1, <3>7 DEF Chats
        <5>3. chat'[v] = c
          BY <5>1, <5>2, <3>1
        <5> QED
          BY <5>3
      <4> QED
        BY <4>1, <4>2 DEF Chats
    <3>4. Fresh' /\ Accounted'
      BY <3>1, <3>8 DEF Fresh, Chats
    <3>9. Begun' /\ Uncanceled'
      BY <3>1 DEF Begun, Uncanceled, Chats
    <3> QED
      BY <3>2, <3>3, <3>4, <3>5, <3>9 DEF Core
  <2>2. CASE Reserve(w)
    <3>1. /\ UNCHANGED <<caller, chat, paused, owed, outcome>>
          /\ pc[w] \in Working /\ pc'[w] \in Working
          /\ \A v \in Workers \ {w} : pc'[v] = pc[v]
      BY <2>2 DEF Reserve, Draw, Granted, Working, Waiting, Sending
    <3>2. Busy' /\ FedOut'
      BY <3>1 DEF Busy, FedOut, caller, Working, Waiting, Sending, Returned
    <3>3. begun' \subseteq begun \cup {chat[w]} /\ chat[w] \in Chats /\ chat[w] < next
      BY <2>2 DEF Reserve, Draw, Busy, ResolvedOnce, Working, Chats
    <3>4. Begun' /\ Uncanceled'
      BY <3>1, <3>3 DEF Begun, Uncanceled, caller
    <3> QED
      BY <3>1, <3>2, <3>4 DEF Core, PauseCovers, ResolvedOnce, Fresh, Accounted, caller
  <2>3. CASE ReservePaused(w)
    BY <2>3 DEF ReservePaused, pacer, caller, Core, Busy, PauseCovers, ResolvedOnce, Fresh, Accounted, FedOut, Begun, Uncanceled
  <2>4. CASE GiveUp(w)
    BY <2>4, ResolveStep DEF GiveUp, Outcomes, Working, pacer
  <2>5. CASE SendReturns(w)
    BY <2>5, ResolveStep DEF SendReturns, Outcomes, Working, pacer
  <2>6. CASE Flood(w)
    <3>1. PICK d \in Pauses : paused' = Greatest(paused, d) /\ owed' = [owed EXCEPT ![w] = d]
      BY <2>6 DEF Flood
    <3>2. PauseCovers'
      BY <3>1 DEF PauseCovers, Greatest
    <3>3. /\ UNCHANGED <<caller, chat, outcome, begun>>
          /\ pc[w] = "send" /\ pc'[w] = "rewait" /\ \A v \in Workers \ {w} : pc'[v] = pc[v]
      BY <2>6 DEF Flood
    <3>4. Busy' /\ FedOut'
      BY <3>3 DEF Busy, FedOut, caller, Working, Waiting, Sending, Returned
    <3> QED
      BY <3>2, <3>3, <3>4 DEF Core, ResolvedOnce, Fresh, Accounted, Begun, Uncanceled, caller
  <2>7. CASE Leave(w)
    <3>1. /\ UNCHANGED <<caller, chat, outcome, paused, owed, begun>>
          /\ pc[w] = "receive" /\ pc'[w] = "done" /\ \A v \in Workers \ {w} : pc'[v] = pc[v]
      BY <2>7 DEF Leave, pacer
    <3>2. Busy' /\ FedOut'
      BY <3>1 DEF Busy, FedOut, caller, Working, Waiting, Sending, Returned
    <3> QED
      BY <3>1, <3>2 DEF Core, PauseCovers, ResolvedOnce, Fresh, Accounted, Begun, Uncanceled, caller
  <2> QED
    BY <1>3, <2>1, <2>2, <2>3, <2>4, <2>5, <2>6, <2>7 DEF Worker
<1> QED
  BY <1>0, <1>1, <1>2, <1>3 DEF Next

(* The inductive invariant holds throughout. *)
THEOREM Invariance == SafeSpec => []IndInv
<1>1. IndInv /\ [Next]_vars => IndInv'
  BY TypeStep, CoreStep DEF IndInv, Core
<1> QED
  BY InitInv, <1>1, PTL DEF SafeSpec

(* The pacer's tokens stay within the burst, and every variable in its type. *)
THEOREM TypeCorrect == SafeSpec => []TypeOK
  BY Invariance, PTL DEF IndInv

(* Each chat is resolved by one worker, once, however many there are. *)
THEOREM ResolvedByOne == SafeSpec => []ResolvedOnce
  BY Invariance, PTL DEF IndInv

(* Broadcast returns only when no worker is left, with every chat it began   *)
(* to send to in the result and none it did not get to, and with all chats,  *)
(* none of them as canceled, when it returns nil.                            *)
THEOREM FinalResult == SafeSpec => []ResultIsFinal
<1>1. IndInv => ResultIsFinal
  <2> SUFFICES ASSUME IndInv, main \in Returned
               PROVE  /\ \A w \in Workers : pc[w] = "done"
                      /\ \A c \in begun : outcome[c] # "none"
                      /\ \A c \in Chats : c >= next => outcome[c] = "none"
                      /\ main = "complete" => \A c \in Chats : outcome[c] \notin {"none", "canceled"}
    BY DEF ResultIsFinal
  <2>1. \A w \in Workers : pc[w] = "done" /\ chat[w] = 0
    BY DEF IndInv, FedOut, Busy, Working, Waiting, Sending
  <2>2. \A c \in Chats : c < next => outcome[c] # "none"
    BY <2>1 DEF IndInv, Accounted, Chats
  <2>3. main = "complete" => \A c \in Chats : c < next
    BY DEF IndInv, FedOut, TypeOK, Chats
  <2>4. \A c \in begun : outcome[c] # "none"
    BY <2>2 DEF IndInv, Begun, TypeOK
  <2>5. \A c \in Chats : c >= next => outcome[c] = "none"
    BY DEF IndInv, Fresh
  <2> QED
    BY <2>1, <2>2, <2>3, <2>4, <2>5 DEF IndInv, Uncanceled
<1> QED
  BY <1>1, Invariance, PTL

(* No worker starts a send while anybody's RetryAfter has not passed. *)
THEOREM PausesHonored == SafeSpec => PauseHonored
<1>1. IndInv /\ [Next]_vars =>
        [\A w \in Workers :
           pc[w] \in Waiting /\ pc'[w] \in Sending => \A v \in Workers : owed[v] = 0]_vars
  <2> SUFFICES ASSUME IndInv, Next, NEW w \in Workers, pc[w] \in Waiting, pc'[w] \in Sending,
                      NEW v \in Workers
               PROVE  owed[v] = 0
    OBVIOUS
  <2> USE DEF IndInv, TypeOK
  <2>1. paused = 0
    <3>1. CASE Close \/ Return \/ Cancel \/ Tick
      BY <3>1 DEF Close, Return, Cancel, Tick, workers, Waiting, Sending
    <3>2. ASSUME NEW u \in Workers, Worker(u), u # w PROVE paused = 0
      BY <3>2 DEF Worker, Feed, Reserve, Draw, ReservePaused, GiveUp, Resolve, SendReturns, Flood,
                  Leave, Waiting, Sending
    <3>3. CASE Worker(w)
      BY <3>3 DEF Worker, Feed, Reserve, Draw, ReservePaused, GiveUp, Resolve, SendReturns, Flood,
                  Leave, Waiting, Sending
    <3> QED
      BY <3>1, <3>2, <3>3 DEF Next
  <2> QED
    BY <2>1 DEF PauseCovers
<1> QED
  BY <1>1, Invariance, PTL DEF SafeSpec, PauseHonored

-----------------------------------------------------------------------------
(* The shared pacer is a token bucket. *)

(* A bucket refilled just now holds what its tokens say. *)
LEMMA Drained == ASSUME NEW t \in 0..Burst PROVE Least(Burst, t + 0) = t
  BY DEF Least

(* Only a tick and a grant change the level, and they are the bucket's own.  *)
LEMMA PacerStep == ASSUME IndInv, [Next]_vars PROVE [Bucket!Next]_Level
<1> USE DEF IndInv, TypeOK
<1>1. CASE UNCHANGED <<tokens, elapsed>>
  BY <1>1 DEF Level, Least
<1>2. CASE Tick
  <2>1. /\ tokens' = tokens /\ elapsed' = Least(Burst, elapsed + 1)
        /\ tokens \in 0..Burst /\ elapsed \in 0..Burst
    BY <1>2 DEF Tick
  <2>2. Level' = Level \/ (Level < Burst /\ Level' = Level + 1)
    BY <2>1 DEF Level, Least
  <2> QED
    BY <2>2 DEF Bucket!Next, Bucket!Refill
<1>3. ASSUME NEW w \in Workers, Reserve(w) PROVE [Bucket!Next]_Level
  <2>1. elapsed' = 0 /\ Level \in 0..Burst
    BY <1>3, LevelType DEF Reserve
  <2>2. \/ Level < Cost /\ tokens' = Level
        \/ Level >= Cost /\ tokens' = Level - Cost
    BY <1>3 DEF Reserve, Draw
  <2>3. tokens' \in 0..Burst
    BY <2>1, <2>2
  <2>4. Level' = tokens'
    <3>1. Level' = Least(Burst, tokens' + 0)
      BY <2>1 DEF Level
    <3> QED
      BY <2>3, <3>1, Drained
  <2> QED
    BY <2>2, <2>4 DEF Bucket!Next, Bucket!Take
<1>4. ASSUME NEW w \in Workers, Worker(w), ~Reserve(w) PROVE UNCHANGED <<tokens, elapsed>>
  BY <1>4 DEF Worker, Feed, ReservePaused, GiveUp, SendReturns, Flood, Leave, pacer
<1>5. CASE Close \/ Return \/ Cancel \/ UNCHANGED vars
  BY <1>5, <1>1 DEF Close, Return, Cancel, vars, pacer
<1> QED
  BY <1>1, <1>2, <1>3, <1>4, <1>5 DEF Next

(* Whatever the workers, pauses and cancellation do, sends are paced as by a *)
(* token bucket of the configured rate and burst.                            *)
THEOREM Paced == SafeSpec => RateHeld
<1>1. Init => Bucket!Init
  BY DEF Init, Bucket!Init, Level, Least
<1>2. IndInv /\ [Next]_vars => [Bucket!Next]_Level
  BY PacerStep
<1> QED
  BY <1>1, <1>2, Invariance, PTL DEF SafeSpec, RateHeld, Bucket!Spec
=============================================================================
