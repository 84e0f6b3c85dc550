------------------------------- MODULE KeyLock -------------------------------
(***************************************************************************)
(* What keyed_mutex.go promises its callers, without saying how: a lock    *)
(* per StorageKey.  A goroutine asks for a key, is granted it when no      *)
(* other goroutine holds it, runs its critical section (one dispatched     *)
(* update) and gives it back.  Different keys never wait for one another.  *)
(***************************************************************************)

CONSTANTS
  Threads,    \* goroutines that dispatch updates: workers and HTTP handlers
  Keys,       \* storage keys
  StuckKeys,  \* keys whose handlers may never return
  None        \* no key

VARIABLES
  phase,  \* phase[t]: "idle", "waiting" (inside Lock) or "holding"
  want    \* want[t]: the key t asked for, None while idle

vars == <<phase, want>>

(* keyed_mutex.go promises that no two goroutines hold one key. *)
Excluded(t, k) == \E s \in Threads \ {t} : phase[s] = "holding" /\ want[s] = k

Init ==
  /\ phase = [t \in Threads |-> "idle"]
  /\ want  = [t \in Threads |-> None]

Request(t, k) ==
  /\ phase[t] = "idle"
  /\ phase' = [phase EXCEPT ![t] = "waiting"]
  /\ want'  = [want EXCEPT ![t] = k]

Grant(t) ==
  /\ phase[t] = "waiting"
  /\ ~Excluded(t, want[t])
  /\ phase' = [phase EXCEPT ![t] = "holding"]
  /\ UNCHANGED want

Release(t) ==
  /\ phase[t] = "holding"
  /\ phase' = [phase EXCEPT ![t] = "idle"]
  /\ want'  = [want EXCEPT ![t] = None]

Next == \E t \in Threads : (\E k \in Keys : Request(t, k)) \/ Grant(t) \/ Release(t)

(* A handler for a key outside StuckKeys returns; a waiter is not overtaken
   for ever. *)
Fairness ==
  \A t \in Threads :
    /\ SF_vars(Grant(t))
    /\ WF_vars(want[t] \notin StuckKeys /\ Release(t))

SafeSpec == Init /\ [][Next]_vars

Spec == SafeSpec /\ Fairness
=============================================================================
