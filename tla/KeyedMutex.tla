------------------------------ MODULE KeyedMutex ------------------------------
(***************************************************************************)
(* keyed_mutex.go at the grain of its memory accesses: the map of          *)
(* reference-counted mutexes, the mutex k.mu that guards the map, and the   *)
(* goroutines inside Lock and Unlock.                                      *)
(*                                                                         *)
(* The critical hazard is that Unlock deletes the map entry before it      *)
(* releases the entry's own mutex, so a second mutex for the same key may  *)
(* already be locked while the first is still to be unlocked; only the     *)
(* reference count keeps a waiter from being left on the wrong one.        *)
(***************************************************************************)
EXTENDS Naturals, FiniteSets

CONSTANTS
  Threads,    \* goroutines that dispatch updates
  Keys,       \* storage keys
  Mutexes,    \* heap cells for *refCountedMutex values
  StuckKeys,  \* keys whose critical section may never end (a blocked handler)
  None        \* nil, and "no owner"

ASSUME KeyedMutexAssumption ==
  /\ IsFiniteSet(Threads)
  /\ None \notin Threads \cup Keys \cup Mutexes
  /\ StuckKeys \subseteq Keys

VARIABLES
  mu,     \* owner of k.mu, or None
  locks,  \* k.locks: key -> mutex, None where the map has no entry
  refs,   \* refs[m]: the refs field of cell m
  owner,  \* owner[m]: who holds m's own mu, or None
  pc,     \* pc[t]: where goroutine t is
  key,    \* key[t]: the argument of t's call, None outside
  l       \* l[t]: the local variable l of t's call, None outside

vars == <<mu, locks, refs, owner, pc, key, l>>

-----------------------------------------------------------------------------
(* Where a goroutine can be.  "idle": not dispatching.  Lock: "lockMap"     *)
(* (blocked on k.mu), "find", "count" (k.mu held), "acquire" (blocked on    *)
(* l.mu).  "critical": Lock has returned, Unlock is not yet called.         *)
(* Unlock: "unlockMap" (blocked on k.mu), "uncount", "drop" (k.mu held),    *)
(* "release" (k.mu released, l.mu still held).                              *)

MapSection == {"find", "count", "uncount", "drop"}
Owning     == {"critical", "unlockMap", "uncount", "drop", "release"}
Counted    == {"acquire", "critical", "unlockMap", "uncount"}
Holding    == {"critical", "unlockMap", "uncount", "drop"}
InLock     == {"lockMap", "find", "count", "acquire"}

PCs == {"idle"} \cup InLock \cup Owning

(* A cell the garbage collector may hand out again: nothing points to it. *)
Free(m) ==
  /\ \A k \in Keys : locks[k] # m
  /\ \A t \in Threads : l[t] # m

Goto(t, from, to) == pc[t] = from /\ pc' = [pc EXCEPT ![t] = to]

Init ==
  /\ mu    = None
  /\ locks = [k \in Keys |-> None]
  /\ refs  = [m \in Mutexes |-> 0]
  /\ owner = [m \in Mutexes |-> None]
  /\ pc    = [t \in Threads |-> "idle"]
  /\ key   = [t \in Threads |-> None]
  /\ l     = [t \in Threads |-> None]

-----------------------------------------------------------------------------
(* Lock(key) *)

(* Mutant of LockMapForLock: the map is read without taking k.mu. *)
LockMapSkipped(t) ==
  /\ Goto(t, "lockMap", "find")
  /\ mu' = t
  /\ UNCHANGED <<locks, refs, owner, key, l>>

CallLock(t, k) ==
  /\ Goto(t, "idle", "lockMap")
  /\ key' = [key EXCEPT ![t] = k]
  /\ UNCHANGED <<mu, locks, refs, owner, l>>

LockMapForLock(t) ==
  /\ mu = None
  /\ Goto(t, "lockMap", "find")
  /\ mu' = t
  /\ UNCHANGED <<locks, refs, owner, key, l>>

(* l, ok := k.locks[key] with an entry present *)
FindEntry(t) ==
  /\ Goto(t, "find", "count")
  /\ locks[key[t]] # None
  /\ l' = [l EXCEPT ![t] = locks[key[t]]]
  /\ UNCHANGED <<mu, locks, refs, owner, key>>

(* if !ok: a zeroed cell is allocated and stored in the map *)
CreateEntry(t) ==
  /\ Goto(t, "find", "count")
  /\ locks[key[t]] = None
  /\ \E m \in Mutexes :
       /\ Free(m)
       /\ l'     = [l EXCEPT ![t] = m]
       /\ locks' = [locks EXCEPT ![key[t]] = m]
       /\ refs'  = [refs EXCEPT ![m] = 0]
       /\ owner' = [owner EXCEPT ![m] = None]
  /\ UNCHANGED <<mu, key>>

(* Mutant of CountRef: a waiter is not counted. *)
CountRefForgotten(t) ==
  /\ Goto(t, "count", "acquire")
  /\ refs' = refs
  /\ mu'   = None
  /\ UNCHANGED <<locks, owner, key, l>>

(* l.refs++; k.mu.Unlock() *)
CountRef(t) ==
  /\ Goto(t, "count", "acquire")
  /\ refs' = [refs EXCEPT ![l[t]] = @ + 1]
  /\ mu'   = None
  /\ UNCHANGED <<locks, owner, key, l>>

(* l.mu.Lock() *)
Acquire(t) ==
  /\ Goto(t, "acquire", "critical")
  /\ owner[l[t]] = None
  /\ owner' = [owner EXCEPT ![l[t]] = t]
  /\ UNCHANGED <<mu, locks, refs, key, l>>

-----------------------------------------------------------------------------
(* Unlock(key) *)

(* The dispatched handler has returned (or panicked: Unlock is deferred). *)
CallUnlock(t) ==
  /\ Goto(t, "critical", "unlockMap")
  /\ UNCHANGED <<mu, locks, refs, owner, key, l>>

LockMapForUnlock(t) ==
  /\ mu = None
  /\ Goto(t, "unlockMap", "uncount")
  /\ mu' = t
  /\ UNCHANGED <<locks, refs, owner, key, l>>

(* l := k.locks[key]; l.refs--.  A missing entry would be a nil dereference *)
(* with k.mu held: the goroutine stops here for ever.                       *)
UncountRef(t) ==
  /\ Goto(t, "uncount", "drop")
  /\ locks[key[t]] # None
  /\ l'    = [l EXCEPT ![t] = locks[key[t]]]
  /\ refs' = [refs EXCEPT ![locks[key[t]]] = @ - 1]
  /\ UNCHANGED <<mu, locks, owner, key>>

(* Mutant of DropEntry: the entry is deleted while others still wait on it. *)
DropEntryAlways(t) ==
  /\ Goto(t, "drop", "release")
  /\ locks' = [locks EXCEPT ![key[t]] = None]
  /\ mu'    = None
  /\ UNCHANGED <<refs, owner, key, l>>

(* Mutant of DropEntry: the entry outlives its last user. *)
DropEntryNever(t) ==
  /\ Goto(t, "drop", "release")
  /\ mu' = None
  /\ UNCHANGED <<locks, refs, owner, key, l>>

(* Mutant of DropEntry: off by one, the last waiter is not looked at. *)
DropEntryEarly(t) ==
  /\ Goto(t, "drop", "release")
  /\ locks' = IF refs[l[t]] <= 1 THEN [locks EXCEPT ![key[t]] = None] ELSE locks
  /\ mu'    = None
  /\ UNCHANGED <<refs, owner, key, l>>

(* if l.refs == 0 { delete(k.locks, key) }; k.mu.Unlock() *)
DropEntry(t) ==
  /\ Goto(t, "drop", "release")
  /\ locks' = IF refs[l[t]] = 0 THEN [locks EXCEPT ![key[t]] = None] ELSE locks
  /\ mu'    = None
  /\ UNCHANGED <<refs, owner, key, l>>

(* Mutant of ReleaseEntry: the cell is unlocked only by its last user. *)
ReleaseEntryLast(t) ==
  /\ Goto(t, "release", "idle")
  /\ owner' = IF refs[l[t]] = 0 THEN [owner EXCEPT ![l[t]] = None] ELSE owner
  /\ key'   = [key EXCEPT ![t] = None]
  /\ l'     = [l EXCEPT ![t] = None]
  /\ UNCHANGED <<mu, locks, refs>>

(* l.mu.Unlock() *)
ReleaseEntry(t) ==
  /\ Goto(t, "release", "idle")
  /\ owner' = [owner EXCEPT ![l[t]] = None]
  /\ key'   = [key EXCEPT ![t] = None]
  /\ l'     = [l EXCEPT ![t] = None]
  /\ UNCHANGED <<mu, locks, refs>>

-----------------------------------------------------------------------------

(* The steps that never block. *)
StraightLine(t) ==
  \/ FindEntry(t) \/ CreateEntry(t) \/ CountRef(t)
  \/ UncountRef(t) \/ DropEntry(t) \/ ReleaseEntry(t)

Next ==
  \E t \in Threads :
    \/ \E k \in Keys : CallLock(t, k)
    \/ LockMapForLock(t)
    \/ Acquire(t)
    \/ CallUnlock(t)
    \/ LockMapForUnlock(t)
    \/ StraightLine(t)

SafeSpec == Init /\ [][Next]_vars

(* sync.Mutex hands a mutex to a waiter that has waited 1ms, so a blocked   *)
(* Lock is strongly fair; the straight-line code between is weakly fair.    *)
(* Only handlers of keys outside StuckKeys are assumed to return.           *)
Fairness ==
  \A t \in Threads :
    /\ SF_vars(LockMapForLock(t) \/ LockMapForUnlock(t))
    /\ SF_vars(Acquire(t))
    /\ WF_vars(StraightLine(t))
    /\ WF_vars(key[t] \notin StuckKeys /\ CallUnlock(t))

Spec == SafeSpec /\ Fairness

-----------------------------------------------------------------------------
(* Properties *)

(* Every variable ranges over what the Go types allow; refs is an int that  *)
(* never goes negative.                                                     *)
TypeOK ==
  /\ mu \in Threads \cup {None}
  /\ locks \in [Keys -> Mutexes \cup {None}]
  /\ refs \in [Mutexes -> Nat]
  /\ owner \in [Mutexes -> Threads \cup {None}]
  /\ pc \in [Threads -> PCs]
  /\ key \in [Threads -> Keys \cup {None}]
  /\ l \in [Threads -> Mutexes \cup {None}]

(* "two updates from the same user can't race" (keyed_mutex.go:5): no two   *)
(* goroutines are between Lock's return and Unlock's map update for one key. *)
MutualExclusion ==
  \A s, t \in Threads :
    pc[s] \in Holding /\ pc[t] \in Holding /\ key[s] = key[t] => s = t

(* Unlock's map lookup (line 42) finds the very mutex that the same          *)
(* goroutine's Lock acquired: it never dereferences nil and never unlocks    *)
(* somebody else's mutex.                                                    *)
UnlockFindsOwnMutex ==
  \A t \in Threads :
    pc[t] \in {"critical", "unlockMap", "uncount"} =>
      /\ locks[key[t]] \in Mutexes
      /\ owner[locks[key[t]]] = t

(* "the map doesn't grow unbounded" (keyed_mutex.go:8): outside the sections *)
(* that hold k.mu, a key has an entry exactly while some goroutine holds it  *)
(* or waits on it.                                                           *)
NoStaleEntry ==
  mu = None =>
    \A k \in Keys :
      locks[k] # None <=> \E t \in Threads : pc[t] \in Counted /\ key[t] = k

(* A goroutine inside Lock for a key whose handlers return gets the key,     *)
(* even while a handler of another key is stuck for ever: unrelated users    *)
(* are not serialized against each other.                                    *)
EveryLockReturns ==
  \A t \in Threads :
    pc[t] \in InLock /\ key[t] \notin StuckKeys ~> pc[t] = "critical"

(* What the callers of Lock and Unlock see of a goroutine. *)
Phase(t) ==
  CASE pc[t] \in InLock  -> "waiting"
    [] pc[t] \in Holding -> "holding"
    [] OTHER             -> "idle"

Abstract ==
  INSTANCE KeyLock WITH
    phase <- [t \in Threads |-> Phase(t)],
    want  <- [t \in Threads |-> IF Phase(t) = "idle" THEN None ELSE key[t]]

(* The map of counted mutexes implements one abstract lock per key: whatever  *)
(* cell a goroutine ends up on, it is granted the key only when nobody holds  *)
(* it.  (That it is granted in the end is EveryLockReturns.)                   *)
ImplementsKeyLock == Abstract!SafeSpec
-----------------------------------------------------------------------------
(* The inductive strengthening of the safety properties. *)

Referrers(m) == {t \in Threads : pc[t] \in Counted /\ l[t] = m}

(* k.mu is owned exactly by the goroutine inside a map section. *)
MapLockInv == \A t \in Threads : pc[t] \in MapSection <=> mu = t

(* A goroutine inside a call has a key, and an idle one points to nothing. *)
CallInv ==
  \A t \in Threads :
    /\ pc[t] # "idle" => key[t] \in Keys
    /\ pc[t] \in {"idle", "lockMap", "find"} => l[t] = None

(* From the map update in Lock to the one in Unlock, the map's entry for the *)
(* key is the goroutine's own cell.                                          *)
EntryInv ==
  \A t \in Threads :
    pc[t] \in Counted \cup {"count", "drop"} =>
      l[t] \in Mutexes /\ locks[key[t]] = l[t]

(* The refs field counts the goroutines between refs++ and refs--. *)
RefsInv == \A m \in Mutexes : refs[m] = Cardinality(Referrers(m))

(* A cell is owned exactly by the goroutine between l.mu.Lock and Unlock. *)
OwnerInv ==
  \A t \in Threads, m \in Mutexes :
    owner[m] = t <=> pc[t] \in Owning /\ l[t] = m

(* One cell never serves two keys. *)
DistinctInv ==
  \A j, k \in Keys : locks[j] = locks[k] /\ locks[j] # None => j = k

(* An entry is kept alive by somebody counted on it, or by the goroutine     *)
(* that is just updating the map.                                            *)
AliveInv ==
  \A k \in Keys :
    locks[k] # None =>
      \E t \in Threads : pc[t] \in Counted \cup {"count", "drop"} /\ key[t] = k

IndInv ==
  /\ TypeOK
  /\ MapLockInv
  /\ CallInv
  /\ EntryInv
  /\ RefsInv
  /\ OwnerInv
  /\ DistinctInv
  /\ AliveInv
=============================================================================
