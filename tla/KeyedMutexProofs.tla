--------------------------- MODULE KeyedMutexProofs ---------------------------
(***************************************************************************)
(* Theorems about keyed_mutex.go for any number of goroutines, keys and    *)
(* heap cells: the reference-counted map gives mutual exclusion per key,   *)
(* Unlock always finds its own mutex, no entry is left behind, and the     *)
(* whole implements the abstract lock per key of KeyLock.                  *)
(***************************************************************************)
EXTENDS KeyedMutex, FiniteSetTheorems, TLAPS

(* Sets of program counters, expanded in every proof. *)
USE DEF PCs, InLock, MapSection, Owning, Counted, Holding

-----------------------------------------------------------------------------
(* Facts about the counted goroutines. *)

(* The goroutines counted on a cell form a finite set. *)
LEMMA ReferrersFinite ==
  ASSUME NEW m
  PROVE  IsFiniteSet(Referrers(m)) /\ Cardinality(Referrers(m)) \in Nat
<1>1. Referrers(m) \subseteq Threads
  BY DEF Referrers
<1>. QED
  BY <1>1, KeyedMutexAssumption, FS_Subset, FS_CardinalityType

(* A cell has no references exactly when nobody is counted on it. *)
LEMMA NoRefs ==
  ASSUME NEW m \in Mutexes, RefsInv
  PROVE  refs[m] = 0 <=> Referrers(m) = {}
BY ReferrersFinite, FS_EmptySet DEF RefsInv

(* Steps that touch neither a counter nor who is counted keep RefsInv. *)
LEMMA RefsKept ==
  ASSUME RefsInv, refs' = refs,
         \A m \in Mutexes : Referrers(m)' = Referrers(m)
  PROVE  RefsInv'
BY DEF RefsInv

LEMMA InitInd == Init => IndInv
<1>. SUFFICES ASSUME Init PROVE IndInv
  OBVIOUS
<1>1. TypeOK /\ MapLockInv /\ CallInv /\ EntryInv /\ OwnerInv /\ DistinctInv /\ AliveInv
  BY KeyedMutexAssumption
  DEF Init, TypeOK, MapLockInv, CallInv, EntryInv, OwnerInv, DistinctInv, AliveInv
<1>2. RefsInv
  <2>1. \A m \in Mutexes : Referrers(m) = {}
    BY DEF Init, Referrers
  <2>. QED
    BY <2>1, FS_EmptySet DEF Init, RefsInv
<1>. QED
  BY <1>1, <1>2 DEF IndInv

-----------------------------------------------------------------------------
(* Each step preserves the inductive invariant. *)

LEMMA CallLockInd ==
  ASSUME IndInv, NEW t \in Threads, NEW k \in Keys, CallLock(t, k)
  PROVE  IndInv'
<1>. USE KeyedMutexAssumption DEF IndInv, CallLock, Goto
<1>1. TypeOK'
  BY DEF TypeOK
<1>2. MapLockInv'
  BY DEF TypeOK, MapLockInv
<1>3. CallInv'
  BY DEF TypeOK, CallInv
<1>4. EntryInv'
  BY DEF TypeOK, EntryInv, MapLockInv, CallInv
<1>5. OwnerInv'
  BY DEF TypeOK, OwnerInv, EntryInv, CallInv, MapLockInv
<1>6. DistinctInv'
  BY DEF TypeOK, DistinctInv, EntryInv, CallInv, MapLockInv
<1>7. AliveInv'
  BY DEF TypeOK, AliveInv, EntryInv, CallInv, MapLockInv
<1>8. RefsInv'
  BY DEF TypeOK, RefsInv, Referrers
<1>. QED
  BY <1>1, <1>2, <1>3, <1>4, <1>5, <1>6, <1>7, <1>8

LEMMA LockMapForLockInd ==
  ASSUME IndInv, NEW t \in Threads, LockMapForLock(t)
  PROVE  IndInv'
<1>. USE KeyedMutexAssumption DEF IndInv, LockMapForLock, Goto
<1>1. TypeOK'
  BY DEF TypeOK
<1>2. MapLockInv'
  BY DEF TypeOK, MapLockInv
<1>3. CallInv'
  BY DEF TypeOK, CallInv
<1>4. EntryInv'
  BY DEF TypeOK, EntryInv, MapLockInv, CallInv
<1>5. OwnerInv'
  BY DEF TypeOK, OwnerInv, EntryInv, CallInv, MapLockInv
<1>6. DistinctInv'
  BY DEF TypeOK, DistinctInv, EntryInv, CallInv, MapLockInv
<1>7. AliveInv'
  BY DEF TypeOK, AliveInv, EntryInv, CallInv, MapLockInv
<1>8. RefsInv'
  BY DEF TypeOK, RefsInv, Referrers
<1>. QED
  BY <1>1, <1>2, <1>3, <1>4, <1>5, <1>6, <1>7, <1>8

LEMMA FindEntryInd ==
  ASSUME IndInv, NEW t \in Threads, FindEntry(t)
  PROVE  IndInv'
<1>. USE KeyedMutexAssumption DEF IndInv, FindEntry, Goto
<1>1. TypeOK'
  BY DEF TypeOK, CallInv
<1>2. MapLockInv'
  BY DEF TypeOK, MapLockInv
<1>3. CallInv'
  BY DEF TypeOK, CallInv
<1>4. EntryInv'
  BY DEF TypeOK, EntryInv, MapLockInv, CallInv
<1>5. OwnerInv'
  BY DEF TypeOK, OwnerInv, EntryInv, CallInv, MapLockInv
<1>6. DistinctInv'
  BY DEF TypeOK, DistinctInv, EntryInv, CallInv, MapLockInv
<1>7. AliveInv'
  BY DEF TypeOK, AliveInv, EntryInv, CallInv, MapLockInv
<1>8. RefsInv'
  BY DEF TypeOK, RefsInv, Referrers
<1>. QED
  BY <1>1, <1>2, <1>3, <1>4, <1>5, <1>6, <1>7, <1>8

LEMMA CreateEntryInd ==
  ASSUME IndInv, NEW t \in Threads, CreateEntry(t)
  PROVE  IndInv'
<1>. USE KeyedMutexAssumption DEF IndInv, CreateEntry, Goto
<1>1. TypeOK'
  BY DEF TypeOK, CallInv
<1>2. MapLockInv'
  BY DEF TypeOK, MapLockInv, Free
<1>3. CallInv'
  BY DEF TypeOK, CallInv, Free
<1>4. EntryInv'
  BY DEF TypeOK, EntryInv, MapLockInv, CallInv, Free
<1>5. OwnerInv'
  BY DEF TypeOK, OwnerInv, EntryInv, CallInv, MapLockInv, Free
<1>6. DistinctInv'
  BY DEF TypeOK, DistinctInv, EntryInv, CallInv, MapLockInv, Free
<1>7. AliveInv'
  BY DEF TypeOK, AliveInv, EntryInv, CallInv, MapLockInv, Free
<1>8. RefsInv'
  <2>1. PICK m \in Mutexes :
          /\ Free(m)
          /\ l' = [l EXCEPT ![t] = m]
          /\ refs' = [refs EXCEPT ![m] = 0]
    OBVIOUS
  <2>2. Referrers(m)' = {}
    BY <2>1 DEF TypeOK, Referrers, Free
  <2>3. \A n \in Mutexes \ {m} : Referrers(n)' = Referrers(n)
    BY <2>1 DEF TypeOK, Referrers
  <2>. QED
    BY <2>1, <2>2, <2>3, FS_EmptySet DEF TypeOK, RefsInv
<1>. QED
  BY <1>1, <1>2, <1>3, <1>4, <1>5, <1>6, <1>7, <1>8

LEMMA CountRefInd ==
  ASSUME IndInv, NEW t \in Threads, CountRef(t)
  PROVE  IndInv'
<1>. USE KeyedMutexAssumption DEF IndInv, CountRef, Goto
<1>1. TypeOK'
  BY DEF TypeOK, EntryInv
<1>2. MapLockInv'
  BY DEF TypeOK, MapLockInv
<1>3. CallInv'
  BY DEF TypeOK, CallInv
<1>4. EntryInv'
  BY DEF TypeOK, EntryInv, MapLockInv, CallInv
<1>5. OwnerInv'
  BY DEF TypeOK, OwnerInv, EntryInv, CallInv, MapLockInv
<1>6. DistinctInv'
  BY DEF TypeOK, DistinctInv, EntryInv, CallInv, MapLockInv
<1>7. AliveInv'
  BY DEF TypeOK, AliveInv, EntryInv, CallInv, MapLockInv
<1>8. RefsInv'
  <2>1. l[t] \in Mutexes
    BY DEF EntryInv
  <2>2. Referrers(l[t])' = Referrers(l[t]) \cup {t} /\ t \notin Referrers(l[t])
    BY DEF TypeOK, Referrers
  <2>3. \A n \in Mutexes \ {l[t]} : Referrers(n)' = Referrers(n)
    BY DEF TypeOK, Referrers
  <2>4. Cardinality(Referrers(l[t])') = Cardinality(Referrers(l[t])) + 1
    BY <2>2, ReferrersFinite, FS_AddElement
  <2>. QED
    BY <2>1, <2>3, <2>4 DEF TypeOK, RefsInv
<1>. QED
  BY <1>1, <1>2, <1>3, <1>4, <1>5, <1>6, <1>7, <1>8

LEMMA AcquireInd ==
  ASSUME IndInv, NEW t \in Threads, Acquire(t)
  PROVE  IndInv'
<1>. USE KeyedMutexAssumption DEF IndInv, Acquire, Goto
<1>1. TypeOK'
  BY DEF TypeOK
<1>2. MapLockInv'
  BY DEF TypeOK, MapLockInv
<1>3. CallInv'
  BY DEF TypeOK, CallInv
<1>4. EntryInv'
  BY DEF TypeOK, EntryInv, MapLockInv, CallInv
<1>5. OwnerInv'
  BY DEF TypeOK, OwnerInv, EntryInv, CallInv, MapLockInv
<1>6. DistinctInv'
  BY DEF TypeOK, DistinctInv, EntryInv, CallInv, MapLockInv
<1>7. AliveInv'
  BY DEF TypeOK, AliveInv, EntryInv, CallInv, MapLockInv
<1>8. RefsInv'
  BY DEF TypeOK, RefsInv, Referrers
<1>. QED
  BY <1>1, <1>2, <1>3, <1>4, <1>5, <1>6, <1>7, <1>8

LEMMA CallUnlockInd ==
  ASSUME IndInv, NEW t \in Threads, CallUnlock(t)
  PROVE  IndInv'
<1>. USE KeyedMutexAssumption DEF IndInv, CallUnlock, Goto
<1>1. TypeOK'
  BY DEF TypeOK
<1>2. MapLockInv'
  BY DEF TypeOK, MapLockInv
<1>3. CallInv'
  BY DEF TypeOK, CallInv
<1>4. EntryInv'
  BY DEF TypeOK, EntryInv, MapLockInv, CallInv
<1>5. OwnerInv'
  BY DEF TypeOK, OwnerInv, EntryInv, CallInv, MapLockInv
<1>6. DistinctInv'
  BY DEF TypeOK, DistinctInv, EntryInv, CallInv, MapLockInv
<1>7. AliveInv'
  BY DEF TypeOK, AliveInv, EntryInv, CallInv, MapLockInv
<1>8. RefsInv'
  BY DEF TypeOK, RefsInv, Referrers
<1>. QED
  BY <1>1, <1>2, <1>3, <1>4, <1>5, <1>6, <1>7, <1>8

LEMMA LockMapForUnlockInd ==
  ASSUME IndInv, NEW t \in Threads, LockMapForUnlock(t)
  PROVE  IndInv'
<1>. USE KeyedMutexAssumption DEF IndInv, LockMapForUnlock, Goto
<1>1. TypeOK'
  BY DEF TypeOK
<1>2. MapLockInv'
  BY DEF TypeOK, MapLockInv
<1>3. CallInv'
  BY DEF TypeOK, CallInv
<1>4. EntryInv'
  BY DEF TypeOK, EntryInv, MapLockInv, CallInv
<1>5. OwnerInv'
  BY DEF TypeOK, OwnerInv, EntryInv, CallInv, MapLockInv
<1>6. DistinctInv'
  BY DEF TypeOK, DistinctInv, EntryInv, CallInv, MapLockInv
<1>7. AliveInv'
  BY DEF TypeOK, AliveInv, EntryInv, CallInv, MapLockInv
<1>8. RefsInv'
  BY DEF TypeOK, RefsInv, Referrers
<1>. QED
  BY <1>1, <1>2, <1>3, <1>4, <1>5, <1>6, <1>7, <1>8

LEMMA UncountRefInd ==
  ASSUME IndInv, NEW t \in Threads, UncountRef(t)
  PROVE  IndInv'
<1>. USE KeyedMutexAssumption DEF IndInv, UncountRef, Goto
<1>0. l[t] \in Mutexes /\ locks[key[t]] = l[t] /\ t \in Referrers(l[t])
  BY DEF EntryInv, Referrers
<1>1. TypeOK'
  <2>1. refs[l[t]] # 0
    BY <1>0, NoRefs
  <2>. QED
    BY <1>0, <2>1 DEF TypeOK
<1>2. MapLockInv'
  BY DEF TypeOK, MapLockInv
<1>3. CallInv'
  BY DEF TypeOK, CallInv
<1>4. EntryInv'
  BY DEF TypeOK, EntryInv, MapLockInv, CallInv
<1>5. OwnerInv'
  BY DEF TypeOK, OwnerInv, EntryInv, CallInv, MapLockInv
<1>6. DistinctInv'
  BY DEF TypeOK, DistinctInv, EntryInv, CallInv, MapLockInv
<1>7. AliveInv'
  BY DEF TypeOK, AliveInv, EntryInv, CallInv, MapLockInv
<1>8. RefsInv'
  <2>1. Referrers(l[t])' = Referrers(l[t]) \ {t}
    BY <1>0 DEF TypeOK, Referrers
  <2>2. \A n \in Mutexes \ {l[t]} : Referrers(n)' = Referrers(n)
    BY <1>0 DEF TypeOK, Referrers
  <2>3. Cardinality(Referrers(l[t])') = Cardinality(Referrers(l[t])) - 1
    BY <1>0, <2>1, ReferrersFinite, FS_RemoveElement
  <2>. QED
    BY <1>0, <2>2, <2>3 DEF TypeOK, RefsInv
<1>. QED
  BY <1>1, <1>2, <1>3, <1>4, <1>5, <1>6, <1>7, <1>8

LEMMA DropEntryInd ==
  ASSUME IndInv, NEW t \in Threads, DropEntry(t)
  PROVE  IndInv'
<1>. USE KeyedMutexAssumption DEF IndInv, DropEntry, Goto
<1>1. TypeOK'
  BY DEF TypeOK
<1>2. MapLockInv'
  BY DEF TypeOK, MapLockInv
<1>3. CallInv'
  BY DEF TypeOK, CallInv
<1>4. EntryInv'
  <2>1. l[t] \in Mutexes /\ locks[key[t]] = l[t] /\ mu = t
    BY DEF EntryInv, MapLockInv
  <2>2. ASSUME NEW s \in Threads, pc[s] \in Counted, key[s] = key[t]
        PROVE  refs[l[t]] # 0
    <3>1. s \in Referrers(l[t])
      BY <2>1, <2>2 DEF EntryInv, Referrers
    <3>. QED
      BY <2>1, <3>1, NoRefs
  <2>3. SUFFICES ASSUME NEW s \in Threads, pc'[s] \in Counted \cup {"count", "drop"}
                 PROVE  l'[s] \in Mutexes /\ locks'[key'[s]] = l'[s]
    BY DEF EntryInv
  <2>4. s # t /\ pc[s] = pc'[s] /\ pc[s] \in Counted
    BY <2>1, <2>3 DEF TypeOK, MapLockInv
  <2>5. l[s] \in Mutexes /\ locks[key[s]] = l[s] /\ key[s] \in Keys
    BY <2>4 DEF EntryInv, CallInv
  <2>6. locks'[key[s]] = locks[key[s]]
    BY <2>2, <2>4, <2>5 DEF TypeOK
  <2>. QED
    BY <2>5, <2>6
<1>5. OwnerInv'
  BY DEF TypeOK, OwnerInv, EntryInv, CallInv, MapLockInv
<1>6. DistinctInv'
  BY DEF TypeOK, DistinctInv, EntryInv, CallInv, MapLockInv
<1>7. AliveInv'
  <2>1. l[t] \in Mutexes /\ locks[key[t]] = l[t] /\ key[t] \in Keys
    BY DEF EntryInv, CallInv
  <2>2. SUFFICES ASSUME NEW k \in Keys, locks'[k] # None
                 PROVE  \E s \in Threads : pc'[s] \in Counted \cup {"count", "drop"} /\ key'[s] = k
    BY DEF AliveInv
  <2>3. CASE k = key[t]
    <3>1. refs[l[t]] # 0
      BY <2>1, <2>2, <2>3 DEF TypeOK
    <3>2. PICK s \in Threads : pc[s] \in Counted /\ l[s] = l[t]
      BY <2>1, <3>1, NoRefs DEF Referrers
    <3>3. key[s] = k
      BY <2>1, <2>3, <3>2 DEF EntryInv, CallInv, DistinctInv
    <3>. QED
      BY <3>2, <3>3 DEF TypeOK
  <2>4. CASE k # key[t]
    <3>1. PICK s \in Threads : pc[s] \in Counted \cup {"count", "drop"} /\ key[s] = k
      BY <2>2, <2>4 DEF TypeOK, AliveInv
    <3>. QED
      BY <2>4, <3>1 DEF TypeOK
  <2>. QED
    BY <2>3, <2>4
<1>8. RefsInv'
  BY DEF TypeOK, RefsInv, Referrers
<1>. QED
  BY <1>1, <1>2, <1>3, <1>4, <1>5, <1>6, <1>7, <1>8

LEMMA ReleaseEntryInd ==
  ASSUME IndInv, NEW t \in Threads, ReleaseEntry(t)
  PROVE  IndInv'
<1>. USE KeyedMutexAssumption DEF IndInv, ReleaseEntry, Goto
<1>1. TypeOK'
  BY DEF TypeOK
<1>2. MapLockInv'
  BY DEF TypeOK, MapLockInv
<1>3. CallInv'
  BY DEF TypeOK, CallInv
<1>4. EntryInv'
  BY DEF TypeOK, EntryInv, MapLockInv, CallInv
<1>5. OwnerInv'
  BY DEF TypeOK, OwnerInv, EntryInv, CallInv, MapLockInv
<1>6. DistinctInv'
  BY DEF TypeOK, DistinctInv, EntryInv, CallInv, MapLockInv
<1>7. AliveInv'
  BY DEF TypeOK, AliveInv, EntryInv, CallInv, MapLockInv
<1>8. RefsInv'
  BY DEF TypeOK, RefsInv, Referrers
<1>. QED
  BY <1>1, <1>2, <1>3, <1>4, <1>5, <1>6, <1>7, <1>8

-----------------------------------------------------------------------------
(* The theorems. *)

LEMMA NextInd == IndInv /\ [Next]_vars => IndInv'
<1>. SUFFICES ASSUME IndInv, [Next]_vars PROVE IndInv'
  OBVIOUS
<1>1. CASE Next
  <2>. PICK t \in Threads :
         \/ \E k \in Keys : CallLock(t, k)
         \/ LockMapForLock(t)
         \/ Acquire(t)
         \/ CallUnlock(t)
         \/ LockMapForUnlock(t)
         \/ StraightLine(t)
    BY <1>1 DEF Next
  <2>. QED
    BY CallLockInd, LockMapForLockInd, FindEntryInd, CreateEntryInd, CountRefInd,
       AcquireInd, CallUnlockInd, LockMapForUnlockInd, UncountRefInd, DropEntryInd,
       ReleaseEntryInd
    DEF StraightLine
<1>2. CASE UNCHANGED vars
  <2>1. RefsInv'
    BY <1>2 DEF IndInv, RefsInv, Referrers, vars
  <2>. QED
    BY <1>2, <2>1 DEF IndInv, vars, TypeOK, MapLockInv, CallInv, EntryInv, OwnerInv,
                      DistinctInv, AliveInv
<1>. QED
  BY <1>1, <1>2

(* The strengthened invariant holds in every reachable state. *)
THEOREM Invariance == SafeSpec => []IndInv
BY InitInd, NextInd, PTL DEF SafeSpec

(* Every field keeps its type; in particular refs never goes negative. *)
THEOREM TypeCorrect == SafeSpec => []TypeOK
<1>1. IndInv => TypeOK
  BY DEF IndInv
<1>. QED
  BY <1>1, Invariance, PTL

(* keyed_mutex.go:5: two updates of one key are never handled at the same    *)
(* time, however the deletions and creations of map entries interleave.      *)
THEOREM Exclusive == SafeSpec => []MutualExclusion
<1>1. IndInv => MutualExclusion
  BY DEF IndInv, TypeOK, EntryInv, OwnerInv, MutualExclusion
<1>. QED
  BY <1>1, Invariance, PTL

(* keyed_mutex.go:42: the lookup in Unlock yields the mutex the caller holds. *)
THEOREM OwnMutexFound == SafeSpec => []UnlockFindsOwnMutex
<1>1. IndInv => UnlockFindsOwnMutex
  BY DEF IndInv, TypeOK, EntryInv, OwnerInv, UnlockFindsOwnMutex
<1>. QED
  BY <1>1, Invariance, PTL

(* keyed_mutex.go:8: whenever k.mu is free the map has an entry for exactly  *)
(* the keys that are held or waited on.                                      *)
THEOREM NoEntryLeft == SafeSpec => []NoStaleEntry
<1>1. IndInv => NoStaleEntry
  <2>. SUFFICES ASSUME IndInv, mu = None, NEW k \in Keys
                PROVE  locks[k] # None <=> \E t \in Threads : pc[t] \in Counted /\ key[t] = k
    BY DEF NoStaleEntry
  <2>1. \A t \in Threads : pc[t] \notin MapSection
    BY KeyedMutexAssumption DEF IndInv, MapLockInv
  <2>. QED
    BY <2>1, KeyedMutexAssumption DEF IndInv, EntryInv, AliveInv
<1>. QED
  BY <1>1, Invariance, PTL

-----------------------------------------------------------------------------
(* Refinement: KeyedMutex implements KeyLock. *)

LEMMA RefineInit == Init => Abstract!Init
BY DEF Init, Abstract!Init, Phase

LEMMA RefineNext == IndInv /\ [Next]_vars => [Abstract!Next]_Abstract!vars
<1>. SUFFICES ASSUME IndInv, [Next]_vars PROVE [Abstract!Next]_Abstract!vars
  OBVIOUS
<1>. USE DEF Phase, Goto
<1>1. pc \in [Threads -> PCs] /\ key \in [Threads -> Keys \cup {None}]
  BY DEF IndInv, TypeOK
<1>2. ASSUME NEW t \in Threads, NEW k \in Keys, CallLock(t, k)
      PROVE  Abstract!Request(t, k)
  BY <1>1, <1>2 DEF CallLock, Abstract!Request
<1>3. ASSUME NEW t \in Threads, Acquire(t)
      PROVE  Abstract!Grant(t)
  <2>1. \A s \in Threads \ {t} : ~(Phase(s) = "holding" /\ key[s] = key[t])
    BY <1>3, KeyedMutexAssumption DEF IndInv, TypeOK, EntryInv, OwnerInv, Acquire
  <2>2. ~Abstract!Excluded(t, key[t])
    BY <2>1 DEF Abstract!Excluded
  <2>. QED
    BY <1>1, <1>3, <2>2 DEF Acquire, Abstract!Grant
<1>4. ASSUME NEW t \in Threads, DropEntry(t)
      PROVE  Abstract!Release(t)
  BY <1>1, <1>4 DEF DropEntry, Abstract!Release
<1>5. ASSUME NEW t \in Threads,
             \/ LockMapForLock(t) \/ FindEntry(t) \/ CreateEntry(t) \/ CountRef(t)
             \/ CallUnlock(t) \/ LockMapForUnlock(t) \/ UncountRef(t) \/ ReleaseEntry(t)
      PROVE  UNCHANGED Abstract!vars
  <2>1. \A s \in Threads : Phase(s)' = Phase(s)
    BY <1>1, <1>5
    DEF LockMapForLock, FindEntry, CreateEntry, CountRef, CallUnlock,
        LockMapForUnlock, UncountRef, ReleaseEntry
  <2>2. \A s \in Threads : Phase(s) # "idle" => key'[s] = key[s]
    BY <1>1, <1>5
    DEF LockMapForLock, FindEntry, CreateEntry, CountRef, CallUnlock,
        LockMapForUnlock, UncountRef, ReleaseEntry
  <2>. QED
    BY <2>1, <2>2 DEF Abstract!vars
<1>6. ASSUME UNCHANGED vars PROVE UNCHANGED Abstract!vars
  BY <1>6 DEF vars, Abstract!vars
<1>. QED
  BY <1>2, <1>3, <1>4, <1>5, <1>6 DEF Next, StraightLine, Abstract!Next

(* The map of counted mutexes implements one lock per key: CallLock is the   *)
(* request, Acquire the grant and DropEntry the release.                     *)
THEOREM Refinement == SafeSpec => ImplementsKeyLock
BY RefineInit, RefineNext, Invariance, PTL
DEF SafeSpec, ImplementsKeyLock, Abstract!SafeSpec

=============================================================================
