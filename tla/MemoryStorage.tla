--------------------------- MODULE MemoryStorage ---------------------------
(***************************************************************************)
(* MemoryStorage (fsm_memory.go): the in-process FSMStorage.  Every        *)
(* operation runs under one mutex, so each is one action.  What can go     *)
(* wrong is sharing: Go maps are references, and handlers go on changing   *)
(* the maps they passed in or got back.  So a data map is an object of a   *)
(* small heap, a reference stands for the map and all that is nested in    *)
(* it, and copyData allocates.                                             *)
(***************************************************************************)
EXTENDS Naturals

CONSTANTS
  Keys, States, NoState, Fields, Values, Unmarshalable, Absent, TTL,
  Handlers,  \* handlers, each with one data map of its own in hand
  Refs,      \* heap addresses (bound: maps alive at once)
  Nil        \* no entry, no map

StorageAssumption ==
  /\ NoState \in States /\ Absent \notin Values /\ Unmarshalable \subseteq Values
  /\ Nil \notin Refs \cup [state : States, data : Refs, age : Nat] /\ TTL \in Nat

VARIABLES
  entries,  \* entries[k]: Nil, or the fsmEntry [state, data, age] of k
  heap,     \* heap[r]: the contents of the map at r
  held,     \* held[h]: the map handler h is working on
  closed,   \* Close has been called: stopCleanup is closed
  idle,     \* history: ticks since the last read or write of each key
  last      \* history: the last call

vars == <<entries, heap, held, closed, idle, last>>

(* entry.age stands for now - lastAccess, in ticks, cut off at TTL + 1. *)
Promise == INSTANCE FSMStore WITH
  conv <- [k \in Keys |->
             IF entries[k] = Nil
             THEN [state |-> NoState, data |-> [f \in Fields |-> Absent]]
             ELSE [state |-> entries[k].state, data |-> heap[entries[k].data]]]

Data    == Promise!Data
Entries == [state : States, data : Refs, age : 0..TTL + 1]

(* Types; and what is stored can be marshaled. *)
TypeOK ==
  /\ entries \in [Keys -> Entries \cup {Nil}]
  /\ heap \in [Refs -> Data]
  /\ held \in [Handlers -> Refs \cup {Nil}]
  /\ closed \in BOOLEAN
  /\ idle \in [Keys -> 0..TTL + 1]
  /\ \A k \in Keys : entries[k] # Nil => Promise!Marshalable(heap[entries[k].data])

-----------------------------------------------------------------------------

Stored(k) == entries[k] # Nil
Live      == {entries[k].data : k \in {j \in Keys : Stored(j)}}
               \cup {held[h] : h \in Handlers}

(* The address of a new map: nothing refers to it.  Actions that allocate     *)
(* are bounded by MoreRefs, which holds of a heap large enough.              *)
Fresh(used) == CHOOSE r \in Refs : r \notin used
New         == Fresh(Live)
MoreRefs    == Refs \ Live # {}

(* The heap becomes h, less the maps nothing refers to any more (the last     *)
(* conjunct of an action: it looks at entries' and held').                    *)
Heap(h) == heap' = [r \in Refs |-> IF r \in Live' THEN h[r] ELSE Promise!EmptyMap]

(* A call on k is over: it touched k, and this is what it did and answered.   *)
Called(call) == idle' = [idle EXCEPT ![call[2]] = 0] /\ last' = call

Init ==
  /\ entries = [k \in Keys |-> Nil]
  /\ heap = [r \in Refs |-> Promise!EmptyMap]
  /\ held = [h \in Handlers |-> Nil]
  /\ closed = FALSE
  /\ idle = [k \in Keys |-> 0]
  /\ last = <<>>

(* get: the entry of k as it is when found or created, with lastAccess now.  *)
(* r is the map of a created entry.                                          *)
Get(k, r) == IF Stored(k) THEN [entries[k] EXCEPT !.age = 0]
                          ELSE [state |-> NoState, data |-> r, age |-> 0]

StoredData(k) == IF Stored(k) THEN heap[entries[k].data] ELSE Promise!EmptyMap

-----------------------------------------------------------------------------
(* The handlers, outside the storage *)

(* A handler makes a map of its own ... *)
NewMap(h, d) ==
  /\ MoreRefs
  /\ held' = [held EXCEPT ![h] = New]
  /\ UNCHANGED <<entries, closed, idle, last>>
  /\ Heap([heap EXCEPT ![New] = d])

(* ... or changes, in place, the one it has: made, passed in or got back.    *)
Mutate(h, f, v) ==
  /\ held[h] # Nil
  /\ heap' = [heap EXCEPT ![held[h]][f] = v]
  /\ UNCHANGED <<entries, held, closed, idle, last>>

-----------------------------------------------------------------------------
(* The storage's operations, called by handler h on key k *)

SetState(k, s) ==
  /\ MoreRefs
  /\ entries' = [entries EXCEPT ![k] = [Get(k, New) EXCEPT !.state = s]]
  /\ Called(<<"SetState", k, s>>)
  /\ UNCHANGED <<held, closed>>
  /\ Heap(IF Stored(k) THEN heap ELSE [heap EXCEPT ![New] = Promise!EmptyMap])

GetStateNoTouch(k) ==
  /\ Called(<<"GetState", k, IF Stored(k) THEN entries[k].state ELSE NoState>>)
  /\ UNCHANGED <<entries, heap, held, closed>>

GetState(k) ==
  /\ entries' = IF Stored(k) THEN [entries EXCEPT ![k].age = 0] ELSE entries
  /\ Called(<<"GetState", k, IF Stored(k) THEN entries[k].state ELSE NoState>>)
  /\ UNCHANGED <<heap, held, closed>>

(* s.get(key).data = data, without copyData *)
SetDataShared(h, k) ==
  /\ held[h] # Nil
  /\ entries' = [entries EXCEPT ![k] = [Get(k, held[h]) EXCEPT !.data = held[h]]]
  /\ Called(<<"SetData", k, heap[held[h]]>>)
  /\ UNCHANGED <<held, closed>>
  /\ Heap(heap)

(* copyData fails before get: the key is not even touched. *)
SetDataFails(h, k) ==
  /\ held[h] # Nil /\ ~Promise!Marshalable(heap[held[h]])
  /\ last' = <<"error", k>>
  /\ UNCHANGED <<entries, heap, held, closed, idle>>

SetData(h, k) ==
  /\ MoreRefs
  /\ held[h] # Nil /\ Promise!Marshalable(heap[held[h]])
  /\ entries' = [entries EXCEPT ![k] = [Get(k, New) EXCEPT !.data = New]]
  /\ Called(<<"SetData", k, heap[held[h]]>>)
  /\ UNCHANGED <<held, closed>>
  /\ Heap([heap EXCEPT ![New] = heap[held[h]]])

(* A copy of the stored map, or a new empty one when there is no entry. *)
GetData(h, k) ==
  /\ MoreRefs
  /\ held' = [held EXCEPT ![h] = New]
  /\ entries' = IF Stored(k) THEN [entries EXCEPT ![k].age = 0] ELSE entries
  /\ Called(<<"GetData", k, StoredData(k)>>)
  /\ UNCHANGED closed
  /\ Heap([heap EXCEPT ![New] = StoredData(k)])

(* The map handler h holds is the partial.  get comes first: when copyData   *)
(* then fails, the entry has been created or touched, its data is as it was. *)
UpdateData(h, k) ==
  /\ held[h] # Nil /\ Refs \ (Live \cup {New}) # {}
  /\ LET merged == Promise!Merge(StoredData(k), heap[held[h]])
         result == Fresh(Live \cup {New})
     IN
     \/ /\ Promise!Marshalable(merged)
        /\ entries' = [entries EXCEPT ![k] = [Get(k, New) EXCEPT !.data = New]]
        /\ held' = [held EXCEPT ![h] = result]
        /\ Called(<<"UpdateData", k, heap[held[h]], merged>>)
        /\ Heap([heap EXCEPT ![New] = merged, ![result] = merged])
     \/ /\ ~Promise!Marshalable(merged)
        /\ entries' = [entries EXCEPT ![k] = Get(k, New)]
        /\ Called(<<"error", k>>)
        /\ UNCHANGED held
        /\ Heap(IF Stored(k) THEN heap ELSE [heap EXCEPT ![New] = Promise!EmptyMap])
  /\ UNCHANGED closed

Clear(k) ==
  /\ entries' = [entries EXCEPT ![k] = Nil]
  /\ Called(<<"Clear", k>>)
  /\ UNCHANGED <<held, closed>>
  /\ Heap(heap)

-----------------------------------------------------------------------------
(* The clock and the cleanup goroutine *)

Aged(k) == IF Stored(k) THEN [entries[k] EXCEPT !.age = Promise!Older(@)] ELSE Nil

Tick ==
  /\ TTL > 0
  /\ entries' = [k \in Keys |-> Aged(k)]
  /\ idle' = [k \in Keys |-> Promise!Older(idle[k])]
  /\ UNCHANGED <<heap, held, closed, last>>

(* cleanupLoop's ticker fires until Close; only a storage with a TTL has one. *)
evictExpired ==
  /\ TTL > 0 /\ ~closed
  /\ entries' = [k \in Keys |->
       IF Stored(k) /\ entries[k].age > TTL THEN Nil ELSE entries[k]]
  /\ UNCHANGED <<held, closed, idle, last>>
  /\ Heap(heap)

Close == closed' = TRUE /\ UNCHANGED <<entries, heap, held, idle, last>>

-----------------------------------------------------------------------------

Operation ==
  \E k \in Keys :
    \/ \E s \in States : SetState(k, s)
    \/ GetState(k)
    \/ \E h \in Handlers :
         SetData(h, k) \/ SetDataFails(h, k) \/ GetData(h, k) \/ UpdateData(h, k)
    \/ Clear(k)

Work ==
  \E h \in Handlers :
    \/ \E d \in Data : NewMap(h, d)
    \/ \E f \in Fields, v \in Values : Mutate(h, f, v)

Next == Operation \/ Work \/ Tick \/ evictExpired \/ Close

Spec == Init /\ [][Next]_vars

-----------------------------------------------------------------------------
(* Properties *)

(* MemoryStorage keeps the promise of FSMStorage: whatever handlers do to    *)
(* the maps they passed in or got back is a stuttering step of the store,    *)
(* UpdateData merges atomically, a failed UpdateData leaves the data alone,  *)
(* and only a conversation untouched for the whole TTL is swept away.        *)
KeepsPromise == Promise!Spec

(* The maps in the store are nobody else's (the comment on copyData). *)
NotShared ==
  \A k \in {j \in Keys : Stored(j)} :
    /\ \A h \in Handlers : held[h] # entries[k].data
    /\ \A j \in Keys \ {k} : Stored(j) => entries[j].data # entries[k].data

(* The clock of an entry that exists is that of the last read or write. *)
ClockIsLastUse == \A k \in Keys : Stored(k) => entries[k].age = idle[k]

(* The store's own invariant: what SetData and GetData copy stays apart from *)
(* what handlers hold, and every read and write restarts an entry's clock.   *)
StoreInv == TypeOK /\ NotShared /\ ClockIsLastUse
=============================================================================
