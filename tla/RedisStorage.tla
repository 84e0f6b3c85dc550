---------------------------- MODULE RedisStorage ----------------------------
(***************************************************************************)
(* The Redis backend of FSMStorage (storage/redis/storage.go), used by the *)
(* handlers of one bot process.  A conversation is two Redis keys, each    *)
(* with a time to live of its own.  Redis runs one command at a time; all  *)
(* operations are one command except UpdateData, which is two.  What keeps *)
(* others out in between is not the storage but the dispatch lock, and     *)
(* that is the lock of the update's key: a handler can also work on the    *)
(* conversation of someone else (NewFSMContext, fsm.go).                   *)
(***************************************************************************)
EXTENDS Naturals

CONSTANTS
  Keys, States, NoState, Fields, Values, Unmarshalable, Absent,
  TTL,       \* WithTTL, in ticks; 0 for none
  Handlers,  \* goroutines dispatching updates
  OwnKey,    \* OwnKey[h]: the storage key of the update h dispatches
  Reach,     \* Reach[h]: the storage keys h's handler works on
  Nil        \* no such key in Redis

RedisAssumption ==
  /\ NoState \in States /\ Absent \notin Values /\ Unmarshalable \subseteq Values
  /\ TTL \in Nat /\ Nil \notin [val : States \cup [Fields -> Values \cup {Absent}], ttl : Nat]
  /\ OwnKey \in [Handlers -> Keys] /\ Reach \in [Handlers -> SUBSET Keys]

VARIABLES
  stateKey,  \* stateKey[k]: Nil, or the state of k and its time to live
  dataKey,   \* dataKey[k]: Nil, or the data of k and its time to live
  pc,        \* pc[h]: "out" (no update), "handler", or "merging" (in UpdateData)
  call,      \* call[h]: the UpdateData in progress: its key, partial and result
  idle,      \* history: ticks since an operation named k, at most TTL
  last       \* history: the last operation carried out (see FSMStore)

vars == <<stateKey, dataKey, pc, call, idle, last>>

State(k) == IF stateKey[k] = Nil THEN NoState ELSE stateKey[k].val
EmptyMap == [f \in Fields |-> Absent]
Map(k)   == IF dataKey[k] = Nil THEN EmptyMap ELSE dataKey[k].val

Promise == INSTANCE FSMStore WITH
  conv <- [k \in Keys |-> [state |-> State(k), data |-> Map(k)]]

Data  == Promise!Data
Calls == [key : Keys, partial : Data, merged : Data]
Live(vals) == [val : vals, ttl : 0..TTL] \cup {Nil}

TypeOK ==
  /\ stateKey \in [Keys -> Live(States \ {NoState})]
  /\ dataKey \in [Keys -> Live({d \in Data : Promise!Marshalable(d)})]
  /\ pc \in [Handlers -> {"out", "handler", "merging"}]
  /\ idle \in [Keys -> 0..TTL]
  /\ call \in [Handlers -> Calls \cup {Nil}]
  /\ \A h \in Handlers : call[h] \in IF pc[h] = "merging" THEN Calls ELSE {Nil}

Init ==
  /\ stateKey = [k \in Keys |-> Nil]
  /\ dataKey = [k \in Keys |-> Nil]
  /\ pc = [h \in Handlers |-> "out"]
  /\ call = [h \in Handlers |-> Nil]
  /\ idle = [k \in Keys |-> 0]
  /\ last = <<>>

-----------------------------------------------------------------------------
(* Redis: every command sets the key's time to live, GETEX included.         *)

Set(key, k, v) == [key EXCEPT ![k] = [val |-> v, ttl |-> TTL]]
GetEx(key, k)  == IF key[k] = Nil THEN key ELSE [key EXCEPT ![k].ttl = TTL]
Del(key, k)    == [key EXCEPT ![k] = Nil]

(* A time to live runs out; 0 stands for none. *)
Aged(live) == IF live = Nil \/ live.ttl = 1 THEN Nil
              ELSE [live EXCEPT !.ttl = IF @ = 0 THEN 0 ELSE @ - 1]

(* Assumed: UpdateData's two commands are less than a tick apart. *)
Tick ==
  /\ TTL > 0
  /\ \A h \in Handlers : pc[h] # "merging"
  /\ stateKey' = [k \in Keys |-> Aged(stateKey[k])]
  /\ dataKey' = [k \in Keys |-> Aged(dataKey[k])]
  /\ idle' = [k \in Keys |-> IF idle[k] < TTL THEN idle[k] + 1 ELSE TTL]
  /\ UNCHANGED <<pc, call, last>>

-----------------------------------------------------------------------------
(* The dispatch of one update under its key's lock (KeyLock) *)

Dispatch(h) ==
  /\ pc[h] = "out"
  /\ \A g \in Handlers : OwnKey[g] = OwnKey[h] => pc[g] = "out"
  /\ pc' = [pc EXCEPT ![h] = "handler"]
  /\ UNCHANGED <<stateKey, dataKey, call, idle, last>>

Return(h) ==
  /\ pc[h] = "handler"
  /\ pc' = [pc EXCEPT ![h] = "out"]
  /\ UNCHANGED <<stateKey, dataKey, call, idle, last>>

(* The process dies and starts again; Redis goes on. *)
Crash ==
  /\ pc' = [h \in Handlers |-> "out"]
  /\ call' = [h \in Handlers |-> Nil]
  /\ UNCHANGED <<stateKey, dataKey, idle, last>>

-----------------------------------------------------------------------------
(* The operations.  One that fails without reaching Redis changes nothing    *)
(* and is no step; one whose answer is lost has been carried out.            *)

Uses(h, k) == pc[h] = "handler" /\ k \in Reach[h]

(* An operation on k is over: it touched k, did this and answered that.      *)
Called(op) == idle' = [idle EXCEPT ![op[2]] = 0] /\ last' = op

(* Setting NoState deletes the key. *)
SetState(h, k, s) ==
  /\ Uses(h, k)
  /\ stateKey' = IF s = NoState THEN Del(stateKey, k) ELSE Set(stateKey, k, s)
  /\ Called(<<"SetState", k, s>>)
  /\ UNCHANGED <<dataKey, pc, call>>

GetState(h, k) ==
  /\ Uses(h, k)
  /\ stateKey' = GetEx(stateKey, k)
  /\ Called(<<"GetState", k, State(k)>>)
  /\ UNCHANGED <<dataKey, pc, call>>

(* A map that cannot be marshaled does not get as far as Redis. *)
SetData(h, k, d) ==
  /\ Uses(h, k)
  /\ Promise!Marshalable(d)
  /\ dataKey' = Set(dataKey, k, d)
  /\ Called(<<"SetData", k, d>>)
  /\ UNCHANGED <<stateKey, pc, call>>

GetData(h, k) ==
  /\ Uses(h, k)
  /\ dataKey' = GetEx(dataKey, k)
  /\ Called(<<"GetData", k, Map(k)>>)
  /\ UNCHANGED <<stateKey, pc, call>>

(* UpdateData: GetData, and the merge in memory ... *)
UpdateDataReads(h, k, partial) ==
  /\ Uses(h, k)
  /\ dataKey' = GetEx(dataKey, k)
  /\ pc' = [pc EXCEPT ![h] = "merging"]
  /\ call' = [call EXCEPT ![h] = [key |-> k, partial |-> partial,
                                  merged |-> Promise!Merge(Map(k), partial)]]
  /\ Called(<<"GetData", k, Map(k)>>)
  /\ UNCHANGED stateKey

(* SetData(ctx, key, partial) *)
UpdateDataForgets(h) ==
  /\ pc[h] = "merging" /\ Promise!Marshalable(call[h].partial)
  /\ pc' = [pc EXCEPT ![h] = "handler"]
  /\ call' = [call EXCEPT ![h] = Nil]
  /\ dataKey' = Set(dataKey, call[h].key, call[h].partial)
  /\ Called(<<"UpdateData", call[h].key, call[h].partial, call[h].merged>>)
  /\ UNCHANGED stateKey

(* ... then SetData of the result ... *)
UpdateDataWrites(h) ==
  /\ pc[h] = "merging" /\ Promise!Marshalable(call[h].merged)
  /\ pc' = [pc EXCEPT ![h] = "handler"]
  /\ call' = [call EXCEPT ![h] = Nil]
  /\ dataKey' = Set(dataKey, call[h].key, call[h].merged)
  /\ Called(<<"UpdateData", call[h].key, call[h].partial, call[h].merged>>)
  /\ UNCHANGED stateKey

(* ... which can fail, in Marshal or on the way to Redis.                    *)
UpdateDataFails(h) ==
  /\ pc[h] = "merging"
  /\ pc' = [pc EXCEPT ![h] = "handler"]
  /\ call' = [call EXCEPT ![h] = Nil]
  /\ last' = <<"error", call[h].key>>
  /\ UNCHANGED <<stateKey, dataKey, idle>>

(* DEL of the state key alone *)
ClearState(h, k) ==
  /\ Uses(h, k)
  /\ stateKey' = Del(stateKey, k)
  /\ Called(<<"Clear", k>>)
  /\ UNCHANGED <<dataKey, pc, call>>

Clear(h, k) ==
  /\ Uses(h, k)
  /\ stateKey' = Del(stateKey, k) /\ dataKey' = Del(dataKey, k)
  /\ Called(<<"Clear", k>>)
  /\ UNCHANGED <<pc, call>>

-----------------------------------------------------------------------------

Next ==
  \/ \E h \in Handlers :
       \/ Dispatch(h) \/ Return(h)
       \/ \E k \in Keys :
            \/ \E s \in States : SetState(h, k, s)
            \/ \E d \in Data : SetData(h, k, d) \/ UpdateDataReads(h, k, d)
            \/ GetState(h, k) \/ GetData(h, k) \/ Clear(h, k)
       \/ UpdateDataWrites(h) \/ UpdateDataFails(h)
  \/ Crash
  \/ Tick

Spec == Init /\ [][Next]_vars

-----------------------------------------------------------------------------
(* Properties *)

(* As long as handlers work on their own conversation, the lock makes the    *)
(* two commands of UpdateData as good as one: but for expiry the backend     *)
(* keeps the promise of FSMStore, answers included, also across crashes and  *)
(* failed commands (the comment on Storage.UpdateData, "that's fine, because *)
(* the bot's own per-key dispatch lock already serializes updates that share *)
(* a storage key within one process").                                       *)
KeepsPromise == Promise!Init /\ [][Promise!Next \/ Tick]_(Promise!vars)

(* The comment on WithTTL: "every read refreshes the TTL, so an active       *)
(* conversation never expires mid-flow".  A conversation that was read or    *)
(* written less than a TTL ago loses neither its state nor its data.         *)
NeverMidFlow ==
  [][\A k \in Keys : idle'[k] = idle[k] + 1 /\ idle'[k] < TTL =>
       State(k)' = State(k) /\ Map(k)' = Map(k)]_vars
=============================================================================
