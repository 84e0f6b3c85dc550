------------------------------ MODULE FSMStore ------------------------------
(***************************************************************************)
(* What the FSMStorage interface (fsm.go) promises a handler, whatever the *)
(* backend: one conversation per StorageKey, a state and a data map.  Each *)
(* operation is atomic and names its whole effect; data handed in or out   *)
(* is a copy; a conversation goes away as a whole, and only once it has    *)
(* been idle for longer than the sliding TTL.  What a call did and answered *)
(* is on record in "last", so an implementation has to get that right too. *)
(***************************************************************************)
EXTENDS Naturals

CONSTANTS
  Keys,     \* storage keys
  States,   \* conversation states
  NoState,  \* the empty state
  Fields,   \* keys of the data map
  Values,   \* what a handler can put in the data map
  Unmarshalable,  \* the Values encoding/json refuses (a channel, a function)
  Absent,   \* the field is not in the map
  TTL       \* idle ticks a conversation survives; 0 for no expiry

VARIABLES
  conv,     \* conv[k]: the conversation of k
  idle,     \* idle[k]: ticks since k was read or written, at most TTL + 1
  last      \* the last call: operation, key, argument and answer

vars == <<conv, idle, last>>

Data      == [Fields -> Values \cup {Absent}]
EmptyMap  == [f \in Fields |-> Absent]
NoConversation == [state |-> NoState, data |-> EmptyMap]

(* The JSON round-trip contract: only such maps can be stored. *)
Marshalable(d) == \A f \in Fields : d[f] \notin Unmarshalable

(* partial written over existing, field by field. *)
Merge(existing, partial) ==
  [f \in Fields |-> IF partial[f] = Absent THEN existing[f] ELSE partial[f]]

Older(age)  == IF age > TTL THEN age ELSE age + 1
Expired(k)  == TTL > 0 /\ idle[k] > TTL

Init ==
  /\ conv = [k \in Keys |-> NoConversation]
  /\ idle = [k \in Keys |-> 0]
  /\ last = <<>>

Touch(k) == idle' = [idle EXCEPT ![k] = 0]

SetState(k, s) ==
  /\ conv' = [conv EXCEPT ![k].state = s]
  /\ last' = <<"SetState", k, s>>
  /\ Touch(k)

GetState(k) ==
  /\ last' = <<"GetState", k, conv[k].state>>
  /\ Touch(k)
  /\ UNCHANGED conv

SetData(k, d) ==
  /\ Marshalable(d)
  /\ conv' = [conv EXCEPT ![k].data = d]
  /\ last' = <<"SetData", k, d>>
  /\ Touch(k)

GetData(k) ==
  /\ last' = <<"GetData", k, conv[k].data>>
  /\ Touch(k)
  /\ UNCHANGED conv

UpdateData(k, partial) ==
  LET merged == Merge(conv[k].data, partial) IN
  /\ Marshalable(merged)
  /\ conv' = [conv EXCEPT ![k].data = merged]
  /\ last' = <<"UpdateData", k, partial, merged>>
  /\ Touch(k)

Clear(k) ==
  /\ conv' = [conv EXCEPT ![k] = NoConversation]
  /\ last' = <<"Clear", k>>
  /\ Touch(k)

(* An operation that returns an error leaves the conversation alone.        *)
Fail(k) ==
  /\ last' = <<"error", k>>
  /\ Touch(k) \/ UNCHANGED idle
  /\ UNCHANGED conv

Tick == idle' = [k \in Keys |-> Older(idle[k])] /\ UNCHANGED <<conv, last>>

Expire(gone) ==
  /\ \A k \in gone : Expired(k)
  /\ conv' = [k \in Keys |-> IF k \in gone THEN NoConversation ELSE conv[k]]
  /\ UNCHANGED <<idle, last>>

Call ==
  \E k \in Keys :
    \/ \E s \in States : SetState(k, s)
    \/ \E d \in Data : SetData(k, d) \/ UpdateData(k, d)
    \/ GetState(k) \/ GetData(k) \/ Clear(k) \/ Fail(k)

Next == Call \/ Tick \/ \E gone \in SUBSET Keys : Expire(gone)

Spec == Init /\ [][Next]_vars
=============================================================================
