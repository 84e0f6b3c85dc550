------------------------------- MODULE Client -------------------------------
(***************************************************************************)
(* A call of the Bot API (internal/api/client.go): Client.Call down to     *)
(* doRequest with its deadline, and retryDelay, which waits out flood      *)
(* errors while they fit in the budget of SetAutoRetry.  Durations are     *)
(* remaining ones; the deadline is the fallback doRequest sets, since a    *)
(* handler's Ctx carries none.                                             *)
(***************************************************************************)
EXTENDS Integers

CONSTANTS
  Callers,            \* goroutines that call
  None,               \* no answer
  defaultCallTimeout,
  autoRetryMaxWait,   \* SetAutoRetry's budget, 0 if it is off
  RetryAfters         \* the waits Telegram may ask for

ASSUME ClientAssumption ==
  defaultCallTimeout \in Nat /\ autoRetryMaxWait \in Nat /\ RetryAfters \subseteq Nat

VARIABLES
  at,       \* at[c]: where the call of c is, or what it returned
  left,     \* left[c]: until the deadline
  elapsed,  \* elapsed[c]: since start
  wait,     \* wait[c]: what is left of the wait before a retry
  reply     \* reply[c]: the answer on its way

calls == <<at, left, elapsed, wait, reply>>

-----------------------------------------------------------------------------

Left(t)        == IF t > 0 THEN t - 1 ELSE 0
Greatest(a, b) == IF a > b THEN a ELSE b

OnTheWay == {"request", "reply", "wait"}
Returned == {"ok", "error", "deadline"}

(* Mutant of timeout: the budget does not count. *)
timeoutDefault == defaultCallTimeout

timeout == Greatest(defaultCallTimeout, autoRetryMaxWait)

CallsInit ==
  /\ at = [c \in Callers |-> "idle"]
  /\ left = [c \in Callers |-> 0] /\ elapsed = [c \in Callers |-> 0]
  /\ wait = [c \in Callers |-> 0]
  /\ reply = [c \in Callers |-> None]

Call(c) ==
  /\ at[c] = "idle"
  /\ at' = [at EXCEPT ![c] = "request"]
  /\ left' = [left EXCEPT ![c] = timeout]
  /\ elapsed' = [elapsed EXCEPT ![c] = 0]
  /\ UNCHANGED <<wait, reply>>

(* Telegram answers: with a result, an error, or a flood error that says how *)
(* long to wait (retry_after).                                               *)
Answer(c, result) ==
  /\ at[c] = "request"
  /\ at' = [at EXCEPT ![c] = "reply"]
  /\ \E r \in [kind : {"ok"}, result : {result}] \cup [kind : {"error"}]
              \cup [kind : {"flood"}, after : RetryAfters] :
       reply' = [reply EXCEPT ![c] = r]
  /\ UNCHANGED <<left, elapsed, wait>>

Finish(c, how) ==
  /\ at' = [at EXCEPT ![c] = how]
  /\ wait' = [wait EXCEPT ![c] = 0]
  /\ UNCHANGED <<left, elapsed>>

(* The request fails in transport, or its answer cannot be decoded *)
TransportFails(c) ==
  /\ at[c] \in {"request", "reply"}
  /\ Finish(c, "error")
  /\ reply' = [reply EXCEPT ![c] = None]

(* Mutant of retryDelay: the budget is held against each wait by itself. *)
retryDelayEach(c) ==
  /\ autoRetryMaxWait > 0
  /\ reply[c].kind = "flood"
  /\ reply[c].after <= autoRetryMaxWait

(* retryDelay's second result; the first is retry_after *)
retryDelay(c) ==
  /\ autoRetryMaxWait > 0
  /\ reply[c].kind = "flood"
  /\ elapsed[c] + reply[c].after <= autoRetryMaxWait

Receive(c) ==
  /\ at[c] = "reply"
  /\ ~retryDelay(c)
  /\ Finish(c, IF reply[c].kind = "ok" THEN "ok" ELSE "error")
  /\ UNCHANGED reply

Backoff(c) ==
  /\ at[c] = "reply"
  /\ retryDelay(c)
  /\ at' = [at EXCEPT ![c] = "wait"]
  /\ wait' = [wait EXCEPT ![c] = reply[c].after]
  /\ reply' = [reply EXCEPT ![c] = None]
  /\ UNCHANGED <<left, elapsed>>

Retry(c) ==
  /\ at[c] = "wait" /\ wait[c] = 0
  /\ at' = [at EXCEPT ![c] = "request"]
  /\ UNCHANGED <<left, elapsed, wait, reply>>

(* ctx is done: httpClient.Do fails, or the select leaves the wait *)
Deadline(c) ==
  /\ at[c] \in OnTheWay /\ left[c] = 0
  /\ Finish(c, "deadline")
  /\ reply' = [reply EXCEPT ![c] = None]

(* Nothing goes on past its deadline, which cancels the request. *)
CallsTick ==
  /\ \A c \in Callers : at[c] \in OnTheWay => left[c] > 0
  /\ left' = [c \in Callers |-> Left(left[c])]
  /\ elapsed' = [c \in Callers |-> IF at[c] \in OnTheWay THEN elapsed[c] + 1 ELSE 0]
  /\ wait' = [c \in Callers |-> Left(wait[c])]
  /\ UNCHANGED <<at, reply>>

DoRequest(c) == TransportFails(c) \/ Receive(c) \/ Backoff(c) \/ Retry(c) \/ Deadline(c)

-----------------------------------------------------------------------------

(* "otherwise the fallback deadline would cut retries short before           *)
(* autoRetryMaxWait's own budget does" (doRequest): a wait that was granted  *)
(* ends, while it lasts, within the budget of the whole call, and before its *)
(* deadline.                                                                 *)
RetriesFit ==
  \A c \in Callers : at[c] = "wait" /\ wait[c] > 0 =>
    elapsed[c] + wait[c] <= autoRetryMaxWait /\ wait[c] <= left[c]
=============================================================================
