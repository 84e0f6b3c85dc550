----------------------------- MODULE AdminCache -----------------------------
(***************************************************************************)
(* AdminCache (admin_cache.go): FilterIsAdmin answers from the cache or    *)
(* asks Telegram (getChatMember, through Client).  Several updates of one  *)
(* user may ask at the same time: they share no dispatch lock when the     *)
(* conversation's key is finer than {chat, user}.                          *)
(***************************************************************************)
EXTENDS Client

CONSTANTS
  Members,  \* adminCacheKey: {chat, user} pairs
  ttl

ASSUME AdminCacheAssumption == ttl \in Nat

VARIABLES
  admin,    \* Telegram: admin[m], whether m is an administrator now
  entries,  \* a.entries: [isAdmin, expires in], None where there is none
  asking,   \* asking[c]: the member the filter of c is about, or None
  verdict,  \* the filter's answer, while the instant it was given lasts
  since     \* history: since[m][b], how long ago admin[m] was last b

vars == <<calls, admin, entries, asking, verdict, since>>

-----------------------------------------------------------------------------

(* What is answered is what was true one call and one ttl ago, or later. *)
Horizon == ttl + timeout
Forgotten == Horizon + 1  \* bound: a longer time is not told from this one

Never(m) == [b \in BOOLEAN |-> IF b = admin[m] THEN 0 ELSE Forgotten]

Init ==
  /\ CallsInit
  /\ admin \in [Members -> BOOLEAN]
  /\ entries = [m \in Members |-> None]
  /\ asking = [c \in Callers |-> None]
  /\ verdict = [c \in Callers |-> None]
  /\ since = [m \in Members |-> Never(m)]

(* A promotion or a demotion *)
ChatMemberChanges(m) ==
  /\ admin' = [admin EXCEPT ![m] = ~@]
  /\ since' = [since EXCEPT ![m][~admin[m]] = 0]
  /\ UNCHANGED <<calls, entries, asking, verdict>>

(* get: an entry past its expiry is no entry, swept or not. *)
Hit(m) == entries[m] # None /\ entries[m].expires >= 0

Give(c, m, b, asked) == verdict' = [verdict EXCEPT ![c] = [member |-> m, is |-> b, known |-> asked]]

(* Mutant of FromCache: an entry in use is kept alive, as RateLimiter's are. *)
FromCacheSliding(c, m) ==
  /\ asking[c] = None /\ at[c] = "idle" /\ Hit(m)
  /\ Give(c, m, entries[m].isAdmin, TRUE)
  /\ entries' = [entries EXCEPT ![m].expires = ttl]
  /\ UNCHANGED <<calls, admin, asking, since>>

FromCache(c, m) ==
  /\ asking[c] = None /\ at[c] = "idle" /\ Hit(m)
  /\ Give(c, m, entries[m].isAdmin, TRUE)
  /\ UNCHANGED <<calls, admin, entries, asking, since>>

Ask(c, m) ==
  /\ asking[c] = None /\ ~Hit(m)
  /\ Call(c)
  /\ asking' = [asking EXCEPT ![c] = m]
  /\ UNCHANGED <<admin, entries, verdict, since>>

(* Telegram reads the member's status when it handles the request. *)
GetChatMember(c) ==
  /\ asking[c] # None
  /\ Answer(c, admin[asking[c]])
  /\ UNCHANGED <<admin, entries, asking, verdict, since>>

Transport(c) ==
  /\ asking[c] # None
  /\ DoRequest(c)
  /\ UNCHANGED <<admin, entries, asking, verdict, since>>

Leave(c) ==
  /\ at' = [at EXCEPT ![c] = "idle"]
  /\ reply' = [reply EXCEPT ![c] = None]
  /\ asking' = [asking EXCEPT ![c] = None]
  /\ UNCHANGED <<left, elapsed, wait, admin, since>>

Set(c) ==
  /\ asking[c] # None /\ at[c] = "ok"
  /\ entries' = [entries EXCEPT ![asking[c]] = [isAdmin |-> reply[c].result, expires |-> ttl]]
  /\ Give(c, asking[c], reply[c].result, TRUE)
  /\ Leave(c)

(* A lookup that failed matches nothing, and nothing is cached. *)
FailClosed(c) ==
  /\ asking[c] # None /\ at[c] \in {"error", "deadline"}
  /\ Give(c, asking[c], FALSE, FALSE)
  /\ UNCHANGED entries
  /\ Leave(c)

(* cleanupLoop's sweep; after Close there is none, and nothing changes *)
evictExpired ==
  /\ \E m \in Members : entries[m] # None /\ ~Hit(m)
  /\ entries' = [m \in Members |-> IF Hit(m) THEN entries[m] ELSE None]
  /\ UNCHANGED <<calls, admin, asking, verdict, since>>

(* What a call returned is cached and answered without waiting for anything: *)
(* no time passes in between.                                                *)
Tick ==
  /\ \A c \in Callers : at[c] \notin Returned
  /\ CallsTick
  /\ entries' = [m \in Members |->
       IF entries[m] = None THEN None
       ELSE [entries[m] EXCEPT !.expires = IF @ >= 0 THEN @ - 1 ELSE @]]
  /\ since' = [m \in Members |-> [b \in BOOLEAN |->
       IF b = admin[m] THEN 0
       ELSE IF since[m][b] < Forgotten THEN since[m][b] + 1 ELSE Forgotten]]
  /\ verdict' = [c \in Callers |-> None]
  /\ UNCHANGED <<admin, asking>>

FilterIsAdmin(c) ==
  \/ \E m \in Members : FromCache(c, m) \/ Ask(c, m)
  \/ GetChatMember(c) \/ Transport(c) \/ Set(c) \/ FailClosed(c)

Next ==
  \/ \E c \in Callers : FilterIsAdmin(c)
  \/ \E m \in Members : ChatMemberChanges(m)
  \/ evictExpired \/ Tick

Spec == Init /\ [][Next]_vars

-----------------------------------------------------------------------------
(* Properties *)

(* "an admin promotion/demotion should become visible within one ttl window  *)
(* of continuous activity" (AdminCache): it is, but for the time a call may  *)
(* take, whatever calls overlap, fail, are retried or come back out of order; *)
(* and a failed lookup never makes anybody an administrator.                 *)
VerdictsAreRecent ==
  \A c \in Callers : verdict[c] # None =>
    IF verdict[c].known THEN since[verdict[c].member][verdict[c].is] <= Horizon
                        ELSE ~verdict[c].is
=============================================================================
