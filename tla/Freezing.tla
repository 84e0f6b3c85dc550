------------------------------ MODULE Freezing ------------------------------
(***************************************************************************)
(* Freezing the routers (router.go) while goroutines dispatch and one      *)
(* still registers.  A router has a flag of its own.  Registering checks   *)
(* it, then appends; freezing sets it, then reads the list and goes on to  *)
(* the included routers, one call within the other; a goroutine that finds *)
(* it set goes on at once, though the one that set it may not have got     *)
(* round the tree.                                                         *)
(*                                                                         *)
(* A call of Handle or Include that had passed the check when the flag was *)
(* set still appends, and the list is then written while it may be read:   *)
(* what such a router does is not promised (late).  The model lets the     *)
(* reader see the list before or after.                                    *)
(***************************************************************************)
EXTENDS Naturals, Sequences

CONSTANTS
  Routers,   \* routers
  Root,      \* the router given to TelegramBot.Dispatch
  Leaves,    \* registrations
  Walkers,   \* goroutines that start the bot and dispatch updates
  MaxRoutes  \* bound: routes in all routers together

FreezingAssumption == Root \in Routers /\ Routers \cap Leaves = {}

VARIABLES
  routes,      \* routes[r]: the registrations and included routers of r, in order
  frozen,      \* the routers whose flag is set
  registering, \* the call of Handle or Include that has passed its checks, if any
  stacks,      \* stacks[w]: the calls w is in: "swap" and "freeze" are freeze before and
               \* after it has set the flag, "walk" is dispatch
  late         \* history: the routers frozen while a call was registering on them

vars == <<routes, frozen, registering, stacks, late>>

Elements(s) == {s[i] : i \in 1..Len(s)}
Subs(r)     == Elements(routes[r]) \cap Routers

Reaches(r, t) ==
  \A S \in SUBSET Routers : r \in S /\ (\A q \in S : Subs(q) \subseteq S) => t \in S

Size == LET Sum[S \in SUBSET Routers] ==
              IF S = {} THEN 0
              ELSE LET r == CHOOSE r \in S : TRUE IN Len(routes[r]) + Sum[S \ {r}]
        IN Sum[Routers]

-----------------------------------------------------------------------------
(* Registering *)

(* ensureMutable, and for an included router the check for a cycle *)
Check(r, x) ==
  /\ registering = {} /\ Size < MaxRoutes
  /\ r \notin frozen
  /\ x \in Routers => ~Reaches(x, r)
  /\ registering' = {[router |-> r, route |-> x]}
  /\ UNCHANGED <<routes, frozen, stacks, late>>

Register ==
  \E call \in registering :
    /\ routes' = [routes EXCEPT ![call.router] = Append(@, call.route)]
    /\ registering' = {}
    /\ UNCHANGED <<frozen, stacks, late>>

-----------------------------------------------------------------------------
(* Freezing and dispatching *)

Called(op, r)  == [op |-> op, router |-> r, reading |-> FALSE, list |-> <<>>, at |-> 1]
Freeze(s, r)   == Append(s, Called("swap", r))
Dispatch(s, r) == Freeze(Append(s, Called("walk", r)), r)

Top(w)        == stacks[w][Len(stacks[w])]
Rest(w)       == SubSeq(stacks[w], 1, Len(stacks[w]) - 1)
In(w, ops)    == stacks[w] # <<>> /\ Top(w).op \in ops
Becomes(w, s) == stacks' = [stacks EXCEPT ![w] = s]

(* startWorkers and HandleUpdate freeze the tree, workers and HandleUpdate   *)
(* dispatch, which begins with freeze.                                       *)
Start(w) ==
  /\ stacks[w] = <<>>
  /\ Becomes(w, Freeze(<<>>, Root)) \/ Becomes(w, Dispatch(<<>>, Root))
  /\ UNCHANGED <<routes, frozen, registering, late>>

CompareAndSwap(w) ==
  /\ In(w, {"swap"})
  /\ LET r == Top(w).router IN
     IF r \in frozen
       THEN Becomes(w, Rest(w)) /\ UNCHANGED <<frozen, late>>
       ELSE /\ Becomes(w, Append(Rest(w), Called("freeze", r)))
            /\ frozen' = frozen \cup {r}
            /\ late' = late \cup {q \in {r} : \E call \in registering : call.router = q}
  /\ UNCHANGED <<routes, registering>>

(* A range expression is evaluated once.                                     *)
Read(w) ==
  /\ In(w, {"freeze", "walk"}) /\ ~Top(w).reading
  /\ Becomes(w, Append(Rest(w), [Top(w) EXCEPT !.reading = TRUE, !.list = routes[Top(w).router]]))
  /\ UNCHANGED <<routes, frozen, registering, late>>

AtRoute(w) == In(w, {"freeze", "walk"}) /\ Top(w).reading /\ Top(w).at <= Len(Top(w).list)
Route(w)   == Top(w).list[Top(w).at]
Onward(w)  == Append(Rest(w), [Top(w) EXCEPT !.at = @ + 1])

(* Mutant of NextRoute: freeze leaves the included routers to dispatch.      *)
NextRouteShallow(w) ==
  /\ AtRoute(w)
  /\ Becomes(w, IF Route(w) \in Leaves \/ Top(w).op = "freeze" THEN Onward(w)
                ELSE Dispatch(Onward(w), Route(w)))
  /\ UNCHANGED <<routes, frozen, registering, late>>

(* The next route: a registration that does not match or declines (and none  *)
(* is of interest to freeze), or an included router.                         *)
NextRoute(w) ==
  /\ AtRoute(w)
  /\ \/ Route(w) \in Leaves /\ Becomes(w, Onward(w))
     \/ Route(w) \in Routers /\ Top(w).op = "freeze" /\ Becomes(w, Freeze(Onward(w), Route(w)))
     \/ Route(w) \in Routers /\ Top(w).op = "walk" /\ Becomes(w, Dispatch(Onward(w), Route(w)))
  /\ UNCHANGED <<routes, frozen, registering, late>>

(* The list is at its end, or an outer middleware did not call next.         *)
Return(w) ==
  /\ In(w, {"freeze", "walk"})
  /\ IF Top(w).reading THEN Top(w).at > Len(Top(w).list) ELSE Top(w).op = "walk"
  /\ Becomes(w, Rest(w))
  /\ UNCHANGED <<routes, frozen, registering, late>>

(* The update is settled by a handler or a middleware, or by a panic.        *)
Settle(w) ==
  /\ In(w, {"walk"})
  /\ Becomes(w, <<>>)
  /\ UNCHANGED <<routes, frozen, registering, late>>

-----------------------------------------------------------------------------

Init ==
  /\ routes = [r \in Routers |-> <<>>]
  /\ frozen = {} /\ registering = {}
  /\ stacks = [w \in Walkers |-> <<>>]
  /\ late = {}

Next ==
  \/ \E r \in Routers, x \in Routers \cup Leaves : Check(r, x)
  \/ Register
  \/ \E w \in Walkers :
       \/ Start(w) \/ CompareAndSwap(w) \/ Read(w) \/ NextRoute(w) \/ Return(w) \/ Settle(w)

Spec == Init /\ [][Next]_vars

-----------------------------------------------------------------------------
(* What freeze is for (comment on Router.freeze): routes do not change while *)
(* dispatch reads them.  A dispatch walks frozen routers only and the list   *)
(* it has read stays the router's; and freezing is done before it returns to *)
(* who is alone in doing it: once no goroutine is freezing, everything that  *)
(* is included in a frozen router is frozen - which firstMatchingRoute,      *)
(* which freezes nothing, relies on.  A router is excepted if a call was     *)
(* registering on it when it froze.                                          *)
Calls(w) == Elements(stacks[w])

FrozenForGood ==
  /\ \A w \in Walkers : \A c \in Calls(w) :
       c.op = "walk" /\ c.reading =>
         c.router \in frozen /\ (c.router \notin late => c.list = routes[c.router])
  /\ (\A w \in Walkers : \A c \in Calls(w) : c.op = "walk") =>
       \A r \in frozen \ late : Subs(r) \subseteq frozen
=============================================================================
