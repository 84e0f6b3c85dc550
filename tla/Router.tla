------------------------------- MODULE Router -------------------------------
(***************************************************************************)
(* Routers (router.go) and the dispatch of one update through them (with   *)
(* dispatchCtx of bot.go).  A router is a list of registrations and of     *)
(* included routers, tried in order; a dispatch is a walk down and up the  *)
(* include graph, one step per route tried, with the call stack explicit.  *)
(* The request of a webhook has walked it before (firstMatchingRoute), to  *)
(* see how the update is to be dispatched.  Middleware of handlers (Use)   *)
(* is part of the handler here, and wiring ends before the first update:   *)
(* module Freezing is about registering later than that.                   *)
(***************************************************************************)
EXTENDS Naturals, Sequences, FiniteSets

CONSTANTS
  Routers,     \* routers
  Root,        \* the router given to TelegramBot.Dispatch
  Leaves,      \* registrations, each with its filters, flags and handler
  OuterRouters,\* bound: the routers that may get an outer middleware
  ErrorRouters,\* bound: the routers that may get an OnError
  MaxRoutes,   \* bound: routes in all routers together
  Nil          \* nothing

ASSUME RouterAssumption ==
  /\ IsFiniteSet(Routers) /\ Root \in Routers
  /\ OuterRouters \subseteq Routers /\ ErrorRouters \subseteq Routers
  /\ Routers \cap Leaves = {} /\ Nil \notin Routers \cup Leaves
  /\ \A S \in SUBSET Leaves : S # Nil

VARIABLES
  routes,   \* routes[r]: the registrations and included routers of r, in order
  onError,  \* routers that have an OnError
  wrapped,  \* routers that have an outer middleware
  ahead,    \* the routers firstMatchingRoute is in and the route each one is at, and
            \* in the end the place of the route it found, or <<>>
  foreseen, \* the registrations whose filters matched for it, or Nil if it never ran
  mode,     \* where the dispatch is: see Modes
  stack,    \* the routers being dispatched and the route each one is at
  matches,  \* the registrations whose filters match the update
  outer,    \* what each outer middleware does with the update: see Verdicts
  flags,    \* Ctx.routeFlags: the registration whose flags they are, or Nil
  res,      \* what the dispatch of a router, or a handler, returned
  tried,    \* history: the places (see Ends) where a registration was tried or an
            \* outer middleware settled the update, in order
  skipped,  \* history: a handler returned ErrSkipHandler
  raised,   \* history: the error or reply of the handler and the stack it came from
  caught    \* history: who was given it: a router, "bot", "sent", or Nil

tree     == <<routes, onError, wrapped>>
decision == <<ahead, foreseen>>
context  == <<matches, outer>>
history  == <<tried, skipped, raised, caught>>
dispatch == <<stack, context, flags, res, history>>
vars     == <<tree, decision, mode, dispatch>>

Modes    == {"wiring", "deciding", "decided", "aborted",
             "enter", "next", "run", "leave", "bot", "done"}
Verdicts == {"next", "handled", "failed", "declined"}
Errors   == {"nil", "error", "reply", "panic"}
Frames   == [router : Routers, at : Nat \ {0}]
Return(matched, err) == [matched |-> matched, err |-> err]

-----------------------------------------------------------------------------
(* The include graph *)

Elements(s) == {s[i] : i \in 1..Len(s)}
Subs(r)     == Elements(routes[r]) \cap Routers

Closed(S)     == \A r \in S : Subs(r) \subseteq S
Reaches(r, t) == \A S \in SUBSET Routers : r \in S /\ Closed(S) => t \in S
Below(r)      == {t \in Routers : Reaches(r, t)}

-----------------------------------------------------------------------------
(* Wiring, before the bot is started (see Freezing for what comes later)     *)

Size == LET Sum[S \in SUBSET Routers] ==
              IF S = {} THEN 0
              ELSE LET r == CHOOSE r \in S : TRUE IN Len(routes[r]) + Sum[S \ {r}]
        IN Sum[Routers]

AddRoute(r, x) ==
  /\ mode = "wiring"
  /\ Size < MaxRoutes
  /\ routes' = [routes EXCEPT ![r] = Append(@, x)]
  /\ UNCHANGED <<onError, wrapped, decision, mode, dispatch>>

(* The check looks at direct includes only *)
IncludeShallow(r, sub) == r # sub /\ r \notin Subs(sub) /\ AddRoute(r, sub)

Include(r, sub) == ~Reaches(sub, r) /\ AddRoute(r, sub)

Handle(r, leaf) ==
  /\ \A q \in Routers : leaf \notin Elements(routes[q])
  /\ AddRoute(r, leaf)

OnError(r) ==
  /\ mode = "wiring" /\ r \in ErrorRouters \ onError
  /\ onError' = onError \cup {r}
  /\ UNCHANGED <<routes, wrapped, decision, mode, dispatch>>

UseOuter(r) ==
  /\ mode = "wiring" /\ r \in OuterRouters \ wrapped
  /\ wrapped' = wrapped \cup {r}
  /\ UNCHANGED <<routes, onError, decision, mode, dispatch>>

Wire ==
  \E r \in Routers :
    \/ \E sub \in Routers : Include(r, sub)
    \/ \E leaf \in Leaves : Handle(r, leaf)
    \/ OnError(r)
    \/ UseOuter(r)

-----------------------------------------------------------------------------
(* Walks *)

Last(s)      == s[Len(s)]
RouteOf(s)   == routes[Last(s).router][Last(s).at]
HasNext(s)   == Last(s).at <= Len(routes[Last(s).router])
Advance(s)   == [s EXCEPT ![Len(s)].at = @ + 1]
Into(s, r)   == Append(s, [router |-> r, at |-> 1])
Up(s)        == SubSeq(s, 1, Len(s) - 1)

(* The registrations below the root, and the middlewares, that see the update *)
Registered == Leaves \cap UNION {Elements(routes[r]) : r \in Below(Root)}
Answers    == {v \in [OuterRouters -> Verdicts] :
                 \A r \in OuterRouters : r \notin wrapped \cap Below(Root) => v[r] = "next"}

-----------------------------------------------------------------------------
(* matchingAllowsWebhookReply: firstMatchingRoute walks the tree, evaluating *)
(* filters before any middleware has run.                                    *)

Decide ==
  /\ mode = "wiring"
  /\ mode' = "deciding"
  /\ ahead' = Into(<<>>, Root)
  /\ foreseen' \in SUBSET Registered
  /\ UNCHANGED <<tree, dispatch>>

LookInto ==
  /\ mode = "deciding" /\ HasNext(ahead) /\ RouteOf(ahead) \in Routers
  /\ ahead' = Into(ahead, RouteOf(ahead))
  /\ UNCHANGED <<tree, foreseen, mode, dispatch>>

LookAt ==
  /\ mode = "deciding" /\ HasNext(ahead) /\ RouteOf(ahead) \in Leaves
  /\ IF RouteOf(ahead) \in foreseen THEN mode' = "decided" /\ UNCHANGED ahead
                                    ELSE ahead' = Advance(ahead) /\ UNCHANGED mode
  /\ UNCHANGED <<tree, foreseen, dispatch>>

(* What an included router says is the answer, also when it found nothing *)
LookNoFurther ==
  /\ mode = "deciding" /\ ~HasNext(ahead)
  /\ ahead' = <<>>
  /\ mode' = "decided"
  /\ UNCHANGED <<tree, foreseen, dispatch>>

(* An included router has found nothing: its parent goes on after it.        *)
LookOn ==
  /\ mode = "deciding" /\ ~HasNext(ahead)
  /\ ahead' = IF Up(ahead) = <<>> THEN <<>> ELSE Advance(Up(ahead))
  /\ mode' = IF Up(ahead) = <<>> THEN "decided" ELSE "deciding"
  /\ UNCHANGED <<tree, foreseen, dispatch>>

(* A filter panics, which ends the request: nothing is dispatched.           *)
LookPanics ==
  /\ mode = "deciding" /\ HasNext(ahead) /\ RouteOf(ahead) \in Leaves
  /\ mode' = "aborted"
  /\ UNCHANGED <<tree, decision, dispatch>>

Look == Decide \/ LookInto \/ LookAt \/ LookOn \/ LookPanics

-----------------------------------------------------------------------------
(* Dispatch of one update *)

Top      == Last(stack)
AtRoute  == RouteOf(stack)
HasRoute == HasNext(stack)
Rest     == Advance(stack)
Enter(r) == Into(stack, r)

(* dispatchCtx calls the root router, in the goroutine of a worker or of the *)
(* request that has decided on it; the filters are evaluated once more.      *)
Dispatch ==
  /\ mode \in {"wiring", "decided"}
  /\ matches' \in SUBSET Registered
  /\ outer' \in Answers
  /\ stack' = Enter(Root)
  /\ mode' = "enter"
  /\ UNCHANGED <<tree, decision, flags, res, history>>

Verdict(r) == IF r \in OuterRouters THEN outer[r] ELSE "next"

(* dispatch: the outer middlewares call next, dispatchRoutes ... *)
CallNext ==
  /\ mode = "enter" /\ Verdict(Top.router) = "next"
  /\ mode' = "next"
  /\ UNCHANGED <<tree, decision, stack, context, flags, res, history>>

(* ... or one of them returns instead. *)
ShortCircuit ==
  /\ mode = "enter" /\ Verdict(Top.router) # "next"
  /\ mode' = "leave"
  /\ LET v == Verdict(Top.router) IN
     /\ res' = Return(v # "declined", IF v = "failed" THEN "error" ELSE "nil")
     /\ tried' = IF v = "declined" THEN tried
                 ELSE Append(tried, Up(stack))
     /\ raised' = IF v = "failed" THEN [err |-> "error", from |-> stack] ELSE raised
  /\ UNCHANGED <<tree, decision, stack, context, flags, skipped, caught>>

TrySub ==
  /\ mode = "next" /\ HasRoute /\ AtRoute \in Routers
  /\ stack' = Enter(AtRoute)
  /\ mode' = "enter"
  /\ UNCHANGED <<tree, decision, context, flags, res, history>>

TryLeaf ==
  /\ mode = "next" /\ HasRoute /\ AtRoute \in Leaves
  /\ tried' = Append(tried, stack)
  /\ IF AtRoute \in matches
       THEN mode' = "run" /\ flags' = AtRoute /\ UNCHANGED stack
       ELSE stack' = Rest /\ UNCHANGED <<mode, flags>>
  /\ UNCHANGED <<tree, decision, context, res, skipped, raised, caught>>

Exhausted ==
  /\ mode = "next" /\ ~HasRoute
  /\ mode' = "leave"
  /\ res' = Return(FALSE, "nil")
  /\ UNCHANGED <<tree, decision, stack, context, flags, history>>

(* The handler returns nil, an error or Reply(...) ... *)
HandlerReturns(err) ==
  /\ mode = "run" /\ err # "panic"
  /\ mode' = "leave"
  /\ res' = Return(TRUE, err)
  /\ raised' = IF err = "nil" THEN Nil ELSE [err |-> err, from |-> stack]
  /\ UNCHANGED <<tree, decision, stack, context, flags, tried, skipped, caught>>

(* ErrSkipHandler leaving the router, not only the registration *)
HandlerSkipsRouter ==
  /\ mode = "run"
  /\ mode' = "leave"
  /\ res' = Return(FALSE, "nil")
  /\ skipped' = TRUE
  /\ UNCHANGED <<tree, decision, stack, context, flags, tried, raised, caught>>

(* ... or ErrSkipHandler: the next route is tried ... *)
HandlerSkips ==
  /\ mode = "run"
  /\ mode' = "next"
  /\ stack' = Rest
  /\ skipped' = TRUE
  /\ UNCHANGED <<tree, decision, context, flags, res, tried, raised, caught>>

(* A filter or a handler panics: safeDispatch recovers above the whole tree. *)
MayPanic == mode = "run" \/ (mode = "next" /\ HasRoute /\ AtRoute \in Leaves)

Panics ==
  /\ MayPanic
  /\ mode' = "bot"
  /\ stack' = <<>>
  /\ res' = Return(TRUE, "panic")
  /\ raised' = [err |-> "panic", from |-> stack]
  /\ UNCHANGED <<tree, decision, context, flags, tried, skipped, caught>>

(* The parent goes on if nothing matched, else it returns as well.           *)
Resume ==
  /\ stack' = IF Up(stack) = <<>> \/ res.matched THEN Up(stack) ELSE Advance(Up(stack))
  /\ mode' = IF Len(stack) = 1 THEN "bot" ELSE IF res.matched THEN "leave" ELSE "next"

(* The error is shown to the root's OnError whoever else has one. *)
LeaveToRoot ==
  /\ mode = "leave"
  /\ Resume
  /\ LET r == IF stack[1].router \in onError THEN stack[1].router ELSE Top.router IN
     IF res.err # "nil" /\ r \in onError
       THEN res' = Return(res.matched, "nil") /\ caught' = r
       ELSE UNCHANGED <<res, caught>>
  /\ UNCHANGED <<tree, decision, context, flags, tried, skipped, raised>>

(* handleOrBubble on the way out of a router, then back to its parent.       *)
Leave ==
  /\ mode = "leave"
  /\ Resume
  /\ IF res.err # "nil" /\ Top.router \in onError
       THEN res' = Return(res.matched, "nil") /\ caught' = Top.router
       ELSE UNCHANGED <<res, caught>>
  /\ UNCHANGED <<tree, decision, context, flags, tried, skipped, raised>>

(* dispatchCtx: a Reply is embedded in the webhook's answer or sent as a     *)
(* call of its own (resolveWebhookReply), an error goes to handleError.      *)
Resolve ==
  /\ mode = "bot"
  /\ mode' = "done"
  /\ caught' = CASE ~res.matched \/ res.err = "nil" -> caught
                 [] res.err = "reply"               -> "sent"
                 [] OTHER                           -> "bot"
  /\ UNCHANGED <<tree, decision, stack, context, flags, res, tried, skipped, raised>>

Walk ==
  \/ CallNext \/ ShortCircuit \/ TrySub \/ TryLeaf \/ Exhausted
  \/ \E err \in Errors : HandlerReturns(err)
  \/ HandlerSkips \/ Panics \/ Leave \/ Resolve

-----------------------------------------------------------------------------

Init ==
  /\ routes = [r \in Routers |-> <<>>]
  /\ onError = {} /\ wrapped = {}
  /\ ahead = <<>> /\ foreseen = Nil
  /\ mode = "wiring" /\ stack = <<>>
  /\ matches = {} /\ outer = [r \in OuterRouters |-> "next"]
  /\ flags = Nil /\ res = Return(FALSE, "nil")
  /\ tried = <<>> /\ skipped = FALSE /\ raised = Nil /\ caught = Nil

Next == Wire \/ Look \/ Dispatch \/ Walk

Spec == Init /\ [][Next]_vars

-----------------------------------------------------------------------------
(* Properties *)

TypeOK ==
  /\ routes \in [Routers -> Seq(Routers \cup Leaves)]
  /\ onError \subseteq Routers /\ wrapped \subseteq OuterRouters
  /\ mode \in Modes
  /\ ahead \in Seq(Frames) /\ foreseen \in {Nil} \cup SUBSET Leaves
  /\ mode = "deciding" => ahead # <<>>
  /\ stack \in Seq(Frames)
  /\ mode \in {"enter", "next", "run", "leave"} <=> stack # <<>>
  /\ matches \subseteq Leaves /\ outer \in [OuterRouters -> Verdicts]
  /\ flags \in Leaves \cup {Nil}
  /\ res \in [matched : BOOLEAN, err : Errors]

(* No router is below itself (Include's comment), however the routers are    *)
(* wired: else a dispatch never ends.                                         *)
Acyclic == \A r \in Routers : \A s \in Subs(r) : ~Reaches(s, r)

(* A place in the tree is the way there from the root, as it is on the stack: *)
(* <<>> is the root itself.  It is an end if the dispatch can come there and *)
(* what is there may settle the update: a registration, or a router whose     *)
(* outer middleware does not call next.                                       *)
Positions == UNION {{[router |-> r, at |-> i] : i \in 1..Len(routes[r])} : r \in Routers}
RouteAt(p) == IF p = <<>> THEN Root ELSE routes[p[Len(p)].router][p[Len(p)].at]
Settles(x) == x \in Leaves \/ Verdict(x) \in {"handled", "failed"}

IsWay(p) ==
  /\ p # <<>> => p[1].router = Root
  /\ \A i \in 1..Len(p) : p[i].at <= Len(routes[p[i].router])
  /\ \A i \in 1..Len(p) - 1 : p[i + 1].router = routes[p[i].router][p[i].at]

IsPlace(p) == IsWay(p) /\ \A i \in 1..Len(p) : Verdict(p[i].router) = "next"

IsEnd(p) == IsPlace(p) /\ Settles(RouteAt(p))

(* A way meets no router twice, and none without routes.                      *)
Depth == Cardinality({r \in Routers : routes[r] # <<>>})
Ends  == {p \in UNION {[1..n -> Positions] : n \in 0..Depth} : IsEnd(p)}

(* Where the ways to p and q part, p takes the earlier route of the router.   *)
Before(p, q) ==
  \E i \in 1..Len(p) :
    /\ i <= Len(q) /\ p[i].router = q[i].router /\ p[i].at < q[i].at
    /\ \A j \in 1..i - 1 : p[j] = q[j]

Dispatched == mode \in {"enter", "next", "run", "leave", "bot", "done"}

(* Registration order is priority (comments on Router and Include):          *)
(* registrations are tried in the order of the tree, an included router's at *)
(* the point it was included; none is passed over, whatever handlers and     *)
(* outer middleware decline; nothing is tried after what settled the update, *)
(* and everything has been tried when nothing did.                           *)
RegistrationOrder ==
  Dispatched =>
    /\ \A i \in 1..Len(tried) :
         IsEnd(tried[i]) /\ \A j \in 1..i - 1 : Before(tried[j], tried[i])
    /\ tried # <<>> =>
         \A p \in Ends : Before(p, tried[Len(tried)]) => p \in Elements(tried)
    /\ \A i \in 1..Len(tried) - 1 :
         RouteAt(tried[i]) \in Leaves /\ (~skipped => RouteAt(tried[i]) \notin matches)
    /\ mode = "done" /\ ~res.matched => Ends \subseteq Elements(tried)

(* firstMatchingRoute "returns the leaf route that dispatch would run": if    *)
(* the filters say the same to both walks, the registration that runs is the *)
(* one by which the request has been decided on, and if it has found none    *)
(* none runs - unless an outer middleware keeps dispatch from it or a        *)
(* handler declined (comment on AllowWebhookReply).                          *)
SyncDecisionRight ==
  foreseen = matches /\ ~skipped /\ (\A r \in OuterRouters : outer[r] = "next") =>
    /\ mode = "run" => ahead = stack
    /\ mode = "done" /\ ~res.matched => ahead = <<>>

(* An error goes to exactly one place: the OnError of the innermost router   *)
(* around the handler that has one, else TelegramBot.OnError; a panic goes   *)
(* to the bot (the comment on Router.OnError).                               *)
ErrorGoesToInnermost ==
  mode = "done" /\ raised # Nil /\ raised.err # "reply" =>
    LET around == {i \in 1..Len(raised.from) : raised.from[i].router \in onError} IN
    caught = IF raised.err = "panic" \/ around = {} THEN "bot"
             ELSE raised.from[CHOOSE i \in around : \A j \in around : j <= i].router

(* Reply's comment (webhook_reply.go:71): whichever way the update was       *)
(* dispatched, "the call gets made".                                         *)
ReplyGetsMade == mode = "done" /\ raised # Nil /\ raised.err = "reply" => caught = "sent"
=============================================================================
