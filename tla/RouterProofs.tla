----------------------------- MODULE RouterProofs -----------------------------
(***************************************************************************)
(* Theorems about router.go for any number of routers and registrations:   *)
(* no wiring closes a cycle, an error reaches exactly the innermost error  *)
(* handler around its source, registrations are tried in the order of the  *)
(* tree, none left out, and the walk of firstMatchingRoute, which takes    *)
(* its own steps, comes to the registration that will run.                 *)
(***************************************************************************)
EXTENDS Router, FiniteSetTheorems, SequenceTheorems, WellFoundedInduction, TLAPS

(* An error that has been raised remembers where it came from.               *)
RaisedInv == raised # Nil => raised \in [err : Errors, from : Seq(Frames)]

(* Positions of the routers around the raising handler that have an OnError. *)
Around == {i \in 1..Len(raised.from) : raised.from[i].router \in onError}

(* An error is on its way out of the routers around its source, past none    *)
(* that has an OnError - or the innermost of these has had it.               *)
Bubbling ==
  /\ raised.err # "panic" /\ res.err = raised.err
  /\ Len(stack) <= Len(raised.from)
  /\ \A i \in 1..Len(stack) : stack[i].router = raised.from[i].router
  /\ \A i \in Around : i <= Len(stack)
  /\ mode = "done" /\ raised.err # "reply" => caught = "bot"

Caught ==
  /\ raised.err # "panic" /\ res.err = "nil"
  /\ \E i \in Around : caught = raised.from[i].router /\ \A j \in Around : j <= i

Recovered ==
  /\ raised.err = "panic" /\ res.err = "panic" /\ mode # "leave"
  /\ mode = "done" => caught = "bot"

ErrorInv ==
  raised # Nil =>
    /\ mode \in {"leave", "bot", "done"} /\ res.matched /\ raised.err # "nil"
    /\ Bubbling \/ Caught \/ Recovered

IndInv == TypeOK /\ RaisedInv /\ ErrorInv

-----------------------------------------------------------------------------
(* The include graph *)

(* Registering x on r adds x below r and changes no other router.            *)
LEMMA SubsOfAppend ==
  ASSUME NEW r \in Routers, NEW x \in Routers \cup Leaves, TypeOK,
         routes' = [routes EXCEPT ![r] = Append(@, x)]
  PROVE  /\ routes' \in [Routers -> Seq(Routers \cup Leaves)]
         /\ \A q \in Routers : Subs(q)' = IF q = r THEN Subs(q) \cup ({x} \cap Routers)
                                          ELSE Subs(q)
<1>. DEFINE s == routes[r]
<1>1. s \in Seq(Routers \cup Leaves)
  BY DEF TypeOK
<1>2. /\ Append(s, x) \in Seq(Routers \cup Leaves)
      /\ Len(Append(s, x)) = Len(s) + 1
      /\ \A i \in 1..Len(s) : Append(s, x)[i] = s[i]
      /\ Append(s, x)[Len(s) + 1] = x
  BY <1>1, AppendProperties
<1>3. Elements(Append(s, x)) = Elements(s) \cup {x}
  <2>1. Len(s) \in Nat
    BY <1>1, LenProperties
  <2>2. 1..Len(Append(s, x)) = (1..Len(s)) \cup {Len(s) + 1}
    BY <1>2, <2>1
  <2>. QED
    BY <1>2, <2>1, <2>2 DEF Elements
<1>4. routes' \in [Routers -> Seq(Routers \cup Leaves)]
  BY <1>2 DEF TypeOK
<1>5. routes'[r] = Append(s, x) /\ \A q \in Routers \ {r} : routes'[q] = routes[q]
  BY DEF TypeOK
<1>. QED
  BY <1>3, <1>4, <1>5 DEF Subs

(* Adding s below r closes no cycle when r was not below s.  The witnesses:  *)
(* T, what is closed, has s and not r; and S, the same for the edge at hand. *)
LEMMA EdgeKeepsAcyclic ==
  ASSUME NEW r \in Routers, NEW s \in Routers, Acyclic, ~Reaches(s, r),
         \A q \in Routers : Subs(q)' = IF q = r THEN Subs(q) \cup {s} ELSE Subs(q)
  PROVE  Acyclic'
<1>. PICK T \in SUBSET Routers : s \in T /\ Closed(T) /\ r \notin T
  BY DEF Reaches
<1>. SUFFICES ASSUME NEW v \in Routers, NEW w \in Subs(v)'
              PROVE  ~Reaches(w, v)'
  BY DEF Acyclic
<1>1. \A S \in SUBSET Routers : Closed(S) /\ (r \in S => s \in S) => Closed(S)'
  BY DEF Closed
<1>2. CASE v = r /\ w = s
  <2>1. Closed(T)'
    BY <1>1
  <2>. QED
    BY <1>2, <2>1 DEF Reaches
<1>3. CASE w \in Subs(v)
  <2>. PICK S \in SUBSET Routers : w \in S /\ Closed(S) /\ v \notin S
    BY <1>3 DEF Acyclic, Reaches
  <2>1. CASE v \in T
    <3>1. w \in S \cap T /\ v \notin S \cap T /\ r \notin S \cap T
      BY <1>3, <2>1 DEF Closed
    <3>2. Closed(S \cap T)
      BY DEF Closed
    <3>3. Closed(S \cap T)'
      BY <1>1, <3>1, <3>2
    <3>. QED
      BY <3>1, <3>3 DEF Reaches
  <2>2. CASE v \notin T
    <3>1. w \in S \cup T /\ v \notin S \cup T /\ s \in S \cup T
      BY <2>2
    <3>2. Closed(S \cup T)
      BY DEF Closed
    <3>3. Closed(S \cup T)'
      BY <1>1, <3>1, <3>2
    <3>. QED
      BY <3>1, <3>3 DEF Reaches
  <2>. QED
    BY <2>1, <2>2
<1>. QED
  BY <1>2, <1>3

(* Acyclic speaks of the include graph only.                                 *)
LEMMA SameGraphAcyclic ==
  ASSUME Acyclic, \A q \in Routers : Subs(q)' = Subs(q)
  PROVE  Acyclic'
<1>1. \A S \in SUBSET Routers : Closed(S)' <=> Closed(S)
  BY DEF Closed
<1>2. \A q, t \in Routers : Reaches(q, t)' <=> Reaches(q, t)
  BY <1>1 DEF Reaches
<1>3. \A q \in Routers : Subs(q) \subseteq Routers
  BY DEF Subs
<1>. QED
  BY <1>2, <1>3 DEF Acyclic

-----------------------------------------------------------------------------
(* Types *)

LEMMA InitInd == Init => IndInv /\ Acyclic
<1>. SUFFICES ASSUME Init PROVE IndInv /\ Acyclic
  OBVIOUS
<1>1. stack = <<>> /\ Len(stack) = 0 /\ <<>> \in Seq(Frames) /\ <<>> \in Seq(Routers \cup Leaves)
  BY EmptySeq DEF Init
<1>2. TypeOK
  BY <1>1 DEF Init, TypeOK, Modes, Errors, Verdicts, Return
<1>3. RaisedInv /\ ErrorInv
  BY DEF Init, RaisedInv, ErrorInv
<1>4. Acyclic
  BY DEF Init, Acyclic, Subs, Elements
<1>. QED
  BY <1>2, <1>3, <1>4 DEF IndInv

(* What the proofs below use of TypeOK about a walk, and about the stack.    *)
LEMMA WalkTypes ==
  ASSUME TypeOK, NEW s \in Seq(Frames), s # <<>>
  PROVE  /\ Len(s) \in Nat \ {0} /\ Last(s) = s[Len(s)] /\ Last(s) \in Frames
         /\ routes[Last(s).router] \in Seq(Routers \cup Leaves)
<1>1. Len(s) \in Nat \ {0}
  BY EmptySeq
<1>2. Last(s) \in Frames
  BY <1>1, ElementOfSeq DEF Last
<1>. QED
  BY <1>1, <1>2 DEF Last, TypeOK, Frames

LEMMA StackTypes ==
  ASSUME TypeOK, stack # <<>>
  PROVE  /\ stack \in Seq(Frames) /\ Len(stack) \in Nat \ {0}
         /\ Top = stack[Len(stack)] /\ Top \in Frames
         /\ routes[Top.router] \in Seq(Routers \cup Leaves)
<1>1. stack \in Seq(Frames)
  BY DEF TypeOK
<1>. QED
  BY <1>1, WalkTypes DEF Top, Last

(* A route that there is, is a registration or a router.                     *)
LEMMA RouteTypes ==
  ASSUME TypeOK, NEW s \in Seq(Frames), s # <<>>, HasNext(s)
  PROVE  RouteOf(s) \in Routers \cup Leaves
<1>. DEFINE l == routes[Last(s).router]
<1>1. Last(s) \in Frames /\ l \in Seq(Routers \cup Leaves)
  BY WalkTypes
<1>2. Len(l) \in Nat /\ Last(s).at \in 1..Len(l)
  BY <1>1, LenProperties DEF Frames, HasNext
<1>. QED
  BY <1>1, <1>2, ElementOfSeq DEF RouteOf

(* Calling into a router, going on to the next route, and returning.         *)
LEMMA IntoTypes ==
  ASSUME NEW s \in Seq(Frames), NEW r \in Routers
  PROVE  /\ Into(s, r) \in Seq(Frames) /\ Into(s, r) # <<>>
         /\ Len(s) \in Nat /\ Len(Into(s, r)) = Len(s) + 1
         /\ \A i \in 1..Len(s) : Into(s, r)[i] = s[i]
         /\ Into(s, r)[Len(s) + 1].router = r /\ Into(s, r)[Len(s) + 1].at = 1
<1>1. [router |-> r, at |-> 1] \in Frames
  BY DEF Frames
<1>. QED
  BY <1>1, AppendProperties, LenProperties DEF Into

LEMMA EnterTypes ==
  ASSUME TypeOK, NEW r \in Routers
  PROVE  /\ Enter(r) \in Seq(Frames) /\ Enter(r) # <<>>
         /\ Len(stack) \in Nat /\ Len(Enter(r)) = Len(stack) + 1
         /\ \A i \in 1..Len(stack) : Enter(r)[i] = stack[i]
         /\ Enter(r)[Len(stack) + 1].router = r /\ Enter(r)[Len(stack) + 1].at = 1
<1>1. stack \in Seq(Frames)
  BY DEF TypeOK
<1>. QED
  BY <1>1, IntoTypes DEF Enter, Into

LEMMA AdvanceTypes ==
  ASSUME TypeOK, NEW s \in Seq(Frames), s # <<>>
  PROVE  /\ Advance(s) \in Seq(Frames) /\ Advance(s) # <<>> /\ Len(Advance(s)) = Len(s)
         /\ \A i \in 1..Len(s) : Advance(s)[i].router = s[i].router
         /\ \A i \in 1..Len(s) - 1 : Advance(s)[i] = s[i]
         /\ Advance(s)[Len(s)].at = s[Len(s)].at + 1
<1>. DEFINE f == [s[Len(s)] EXCEPT !.at = @ + 1]
            t == Advance(s)
<1>1. Len(s) \in Nat \ {0} /\ s[Len(s)] \in Frames
  BY WalkTypes
<1>2. f \in Frames /\ f.router = s[Len(s)].router /\ f.at = s[Len(s)].at + 1
  BY <1>1 DEF Frames
<1>3. t = [s EXCEPT ![Len(s)] = f]
  BY <1>1 DEF Advance
<1>4. t \in Seq(Frames) /\ Len(t) = Len(s)
      /\ \A j \in 1..Len(s) : t[j] = IF j = Len(s) THEN f ELSE s[j]
  <2>1. Len(s) \in 1..Len(s)
    BY <1>1
  <2>. HIDE DEF f, t
  <2>. QED
    BY <1>1, <1>2, <1>3, <2>1, ExceptSeq
<1>. HIDE DEF t
<1>5. t # <<>>
  BY <1>1, <1>4, EmptySeq
<1>6. \A i \in 1..Len(s) : t[i].router = s[i].router
  BY <1>1, <1>2, <1>4
<1>7. \A i \in 1..Len(s) - 1 : t[i] = s[i]
  <2>1. \A i \in 1..Len(s) - 1 : i \in 1..Len(s) /\ i # Len(s)
    BY <1>1
  <2>. QED
    BY <1>4, <2>1
<1>. HIDE DEF f
<1>8. t[Len(s)].at = s[Len(s)].at + 1
  <2>1. Len(s) \in 1..Len(s)
    BY <1>1
  <2>. QED
    BY <1>2, <1>4, <2>1
<1>. QED
  BY <1>4, <1>5, <1>6, <1>7, <1>8 DEF t

LEMMA RestTypes ==
  ASSUME TypeOK, stack # <<>>
  PROVE  /\ Rest \in Seq(Frames) /\ Rest # <<>> /\ Len(Rest) = Len(stack)
         /\ \A i \in 1..Len(stack) : Rest[i].router = stack[i].router
         /\ \A i \in 1..Len(stack) - 1 : Rest[i] = stack[i]
         /\ Rest[Len(stack)].at = stack[Len(stack)].at + 1
<1>1. stack \in Seq(Frames)
  BY DEF TypeOK
<1>. QED
  BY <1>1, AdvanceTypes DEF Rest, Advance

LEMMA UpTypes ==
  ASSUME TypeOK, NEW s \in Seq(Frames), s # <<>>
  PROVE  /\ Up(s) \in Seq(Frames) /\ Len(Up(s)) = Len(s) - 1
         /\ \A i \in 1..Len(Up(s)) : Up(s)[i] = s[i]
         /\ Up(s) = <<>> <=> Len(s) = 1
<1>. DEFINE up == SubSeq(s, 1, Len(s) - 1)
<1>1. Len(s) \in Nat \ {0}
  BY WalkTypes
<1>2. \A i \in 1..Len(s) - 1 : s[i] \in Frames
  BY <1>1, ElementOfSeq
<1>3. 1 \in Int /\ Len(s) - 1 \in Int
  BY <1>1
<1>4. up \in Seq(Frames)
  BY <1>2, <1>3, SubSeqProperties
<1>5. Len(up) = IF 1 <= Len(s) - 1 THEN Len(s) - 1 - 1 + 1 ELSE 0
  BY <1>2, <1>3, SubSeqProperties
<1>6. \A i \in 1..Len(s) - 1 - 1 + 1 : up[i] = s[1 + i - 1]
  BY <1>2, <1>3, SubSeqProperties
<1>7. Up(s) = up
  BY DEF Up
<1>. HIDE DEF up
<1>8. Len(up) = Len(s) - 1
  <2>. DEFINE n == Len(s)
  <2>1. n \in Nat /\ n >= 1 /\ Len(up) = IF 1 <= n - 1 THEN n - 1 - 1 + 1 ELSE 0
    BY <1>1, <1>5
  <2>. HIDE DEF n
  <2>2. Len(up) = n - 1
    BY <2>1
  <2>. QED
    BY <2>2 DEF n
<1>9. ASSUME NEW i \in 1..Len(up) PROVE up[i] = s[i]
  <2>1. i \in 1..Len(s) - 1 - 1 + 1 /\ 1 + i - 1 = i
    BY <1>1, <1>8
  <2>. QED
    BY <1>6, <2>1
<1>10. up = <<>> <=> Len(s) = 1
  BY <1>1, <1>4, <1>8, EmptySeq
<1>. QED
  BY <1>4, <1>7, <1>8, <1>9, <1>10

LEMMA ResumeTypes ==
  ASSUME TypeOK, mode = "leave", Resume
  PROVE  /\ stack' \in Seq(Frames)
         /\ Len(stack) \in Nat \ {0} /\ Len(stack') = Len(stack) - 1
         /\ \A i \in 1..Len(stack') : stack'[i].router = stack[i].router
         /\ \A i \in 1..Len(stack') :
              i < Len(stack') \/ res.matched => stack'[i] = stack[i]
         /\ ~res.matched /\ stack' # <<>> =>
              stack'[Len(stack')].at = stack[Len(stack')].at + 1
         /\ mode' = IF stack' = <<>> THEN "bot" ELSE IF res.matched THEN "leave" ELSE "next"
<1>. DEFINE up == Up(stack)
<1>1. stack \in Seq(Frames) /\ stack # <<>> /\ Len(stack) \in Nat \ {0}
  BY StackTypes DEF TypeOK
<1>2. /\ up \in Seq(Frames) /\ Len(up) = Len(stack) - 1
      /\ \A i \in 1..Len(up) : up[i] = stack[i]
      /\ up = <<>> <=> Len(stack) = 1
  BY <1>1, UpTypes
<1>. HIDE DEF up
<1>3. CASE up = <<>> \/ res.matched
  <2>1. stack' = up
    BY <1>3 DEF Resume, up
  <2>. QED
    BY <1>1, <1>2, <1>3, <2>1 DEF Resume
<1>4. CASE up # <<>> /\ ~res.matched
  <2>1. stack' = Advance(up)
    BY <1>4 DEF Resume, up
  <2>2. /\ stack' \in Seq(Frames) /\ Len(stack') = Len(up) /\ stack' # <<>>
        /\ \A i \in 1..Len(up) : stack'[i].router = up[i].router
        /\ \A i \in 1..Len(up) - 1 : stack'[i] = up[i]
        /\ stack'[Len(up)].at = up[Len(up)].at + 1
    BY <1>2, <1>4, <2>1, AdvanceTypes
  <2>3. Len(up) \in Nat \ {0} /\ Len(up) \in 1..Len(up)
    BY <1>1, <1>2, <1>4
  <2>4. \A i \in 1..Len(stack') : i < Len(stack') => stack'[i] = stack[i]
    <3>1. \A i \in 1..Len(stack') : i < Len(stack') => i \in 1..Len(up) - 1 /\ i \in 1..Len(up)
      BY <2>2, <2>3
    <3>. QED
      BY <1>2, <2>2, <3>1
  <2>5. stack'[Len(stack')].at = stack[Len(stack')].at + 1
    BY <1>2, <2>2, <2>3
  <2>. QED
    BY <1>1, <1>2, <1>4, <2>2, <2>4, <2>5 DEF Resume
<1>. QED
  BY <1>3, <1>4

-----------------------------------------------------------------------------
(* What a step that leaves most things alone preserves. *)

LEMMA RaisedKept ==
  ASSUME RaisedInv, raised' = raised
  PROVE  RaisedInv'
BY DEF RaisedInv

(* Nothing has been raised before a handler or a middleware has returned.    *)
LEMMA NothingRaised ==
  ASSUME ErrorInv, mode \notin {"leave", "bot", "done"}
  PROVE  raised = Nil
BY DEF ErrorInv

LEMMA QuietKept ==
  ASSUME ErrorInv, mode \notin {"leave", "bot", "done"}, raised' = raised
  PROVE  ErrorInv'
<1>1. raised' = Nil
  BY NothingRaised
<1>. QED
  BY <1>1 DEF ErrorInv

-----------------------------------------------------------------------------
(* Each step preserves the invariants. *)

LEMMA AddRouteInd ==
  ASSUME IndInv, NEW r \in Routers, NEW x \in Routers \cup Leaves, AddRoute(r, x)
  PROVE  IndInv'
<1>1. routes' \in [Routers -> Seq(Routers \cup Leaves)]
  BY SubsOfAppend DEF IndInv, AddRoute
<1>2. TypeOK'
  BY <1>1 DEF IndInv, TypeOK, AddRoute, decision, dispatch, context, history
<1>. QED
  BY <1>2, RaisedKept, QuietKept DEF IndInv, AddRoute, dispatch, history

LEMMA OnErrorInd ==
  ASSUME IndInv, NEW r \in Routers, OnError(r)
  PROVE  IndInv'
<1>1. TypeOK'
  BY DEF IndInv, TypeOK, OnError, decision, dispatch, context, history
<1>. QED
  BY <1>1, RaisedKept, QuietKept DEF IndInv, OnError, dispatch, history

LEMMA UseOuterInd ==
  ASSUME IndInv, NEW r \in Routers, UseOuter(r)
  PROVE  IndInv'
<1>1. TypeOK'
  BY DEF IndInv, TypeOK, UseOuter, decision, dispatch, context, history
<1>. QED
  BY <1>1, RaisedKept, QuietKept DEF IndInv, UseOuter, dispatch, history

(* The walk ahead touches no more than itself.                               *)
LEMMA LookKept ==
  ASSUME IndInv, UNCHANGED <<tree, dispatch>>, mode' \in Modes,
         mode \in {"wiring", "deciding"}, mode' \in {"deciding", "decided", "aborted"},
         ahead' \in Seq(Frames), foreseen' \in {Nil} \cup SUBSET Leaves,
         mode' = "deciding" => ahead' # <<>>
  PROVE  IndInv'
<1>1. TypeOK'
  BY DEF IndInv, TypeOK, tree, dispatch, context
<1>. QED
  BY <1>1, RaisedKept, QuietKept DEF IndInv, dispatch, history

LEMMA LookInd ==
  ASSUME IndInv, Look
  PROVE  IndInv'
<1>. USE DEF IndInv
<1>1. ahead \in Seq(Frames) /\ foreseen \in {Nil} \cup SUBSET Leaves
      /\ (mode = "deciding" => ahead # <<>>)
  BY DEF TypeOK
<1>2. CASE Decide
  <2>1. ahead' \in Seq(Frames) /\ ahead' # <<>>
    BY <1>2, EmptySeq, IntoTypes, RouterAssumption DEF Decide
  <2>. QED
    BY <1>2, <2>1, LookKept DEF Decide, Modes, Registered
<1>3. CASE LookInto
  <2>1. ahead' \in Seq(Frames) /\ ahead' # <<>>
    BY <1>1, <1>3, IntoTypes DEF LookInto
  <2>. QED
    BY <1>1, <1>3, <2>1, LookKept DEF LookInto, Modes
<1>4. CASE LookAt
  <2>1. Advance(ahead) \in Seq(Frames) /\ Advance(ahead) # <<>>
    BY <1>1, <1>4, AdvanceTypes DEF LookAt
  <2>. QED
    BY <1>1, <1>4, <2>1, LookKept DEF LookAt, Modes
<1>5. CASE LookOn
  <2>1. Up(ahead) \in Seq(Frames)
    BY <1>1, <1>5, UpTypes DEF LookOn
  <2>2. Up(ahead) # <<>> => Advance(Up(ahead)) \in Seq(Frames) /\ Advance(Up(ahead)) # <<>>
    BY <2>1, AdvanceTypes
  <2>3. /\ ahead' \in Seq(Frames) /\ (mode' = "deciding" => ahead' # <<>>)
        /\ mode' \in {"deciding", "decided"}
    BY <1>5, <2>1, <2>2, EmptySeq DEF LookOn
  <2>. QED
    BY <1>1, <1>5, <2>3, LookKept DEF LookOn, Modes
<1>6. CASE LookPanics
  BY <1>1, <1>6, LookKept DEF LookPanics, decision, Modes
<1>. QED
  BY <1>2, <1>3, <1>4, <1>5, <1>6 DEF Look

LEMMA DispatchInd ==
  ASSUME IndInv, Dispatch
  PROVE  IndInv'
<1>. USE DEF IndInv
<1>1. stack' \in Seq(Frames) /\ stack' # <<>>
  BY EnterTypes, RouterAssumption DEF Dispatch
<1>2. TypeOK'
  <2>1. matches' \subseteq Leaves /\ outer' \in [OuterRouters -> Verdicts]
    BY DEF Dispatch, Registered, Answers
  <2>. QED
    BY <1>1, <2>1 DEF TypeOK, Dispatch, Modes, tree, decision
<1>. QED
  BY <1>2, RaisedKept, QuietKept DEF Dispatch, history

LEMMA CallNextInd ==
  ASSUME IndInv, CallNext
  PROVE  IndInv'
<1>1. TypeOK'
  BY DEF IndInv, TypeOK, CallNext, tree, context, history, Modes, decision
<1>. QED
  BY <1>1, RaisedKept, QuietKept DEF IndInv, CallNext, history

LEMMA TrySubInd ==
  ASSUME IndInv, TrySub
  PROVE  IndInv'
<1>. USE DEF IndInv
<1>1. stack' \in Seq(Frames) /\ stack' # <<>>
  BY EnterTypes DEF TrySub
<1>2. TypeOK'
  BY <1>1 DEF TypeOK, TrySub, tree, context, history, Modes, decision
<1>. QED
  BY <1>2, RaisedKept, QuietKept DEF TrySub, history

LEMMA TryLeafInd ==
  ASSUME IndInv, TryLeaf
  PROVE  IndInv'
<1>. USE DEF IndInv
<1>1. Rest \in Seq(Frames) /\ Rest # <<>> /\ stack # <<>>
  BY RestTypes DEF TryLeaf, TypeOK
<1>2. TypeOK'
  BY <1>1 DEF TypeOK, TryLeaf, tree, context, Modes, decision
<1>. QED
  BY <1>2, RaisedKept, QuietKept DEF TryLeaf

LEMMA HandlerSkipsInd ==
  ASSUME IndInv, HandlerSkips
  PROVE  IndInv'
<1>. USE DEF IndInv
<1>1. Rest \in Seq(Frames) /\ Rest # <<>>
  BY RestTypes DEF HandlerSkips, TypeOK
<1>2. TypeOK'
  BY <1>1 DEF TypeOK, HandlerSkips, tree, context, Modes, decision
<1>. QED
  BY <1>2, RaisedKept, QuietKept DEF HandlerSkips

LEMMA ExhaustedInd ==
  ASSUME IndInv, Exhausted
  PROVE  IndInv'
<1>1. TypeOK'
  BY DEF IndInv, TypeOK, Exhausted, tree, context, history, Modes, Return, Errors, decision
<1>. QED
  BY <1>1, RaisedKept, QuietKept DEF IndInv, Exhausted, history

(* Raising an error: its source is the stack as it is.                       *)
LEMMA RaisedHere ==
  ASSUME TypeOK, NEW e \in Errors, raised' = [err |-> e, from |-> stack]
  PROVE  RaisedInv'
BY DEF TypeOK, RaisedInv

(* An error that has just been raised is bubbling.                           *)
LEMMA BubblingHere ==
  ASSUME TypeOK, stack # <<>>, NEW e \in Errors \ {"nil", "panic"},
         raised' = [err |-> e, from |-> stack], stack' = stack,
         mode' = "leave", res' = Return(TRUE, e), onError' = onError
  PROVE  ErrorInv'
<1>1. Len(stack) \in Nat
  BY StackTypes
<1>2. raised'.err = e /\ raised'.from = stack /\ res'.err = e /\ res'.matched
  BY DEF Return
<1>3. Bubbling'
  <2>1. \A i \in Around' : i <= Len(stack')
    BY <1>1, <1>2 DEF Around
  <2>2. raised'.err # "panic" /\ res'.err = raised'.err /\ mode' # "done"
    BY <1>2
  <2>3. /\ Len(stack') <= Len(raised'.from)
        /\ \A i \in 1..Len(stack') : stack'[i].router = raised'.from[i].router
    BY <1>1, <1>2
  <2>. QED
    BY <2>1, <2>2, <2>3 DEF Bubbling
<1>. QED
  BY <1>2, <1>3 DEF ErrorInv

LEMMA ShortCircuitInd ==
  ASSUME IndInv, ShortCircuit
  PROVE  IndInv'
<1>. USE DEF IndInv
<1>. DEFINE v == Verdict(Top.router)
<1>1. stack # <<>> /\ UNCHANGED <<stack, onError>>
  BY DEF ShortCircuit, TypeOK, tree, decision
<1>2. TypeOK'
  BY DEF TypeOK, ShortCircuit, tree, context, Modes, Return, Errors, decision
<1>3. CASE v = "failed"
  <2>1. /\ raised' = [err |-> "error", from |-> stack]
        /\ res' = Return(TRUE, "error") /\ mode' = "leave"
    BY <1>3 DEF ShortCircuit
  <2>2. "error" \in Errors \ {"nil", "panic"}
    BY DEF Errors
  <2>3. RaisedInv'
    BY <2>1, <2>2, RaisedHere
  <2>4. ErrorInv'
    BY <1>1, <2>1, <2>2, BubblingHere
  <2>. QED
    BY <1>2, <2>3, <2>4
<1>4. CASE v # "failed"
  <2>1. raised' = raised
    BY <1>4 DEF ShortCircuit
  <2>. QED
    BY <1>2, <2>1, RaisedKept, QuietKept DEF ShortCircuit
<1>. QED
  BY <1>3, <1>4

LEMMA HandlerReturnsInd ==
  ASSUME IndInv, NEW err \in Errors, HandlerReturns(err)
  PROVE  IndInv'
<1>. USE DEF IndInv
<1>1. stack # <<>> /\ UNCHANGED <<stack, onError>>
  BY DEF HandlerReturns, TypeOK, tree, decision
<1>2. TypeOK'
  BY DEF TypeOK, HandlerReturns, tree, context, Modes, Return, decision
<1>3. CASE err # "nil"
  <2>1. raised' = [err |-> err, from |-> stack] /\ res' = Return(TRUE, err) /\ mode' = "leave"
        /\ err \in Errors \ {"nil", "panic"}
    BY <1>3 DEF HandlerReturns
  <2>2. RaisedInv'
    BY <2>1, RaisedHere
  <2>3. ErrorInv'
    BY <1>1, <2>1, BubblingHere
  <2>. QED
    BY <1>2, <2>2, <2>3
<1>4. CASE err = "nil"
  <2>1. raised' = Nil
    BY <1>4 DEF HandlerReturns
  <2>. QED
    BY <1>2, <2>1 DEF RaisedInv, ErrorInv
<1>. QED
  BY <1>3, <1>4

LEMMA PanicsInd ==
  ASSUME IndInv, Panics
  PROVE  IndInv'
<1>. USE DEF IndInv
<1>1. mode \in {"next", "run"}
  BY DEF Panics, MayPanic
<1>2. stack' = <<>> /\ stack' \in Seq(Frames)
  BY EmptySeq DEF Panics
<1>3. /\ raised' = [err |-> "panic", from |-> stack] /\ res' = Return(TRUE, "panic")
      /\ mode' = "bot" /\ "panic" \in Errors
  BY DEF Panics, Errors
<1>4. TypeOK'
  BY <1>2 DEF TypeOK, Panics, tree, context, Modes, Return, Errors, decision
<1>5. RaisedInv'
  BY <1>3, RaisedHere
<1>6. ErrorInv'
  BY <1>3 DEF ErrorInv, Recovered, Return
<1>. QED
  BY <1>4, <1>5, <1>6

(* Leaving a router: an error passes it, or its OnError - the innermost,     *)
(* since all that were inside it had none - has it.                          *)
LEMMA LeaveInd ==
  ASSUME IndInv, Leave
  PROVE  IndInv'
<1>. USE DEF IndInv
<1>1. /\ mode = "leave" /\ stack # <<>> /\ UNCHANGED <<onError, raised>>
      /\ Top \in Frames /\ Top = stack[Len(stack)]
  BY StackTypes DEF Leave, TypeOK, tree, decision
<1>2. /\ stack' \in Seq(Frames)
      /\ Len(stack) \in Nat \ {0} /\ Len(stack') = Len(stack) - 1
      /\ \A i \in 1..Len(stack') : stack'[i].router = stack[i].router
      /\ mode' \in {"bot", "leave", "next"} /\ (mode' = "bot" <=> stack' = <<>>)
      /\ res.matched => mode' # "next"
  BY ResumeTypes DEF Leave
<1>. DEFINE caughtHere == res.err # "nil" /\ Top.router \in onError
<1>3. IF caughtHere THEN res' = Return(res.matched, "nil") /\ caught' = Top.router
                    ELSE UNCHANGED <<res, caught>>
  BY DEF Leave
<1>4. TypeOK'
  <2>1. res' \in [matched : BOOLEAN, err : Errors]
    BY <1>3 DEF TypeOK, Return, Errors
  <2>2. mode' \in Modes /\ (mode' \in {"enter", "next", "run", "leave"} <=> stack' # <<>>)
    BY <1>2 DEF Modes
  <2>. QED
    BY <1>2, <2>1, <2>2 DEF TypeOK, Leave, tree, context, decision
<1>5. RaisedInv'
  BY <1>1, RaisedKept
<1>6. ErrorInv'
  <2>. SUFFICES ASSUME raised # Nil PROVE ErrorInv'
    BY <1>1 DEF ErrorInv
  <2>1. res.matched /\ res'.matched /\ raised.err # "nil" /\ mode' \in {"leave", "bot"}
        /\ (Bubbling \/ Caught)
    BY <1>1, <1>2, <1>3 DEF ErrorInv, Recovered, Return
  <2>2. Len(raised.from) \in Nat
    BY LenProperties DEF RaisedInv
  <2>3. Around' = Around
    BY <1>1 DEF Around
  <2>4. CASE Bubbling /\ caughtHere
    <3>1. Len(stack) \in Around /\ caught' = raised.from[Len(stack)].router
      BY <1>1, <1>2, <1>3, <2>2, <2>4 DEF Bubbling, Around
    <3>2. \A j \in Around : j <= Len(stack)
      BY <2>4 DEF Bubbling
    <3>3. res'.err = "nil" /\ raised'.err # "panic"
      BY <1>1, <1>3, <2>4 DEF Return, Bubbling
    <3>4. Caught'
      BY <1>1, <2>3, <3>1, <3>2, <3>3 DEF Caught
    <3>. QED
      BY <1>1, <2>1, <3>4 DEF ErrorInv
  <2>5. CASE Bubbling /\ ~caughtHere
    <3>1. Top.router \notin onError /\ UNCHANGED <<res, caught>>
      BY <1>3, <2>1, <2>5 DEF Bubbling
    <3>2. \A i \in Around : i <= Len(stack')
      <4>1. Len(stack) \notin Around
        BY <1>1, <1>2, <2>5, <3>1 DEF Bubbling, Around
      <4>. QED
        BY <1>2, <2>2, <2>5, <4>1 DEF Bubbling, Around
    <3>3. \A i \in 1..Len(stack') : stack'[i].router = raised.from[i].router
      BY <1>2, <2>5 DEF Bubbling
    <3>4. Len(stack') <= Len(raised.from)
      BY <1>2, <2>2, <2>5 DEF Bubbling
    <3>5. Bubbling'
      BY <1>1, <2>1, <2>3, <2>5, <3>1, <3>2, <3>3, <3>4 DEF Bubbling
    <3>. QED
      BY <1>1, <2>1, <3>5 DEF ErrorInv
  <2>6. CASE Caught
    <3>1. UNCHANGED <<res, caught>>
      BY <1>3, <2>6 DEF Caught
    <3>2. Caught'
      BY <1>1, <2>3, <2>6, <3>1 DEF Caught
    <3>. QED
      BY <1>1, <2>1, <3>2 DEF ErrorInv
  <2>. QED
    BY <2>1, <2>4, <2>5, <2>6
<1>. QED
  BY <1>4, <1>5, <1>6

LEMMA ResolveInd ==
  ASSUME IndInv, Resolve
  PROVE  IndInv'
<1>. USE DEF IndInv
<1>1. mode = "bot" /\ mode' = "done" /\ UNCHANGED <<tree, stack, res, raised>>
  BY DEF Resolve
<1>2. TypeOK'
  BY DEF TypeOK, Resolve, tree, context, Modes, decision
<1>3. ErrorInv'
  <2>. SUFFICES ASSUME raised # Nil PROVE ErrorInv'
    BY <1>1 DEF ErrorInv
  <2>1. Around' = Around
    BY <1>1 DEF Around, tree
  <2>2. res.matched /\ raised.err # "nil"
    BY <1>1 DEF ErrorInv
  <2>3. Bubbling => Bubbling'
    BY <1>1, <2>1, <2>2 DEF Bubbling, Resolve
  <2>4. Caught => Caught'
    BY <1>1, <2>1, <2>2 DEF Caught, Resolve
  <2>5. Recovered => Recovered'
    BY <1>1, <2>2 DEF Recovered, Resolve
  <2>. QED
    BY <1>1, <2>2, <2>3, <2>4, <2>5 DEF ErrorInv
<1>. QED
  BY <1>1, <1>2, <1>3, RaisedKept

LEMMA NextInd ==
  ASSUME IndInv, [Next]_vars
  PROVE  IndInv'
<1>1. CASE UNCHANGED vars
  BY <1>1 DEF IndInv, TypeOK, RaisedInv, ErrorInv, Bubbling, Caught, Recovered, Around,
     vars, tree, decision, dispatch, context, history
<1>2. ASSUME NEW r \in Routers, NEW sub \in Routers, Include(r, sub)
      PROVE  IndInv'
  BY <1>2, AddRouteInd DEF Include
<1>3. ASSUME NEW r \in Routers, NEW leaf \in Leaves, Handle(r, leaf)
      PROVE  IndInv'
  BY <1>3, AddRouteInd DEF Handle
<1>4. ASSUME NEW r \in Routers, OnError(r) \/ UseOuter(r)
      PROVE  IndInv'
  BY <1>4, OnErrorInd, UseOuterInd
<1>5. CASE Walk
  BY <1>5, CallNextInd, ShortCircuitInd, TrySubInd, TryLeafInd, ExhaustedInd,
     HandlerReturnsInd, HandlerSkipsInd, PanicsInd, LeaveInd, ResolveInd DEF Walk
<1>. QED
  BY <1>1, <1>2, <1>3, <1>4, <1>5, LookInd, DispatchInd DEF Next, Wire

LEMMA NextAcyclic ==
  ASSUME TypeOK, Acyclic, [Next]_vars
  PROVE  Acyclic'
<1>1. ASSUME NEW r \in Routers, NEW sub \in Routers, Include(r, sub)
      PROVE  Acyclic'
  <2>1. \A q \in Routers : Subs(q)' = IF q = r THEN Subs(q) \cup {sub} ELSE Subs(q)
    <3>1. sub \in Routers \cup Leaves /\ {sub} \cap Routers = {sub}
      OBVIOUS
    <3>2. routes' = [routes EXCEPT ![r] = Append(@, sub)]
      BY <1>1 DEF Include, AddRoute
    <3>. QED
      BY <3>1, <3>2, SubsOfAppend
  <2>. QED
    BY <1>1, <2>1, EdgeKeepsAcyclic DEF Include
<1>2. ASSUME NEW r \in Routers, NEW leaf \in Leaves, Handle(r, leaf)
      PROVE  Acyclic'
  <2>1. \A q \in Routers : Subs(q)' = Subs(q)
    <3>1. leaf \in Routers \cup Leaves /\ {leaf} \cap Routers = {}
      BY RouterAssumption
    <3>2. routes' = [routes EXCEPT ![r] = Append(@, leaf)]
      BY <1>2 DEF Handle, AddRoute
    <3>3. \A q \in Routers : Subs(q)' = IF q = r THEN Subs(q) \cup ({leaf} \cap Routers)
                                         ELSE Subs(q)
      BY <3>1, <3>2, SubsOfAppend
    <3>. QED
      BY <3>1, <3>3
  <2>. QED
    BY <2>1, SameGraphAcyclic
<1>3. CASE routes' = routes
  BY <1>3, SameGraphAcyclic DEF Subs
<1>4. \/ routes' = routes
      \/ \E r \in Routers : \/ \E sub \in Routers : Include(r, sub)
                            \/ \E leaf \in Leaves : Handle(r, leaf)
  BY DEF Next, Wire, OnError, UseOuter, Look, Decide, LookInto, LookAt, LookOn, LookPanics,
     Dispatch, Walk, CallNext, ShortCircuit, TrySub, TryLeaf, Exhausted, HandlerReturns,
     HandlerSkips, Panics, Leave, Resolve, vars, tree
<1>. QED
  BY <1>1, <1>2, <1>3, <1>4

-----------------------------------------------------------------------------
(* Theorems *)

(* The inductive invariant holds in every reachable state.                   *)
THEOREM Invariance == Spec => [](IndInv /\ Acyclic)
<1>1. Init => IndInv /\ Acyclic
  BY InitInd
<1>2. IndInv /\ Acyclic /\ [Next]_vars => (IndInv /\ Acyclic)'
  BY NextInd, NextAcyclic DEF IndInv
<1>. QED
  BY <1>1, <1>2, PTL DEF Spec

(* Type correctness of the route tree and of the dispatch stack.             *)
THEOREM TypeCorrect == Spec => []TypeOK
<1>1. IndInv => TypeOK
  BY DEF IndInv
<1>. QED
  BY <1>1, Invariance, PTL

(* Router.Include's promise: whatever is included where and in which order,  *)
(* no router is ever below itself, so a dispatch cannot recurse for ever.    *)
THEOREM NoCycle == Spec => []Acyclic
BY Invariance, PTL

(* An error reaches the innermost OnError around its source and no other     *)
(* handler; without one, or when it is a panic, the bot's.                   *)
THEOREM InnermostHandler == Spec => []ErrorGoesToInnermost
<1>1. ASSUME IndInv PROVE ErrorGoesToInnermost
  <2>. SUFFICES ASSUME mode = "done", raised # Nil, raised.err # "reply"
                PROVE  caught = IF raised.err = "panic" \/ Around = {} THEN "bot"
                                ELSE raised.from[CHOOSE i \in Around : \A j \in Around : j <= i].router
    BY DEF ErrorGoesToInnermost, Around
  <2>1. stack = <<>> /\ Len(stack) = 0
    BY <1>1, EmptySeq DEF IndInv, TypeOK
  <2>2. Around \subseteq Nat \ {0}
    BY <1>1, LenProperties DEF IndInv, RaisedInv, Around
  <2>3. CASE Bubbling
    BY <2>1, <2>2, <2>3 DEF Bubbling
  <2>4. CASE Caught
    <3>1. PICK k \in Around : caught = raised.from[k].router /\ \A j \in Around : j <= k
      BY <2>4 DEF Caught
    <3>2. \A i \in Around : (\A j \in Around : j <= i) => i = k
      BY <2>2, <3>1
    <3>3. (CHOOSE i \in Around : \A j \in Around : j <= i) = k
      BY <3>1, <3>2
    <3>. QED
      BY <2>4, <3>1, <3>3 DEF Caught
  <2>5. CASE Recovered
    BY <2>5 DEF Recovered
  <2>. QED
    BY <1>1, <2>3, <2>4, <2>5 DEF IndInv, ErrorInv
<1>. QED
  BY <1>1, Invariance, PTL

-----------------------------------------------------------------------------
(* The order in which registrations are tried *)

(* The stack is a way from the root through routers whose middleware called  *)
(* next; what is at its end depends on where the dispatch is.                *)
OnTheWay ==
  mode \in {"enter", "next", "run", "leave"} =>
    /\ stack[1].router = Root
    /\ \A i \in 1..Len(stack) - 1 :
         /\ stack[i].at <= Len(routes[stack[i].router])
         /\ stack[i + 1].router = routes[stack[i].router][stack[i].at]
         /\ Verdict(stack[i].router) = "next"
    /\ mode = "enter" => Top.at = 1
    /\ mode \in {"next", "run"} => Verdict(Top.router) = "next"
    /\ mode = "run" => HasRoute /\ AtRoute \in Leaves /\ flags = AtRoute /\ flags \in matches
    /\ mode = "leave" /\ ~res.matched =>
         \/ Verdict(Top.router) = "declined" /\ Top.at = 1
         \/ Verdict(Top.router) = "next" /\ ~HasRoute

(* The ends of any depth, and those the dispatch may have passed.            *)
AllEnds == {p \in Seq(Frames) : IsEnd(p)}
Passed  == {p \in AllEnds : RouteAt(p) \in Leaves /\ (~skipped => RouteAt(p) \notin matches)}

Extends(p, q) == Len(q) <= Len(p) /\ \A i \in 1..Len(q) : p[i] = q[i]

(* The places tried are in order, none is left out before them, and all but  *)
(* the last were passed.                                                     *)
TriedInv ==
  /\ \A i \in 1..Len(tried) :
       /\ tried[i] \in AllEnds /\ \A j \in 1..i - 1 : Before(tried[j], tried[i])
       /\ \A p \in AllEnds : Before(p, tried[i]) => \E j \in 1..Len(tried) : p = tried[j]
  /\ \A i \in 1..Len(tried) - 1 : tried[i] \in Passed

(* What lies before the place the dispatch has come to is what was tried.    *)
Frontier ==
  /\ \A i \in 1..Len(tried) : Before(tried[i], stack) /\ tried[i] \in Passed
  /\ \A p \in AllEnds : Before(p, stack) => \E j \in 1..Len(tried) : p = tried[j]

(* So it is until something settles the update: then the place where the     *)
(* handler runs was tried last, or when nothing does, all were.              *)
SearchInv ==
  /\ mode \in {"enter", "next"} \/ (mode = "leave" /\ ~res.matched) => Frontier
  /\ mode = "run" => tried # <<>> /\ tried[Len(tried)] = stack
  /\ mode \in {"bot", "done"} /\ ~res.matched =>
       /\ \A p \in AllEnds : \E j \in 1..Len(tried) : p = tried[j]
       /\ \A i \in 1..Len(tried) : tried[i] \in Passed

OrderInv ==
  /\ tried \in Seq(Seq(Frames))
  /\ ~Dispatched => tried = <<>>
  /\ Dispatched => OnTheWay /\ TriedInv /\ SearchInv

(* Induction over the naturals, by the least one that is no such            *)
LEMMA LeastNumber ==
  ASSUME NEW T, T \subseteq Nat, T # {}
  PROVE  \E x \in T : \A y \in T : x <= y
<1>. DEFINE R == OpToRel(<, Nat)
<1>1. IsWellFoundedOn(R, Nat)
  BY NatLessThanWellFounded, Zenon
<1>2. \A x, y \in Nat : x < y => <<x, y>> \in R
  BY DEF OpToRel
<1>. HIDE DEF R
<1>3. PICK x \in T : \A y \in T : ~ (<<y, x>> \in R)
  BY <1>1, WFMin
<1>4. ASSUME NEW y \in T PROVE x <= y
  <2>1. ~ (y < x)
    BY <1>2, <1>3
  <2>2. x \in Nat /\ y \in Nat
    OBVIOUS
  <2>. QED
    BY <2>1, <2>2
<1>. QED
  BY <1>4

LEMMA WayTypes ==
  ASSUME NEW p \in Seq(Frames)
  PROVE  /\ Len(p) \in Nat /\ (p = <<>> <=> Len(p) = 0)
         /\ \A i \in 1..Len(p) :
              p[i] \in Frames /\ p[i].router \in Routers /\ p[i].at \in Nat /\ p[i].at >= 1
<1>1. Len(p) \in Nat /\ (p = <<>> <=> Len(p) = 0)
  BY EmptySeq, LenProperties
<1>2. ASSUME NEW i \in 1..Len(p) PROVE p[i] \in Frames
  BY ElementOfSeq
<1>. QED
  BY <1>1, <1>2 DEF Frames

(* Once an update is dispatched the places of the tree stay what they are.   *)
LEMMA PlacesKept ==
  ASSUME UNCHANGED <<tree, context>>, skipped => skipped'
  PROVE  AllEnds' = AllEnds /\ Passed \subseteq Passed'
<1>1. routes' = routes /\ outer' = outer /\ matches' = matches
  BY DEF tree, context
<1>2. ASSUME NEW p PROVE RouteAt(p)' = RouteAt(p) /\ (IsEnd(p)' <=> IsEnd(p))
  BY <1>1 DEF RouteAt, IsEnd, IsPlace, IsWay, Settles, Verdict
<1>3. AllEnds' = AllEnds
  BY <1>2 DEF AllEnds
<1>. QED
  BY <1>1, <1>2, <1>3 DEF Passed

LEMMA TriedKept ==
  ASSUME TriedInv, tried' = tried, AllEnds' = AllEnds, Passed \subseteq Passed'
  PROVE  TriedInv'
BY DEF TriedInv

LEMMA FrontierKept ==
  ASSUME Frontier, tried' = tried, stack' = stack, AllEnds' = AllEnds, Passed \subseteq Passed'
  PROVE  Frontier'
BY DEF Frontier

(* A place is tried when all before it were.                                 *)
LEMMA TriedAppended ==
  ASSUME TriedInv, tried \in Seq(Seq(Frames)), NEW p \in AllEnds, tried' = Append(tried, p),
         AllEnds' = AllEnds, Passed \subseteq Passed',
         \A i \in 1..Len(tried) : Before(tried[i], p) /\ tried[i] \in Passed,
         \A q \in AllEnds : Before(q, p) => \E j \in 1..Len(tried) : q = tried[j]
  PROVE  /\ TriedInv' /\ tried' \in Seq(Seq(Frames))
         /\ Len(tried') = Len(tried) + 1 /\ Len(tried) \in Nat
         /\ tried' # <<>> /\ tried'[Len(tried')] = p
         /\ \A i \in 1..Len(tried) : tried'[i] = tried[i]
<1>1. p \in Seq(Frames)
  BY DEF AllEnds
<1>2. /\ tried' \in Seq(Seq(Frames)) /\ Len(tried) \in Nat /\ Len(tried') = Len(tried) + 1
      /\ \A i \in 1..Len(tried) : tried'[i] = tried[i]
      /\ tried'[Len(tried) + 1] = p
  BY <1>1, AppendProperties, LenProperties
<1>3. tried' # <<>>
  BY <1>2, EmptySeq
<1>4. \A i \in 1..Len(tried') : i \in 1..Len(tried) \/ i = Len(tried) + 1
  BY <1>2
<1>5. ASSUME NEW i \in 1..Len(tried')
      PROVE  /\ tried'[i] \in AllEnds
             /\ \A j \in 1..i - 1 : Before(tried'[j], tried'[i])
             /\ \A q \in AllEnds : Before(q, tried'[i]) => \E j \in 1..Len(tried') : q = tried'[j]
  <2>1. CASE i \in 1..Len(tried)
    <3>1. \A j \in 1..i - 1 : j \in 1..Len(tried)
      BY <1>2, <2>1
    <3>. QED
      BY <1>2, <2>1, <3>1 DEF TriedInv
  <2>2. CASE i = Len(tried) + 1
    <3>1. \A j \in 1..i - 1 : j \in 1..Len(tried)
      BY <1>2, <2>2
    <3>2. tried'[i] = p
      BY <1>2, <2>2
    <3>3. \A j \in 1..i - 1 : Before(tried'[j], tried'[i])
      BY <1>2, <3>1, <3>2
    <3>4. ASSUME NEW q \in AllEnds, Before(q, tried'[i])
          PROVE  \E j \in 1..Len(tried') : q = tried'[j]
      <4>1. PICK j \in 1..Len(tried) : q = tried[j]
        BY <3>2, <3>4
      <4>2. j \in 1..Len(tried') /\ tried'[j] = tried[j]
        BY <1>2
      <4>. QED
        BY <4>1, <4>2
    <3>. QED
      BY <3>2, <3>3, <3>4
  <2>. QED
    BY <1>4, <2>1, <2>2
<1>6. \A i \in 1..Len(tried') - 1 : tried'[i] \in Passed'
  BY <1>2
<1>7. TriedInv'
  BY <1>5, <1>6 DEF TriedInv
<1>. QED
  BY <1>2, <1>3, <1>7

(* The order of places, when a way goes further, and when it comes back.     *)
LEMMA SameFrame ==
  ASSUME NEW a \in Frames, NEW b \in Frames, a.router = b.router, a.at = b.at
  PROVE  a = b
<1>1. PICK r \in Routers, i \in Nat \ {0} : a = [router |-> r, at |-> i]
  BY DEF Frames
<1>2. PICK q \in Routers, j \in Nat \ {0} : b = [router |-> q, at |-> j]
  BY DEF Frames
<1>. QED
  BY <1>1, <1>2

LEMMA NotBeforeItself ==
  ASSUME NEW p \in Seq(Frames)
  PROVE  ~Before(p, p)
<1>1. \A i \in 1..Len(p) : p[i].at \in Nat
  BY WayTypes
<1>. QED
  BY <1>1 DEF Before

LEMMA BeforeEntered ==
  ASSUME NEW p \in Seq(Frames), NEW u \in Seq(Frames), NEW s \in Seq(Frames),
         Len(s) = Len(u) + 1, \A i \in 1..Len(u) : s[i] = u[i], s[Len(s)].at = 1
  PROVE  Before(p, s) <=> Before(p, u)
<1>1. Len(u) \in Nat /\ \A i \in 1..Len(p) : p[i].at \in Nat /\ p[i].at >= 1
  BY WayTypes
<1>2. ASSUME Before(p, u) PROVE Before(p, s)
  <2>1. PICK i \in 1..Len(p) :
          /\ i <= Len(u) /\ p[i].router = u[i].router /\ p[i].at < u[i].at
          /\ \A j \in 1..i - 1 : p[j] = u[j]
    BY <1>2 DEF Before
  <2>2. i \in 1..Len(u) /\ i <= Len(s) /\ \A j \in 1..i - 1 : j \in 1..Len(u)
    BY <1>1, <2>1
  <2>. QED
    BY <2>1, <2>2 DEF Before
<1>3. ASSUME Before(p, s) PROVE Before(p, u)
  <2>1. PICK i \in 1..Len(p) :
          /\ i <= Len(s) /\ p[i].router = s[i].router /\ p[i].at < s[i].at
          /\ \A j \in 1..i - 1 : p[j] = s[j]
    BY <1>3 DEF Before
  <2>2. i # Len(s)
    BY <1>1, <2>1
  <2>3. i \in 1..Len(u) /\ i <= Len(u) /\ \A j \in 1..i - 1 : j \in 1..Len(u)
    BY <1>1, <2>1, <2>2
  <2>. QED
    BY <2>1, <2>3 DEF Before
<1>. QED
  BY <1>2, <1>3

LEMMA BeforeAdvanced ==
  ASSUME NEW p \in Seq(Frames), NEW s \in Seq(Frames), NEW t \in Seq(Frames),
         s # <<>>, Len(t) = Len(s), \A i \in 1..Len(s) - 1 : t[i] = s[i],
         t[Len(s)].router = s[Len(s)].router, t[Len(s)].at = s[Len(s)].at + 1
  PROVE  Before(p, t) <=> Before(p, s) \/ Extends(p, s)
<1>. DEFINE n == Len(s)
<1>1. /\ n \in Nat \ {0} /\ n \in 1..n /\ Len(p) \in Nat
      /\ \A i \in 1..Len(p) : p[i] \in Frames /\ p[i].at \in Nat
      /\ \A i \in 1..n : s[i] \in Frames /\ s[i].at \in Nat
  BY WayTypes
<1>. HIDE DEF n
<1>2. ASSUME Before(p, s) PROVE Before(p, t)
  <2>1. PICK i \in 1..Len(p) :
          /\ i <= n /\ p[i].router = s[i].router /\ p[i].at < s[i].at
          /\ \A j \in 1..i - 1 : p[j] = s[j]
    BY <1>2 DEF Before, n
  <2>2. \A j \in 1..i - 1 : j \in 1..n - 1
    BY <1>1, <2>1
  <2>3. p[i].router = t[i].router /\ p[i].at < t[i].at
    <3>1. CASE i = n
      BY <1>1, <2>1, <3>1 DEF n
    <3>2. CASE i # n
      <4>1. i \in 1..n - 1
        BY <1>1, <2>1, <3>2
      <4>. QED
        BY <2>1, <4>1 DEF n
    <3>. QED
      BY <3>1, <3>2
  <2>. QED
    BY <2>1, <2>2, <2>3 DEF Before, n
<1>3. ASSUME Extends(p, s) PROVE Before(p, t)
  <2>1. n \in 1..Len(p) /\ p[n] = s[n] /\ \A j \in 1..n - 1 : j \in 1..n
    BY <1>1, <1>3 DEF Extends, n
  <2>2. p[n].router = t[n].router /\ p[n].at < t[n].at
    BY <1>1, <2>1 DEF n
  <2>3. \A j \in 1..n - 1 : p[j] = t[j]
    BY <1>3, <2>1 DEF Extends, n
  <2>4. n <= Len(t)
    BY <1>1 DEF n
  <2>. QED
    BY <2>1, <2>2, <2>3, <2>4 DEF Before
<1>4. ASSUME Before(p, t) PROVE Before(p, s) \/ Extends(p, s)
  <2>1. PICK i \in 1..Len(p) :
          /\ i <= n /\ p[i].router = t[i].router /\ p[i].at < t[i].at
          /\ \A j \in 1..i - 1 : p[j] = t[j]
    BY <1>4 DEF Before, n
  <2>2. \A j \in 1..i - 1 : j \in 1..n - 1 /\ p[j] = s[j]
    BY <1>1, <2>1 DEF n
  <2>3. CASE i # n
    <3>1. i \in 1..n - 1
      BY <1>1, <2>1, <2>3
    <3>2. p[i].router = s[i].router /\ p[i].at < s[i].at
      BY <2>1, <3>1 DEF n
    <3>. QED
      BY <2>1, <2>2, <3>2 DEF Before, n
  <2>4. CASE i = n /\ p[n].at = s[n].at
    <3>1. p[n] = s[n]
      <4>1. p[n] \in Frames /\ s[n] \in Frames
        BY <1>1, <2>1, <2>4
      <4>2. p[n].router = s[n].router
        BY <2>1, <2>4 DEF n
      <4>. QED
        BY <2>4, <4>1, <4>2, SameFrame
    <3>2. \A j \in 1..n : j = n \/ j \in 1..i - 1
      BY <1>1, <2>4
    <3>3. \A j \in 1..n : p[j] = s[j]
      BY <2>2, <3>1, <3>2
    <3>4. n <= Len(p)
      BY <1>1, <2>1, <2>4
    <3>. QED
      BY <3>3, <3>4 DEF Extends, n
  <2>5. CASE i = n /\ p[n].at # s[n].at
    <3>1. p[n].router = s[n].router /\ p[n].at < s[n].at
      BY <1>1, <2>1, <2>5 DEF n
    <3>. QED
      BY <2>1, <2>2, <2>5, <3>1 DEF Before, n
  <2>. QED
    BY <2>3, <2>4, <2>5
<1>. QED
  BY <1>2, <1>3, <1>4

LEMMA BeforeReturned ==
  ASSUME NEW p \in Seq(Frames), NEW u \in Seq(Frames), NEW s \in Seq(Frames),
         Len(s) = Len(u) + 1, \A i \in 1..Len(u) : s[i] = u[i]
  PROVE  /\ Before(p, u) => Before(p, s)
         /\ Before(p, s) => Before(p, u) \/ Extends(p, u)
<1>1. Len(u) \in Nat /\ Len(p) \in Nat
  BY WayTypes
<1>2. ASSUME Before(p, u) PROVE Before(p, s)
  <2>1. PICK i \in 1..Len(p) :
          /\ i <= Len(u) /\ p[i].router = u[i].router /\ p[i].at < u[i].at
          /\ \A j \in 1..i - 1 : p[j] = u[j]
    BY <1>2 DEF Before
  <2>2. i \in 1..Len(u) /\ i <= Len(s) /\ \A j \in 1..i - 1 : j \in 1..Len(u)
    BY <1>1, <2>1
  <2>. QED
    BY <2>1, <2>2 DEF Before
<1>3. ASSUME Before(p, s), ~Extends(p, u) PROVE Before(p, u)
  <2>1. PICK i \in 1..Len(p) :
          /\ i <= Len(s) /\ p[i].router = s[i].router /\ p[i].at < s[i].at
          /\ \A j \in 1..i - 1 : p[j] = s[j]
    BY <1>3 DEF Before
  <2>2. CASE i = Len(s)
    <3>1. Len(u) <= Len(p) /\ \A j \in 1..Len(u) : j \in 1..i - 1
      BY <1>1, <2>1, <2>2
    <3>2. \A j \in 1..Len(u) : p[j] = u[j]
      BY <2>1, <3>1
    <3>. QED
      BY <1>3, <3>1, <3>2 DEF Extends
  <2>3. CASE i # Len(s)
    <3>1. i \in 1..Len(u) /\ i <= Len(u) /\ \A j \in 1..i - 1 : j \in 1..Len(u)
      BY <1>1, <2>1, <2>3
    <3>. QED
      BY <2>1, <3>1 DEF Before
  <2>. QED
    BY <2>2, <2>3
<1>. QED
  BY <1>2, <1>3

(* Places near the stack: the registration a router is at, where nothing can *)
(* be further down; ...                                                      *)
LEMMA AtLeaf ==
  ASSUME IndInv, OnTheWay, mode \in {"next", "run"}, HasRoute, AtRoute \in Leaves
  PROVE  /\ stack \in AllEnds /\ RouteAt(stack) = AtRoute
         /\ \A p \in AllEnds : Extends(p, stack) => p = stack
<1>1. /\ stack \in Seq(Frames) /\ stack # <<>> /\ Len(stack) \in Nat \ {0}
      /\ Top = stack[Len(stack)]
  BY StackTypes DEF IndInv, TypeOK
<1>2. RouteAt(stack) = AtRoute
  BY <1>1 DEF RouteAt, AtRoute, RouteOf, Last, Top
<1>3. IsPlace(stack)
  <2>1. \A i \in 1..Len(stack) : i = Len(stack) \/ i \in 1..Len(stack) - 1
    BY <1>1
  <2>2. stack[1].router = Root
    BY DEF OnTheWay
  <2>3. \A i \in 1..Len(stack) - 1 :
          /\ stack[i].at <= Len(routes[stack[i].router]) /\ Verdict(stack[i].router) = "next"
          /\ stack[i + 1].router = routes[stack[i].router][stack[i].at]
    BY DEF OnTheWay
  <2>4. Top.at <= Len(routes[Top.router]) /\ Verdict(Top.router) = "next"
    BY DEF OnTheWay, HasRoute, HasNext, Top, Last
  <2>. QED
    BY <1>1, <2>1, <2>2, <2>3, <2>4 DEF IsPlace, IsWay
<1>4. stack \in AllEnds
  BY <1>1, <1>2, <1>3 DEF AllEnds, IsEnd, Settles
<1>5. ASSUME NEW p \in AllEnds, Extends(p, stack)
      PROVE  p = stack
  <2>1. p \in Seq(Frames) /\ IsPlace(p)
    BY DEF AllEnds, IsEnd
  <2>2. /\ Len(p) \in Nat /\ Len(stack) <= Len(p)
        /\ \A i \in 1..Len(p) : p[i].router \in Routers
        /\ \A i \in 1..Len(stack) : p[i] = stack[i]
    BY <1>5, <2>1, WayTypes DEF Extends
  <2>3. CASE Len(p) = Len(stack)
    BY <1>1, <2>1, <2>2, <2>3, SeqEqual
  <2>4. CASE Len(p) # Len(stack)
    <3>1. /\ Len(stack) \in 1..Len(p) - 1 /\ Len(stack) + 1 \in 1..Len(p)
          /\ Len(stack) \in 1..Len(stack)
      BY <1>1, <2>2, <2>4
    <3>2. p[Len(stack)] = Top
      BY <1>1, <2>2, <3>1
    <3>3. p[Len(stack) + 1].router = AtRoute
      BY <2>1, <3>1, <3>2 DEF IsPlace, IsWay, AtRoute, RouteOf, Top, Last
    <3>. QED
      BY <2>2, <3>1, <3>3, RouterAssumption
  <2>. QED
    BY <2>3, <2>4
<1>. QED
  BY <1>2, <1>4, <1>5

(* ... a router that is left with nothing matched, when all it has was tried *)
(* or its middleware declined.                                               *)
LEMMA LeftBehind ==
  ASSUME IndInv, OnTheWay, mode = "leave", ~res.matched,
         NEW u \in Seq(Frames), Len(u) = Len(stack) - 1, \A i \in 1..Len(u) : u[i] = stack[i],
         NEW p \in AllEnds, Extends(p, u)
  PROVE  Before(p, stack)
<1>. DEFINE n == Len(stack)
<1>1. /\ stack \in Seq(Frames) /\ n \in Nat \ {0} /\ Top = stack[n] /\ Top \in Frames
      /\ Top.router \in Routers
  BY StackTypes DEF IndInv, TypeOK, Frames
<1>2. /\ stack[1].router = Root
      /\ \A i \in 1..n - 1 : stack[i + 1].router = routes[stack[i].router][stack[i].at]
      /\ \/ Verdict(Top.router) = "declined" /\ Top.at = 1
         \/ Verdict(Top.router) = "next" /\ ~HasRoute
  BY DEF OnTheWay
<1>3. p \in Seq(Frames) /\ IsPlace(p) /\ Settles(RouteAt(p))
  BY DEF AllEnds, IsEnd
<1>4. /\ Len(p) \in Nat /\ (p = <<>> <=> Len(p) = 0) /\ n - 1 <= Len(p)
      /\ \A i \in 1..Len(p) : p[i] \in Frames /\ p[i].at \in Nat
      /\ \A i \in 1..n - 1 : p[i] = stack[i]
  BY <1>1, <1>3, WayTypes DEF Extends
<1>. HIDE DEF n
<1>5. Len(p) # n - 1
  <2>. SUFFICES ASSUME Len(p) = n - 1 PROVE FALSE
    OBVIOUS
  <2>1. RouteAt(p) = Top.router
    <3>1. CASE n = 1
      BY <1>1, <1>2, <1>4, <3>1 DEF RouteAt
    <3>2. CASE n # 1
      <4>1. n - 1 \in 1..n - 1 /\ n - 1 + 1 = n
        BY <1>1, <3>2
      <4>2. p # <<>>
        BY <1>1, <1>4, <3>2
      <4>3. p[n - 1] = stack[n - 1] /\ Top.router = routes[stack[n - 1].router][stack[n - 1].at]
        BY <1>1, <1>2, <1>4, <4>1
      <4>. QED
        BY <4>2, <4>3 DEF RouteAt
    <3>. QED
      BY <3>1, <3>2
  <2>. QED
    BY <1>1, <1>2, <1>3, <2>1, RouterAssumption DEF Settles
<1>6. n \in 1..Len(p)
  <2>1. n \in Nat \ {0} /\ Len(p) \in Nat /\ n - 1 <= Len(p) /\ Len(p) # n - 1
    BY <1>1, <1>4, <1>5
  <2>. QED
    BY <2>1
<1>7. p[n].router = Top.router
  <2>1. CASE n = 1
    BY <1>1, <1>2, <1>3, <1>4, <1>6, <2>1 DEF IsPlace, IsWay
  <2>2. CASE n # 1
    <3>1. n - 1 \in 1..Len(p) - 1 /\ n - 1 \in 1..n - 1 /\ n - 1 + 1 = n
      BY <1>1, <1>4, <1>6, <2>2
    <3>2. p[n].router = routes[p[n - 1].router][p[n - 1].at]
      BY <1>3, <3>1 DEF IsPlace, IsWay
    <3>. QED
      BY <1>1, <1>2, <1>4, <3>1, <3>2
  <2>. QED
    BY <2>1, <2>2
<1>8. Verdict(p[n].router) = "next" /\ p[n].at <= Len(routes[p[n].router])
  BY <1>3, <1>6 DEF IsPlace, IsWay
<1>9. p[n].at < Top.at
  <2>1. Len(routes[Top.router]) \in Nat
    BY <1>1, LenProperties DEF IndInv, TypeOK
  <2>2. ~(Top.at <= Len(routes[Top.router]))
    BY <1>2, <1>7, <1>8 DEF HasRoute, HasNext, Top, Last
  <2>3. Top.at \in Nat /\ p[n].at \in Nat
    BY <1>1, <1>4, <1>6 DEF Frames
  <2>. QED
    BY <1>7, <1>8, <2>1, <2>2, <2>3
<1>. QED
  BY <1>1, <1>4, <1>6, <1>7, <1>9 DEF Before, n

-----------------------------------------------------------------------------
(* Each step keeps the order. *)

LEMMA NotYetOrder ==
  ASSUME OrderInv, ~Dispatched, ~Dispatched', tried' = tried
  PROVE  OrderInv'
BY DEF OrderInv

LEMMA StutterOrder ==
  ASSUME OrderInv, UNCHANGED vars
  PROVE  OrderInv'
<1>1. UNCHANGED <<tree, context, mode, stack, flags, res, tried, skipped>>
  BY DEF vars, dispatch, history
<1>2. AllEnds' = AllEnds /\ Passed \subseteq Passed'
  BY <1>1, PlacesKept
<1>3. Dispatched' <=> Dispatched
  BY <1>1 DEF Dispatched
<1>4. Dispatched => TriedInv'
  BY <1>1, <1>2, TriedKept DEF OrderInv
<1>5. Dispatched => SearchInv'
  BY <1>1, <1>2, FrontierKept DEF OrderInv, SearchInv
<1>6. Dispatched => OnTheWay'
  BY <1>1 DEF OnTheWay, OrderInv, Top, Last, HasRoute, HasNext, AtRoute, RouteOf, Verdict,
     tree, context
<1>. QED
  BY <1>1, <1>3, <1>4, <1>5, <1>6 DEF OrderInv

LEMMA DispatchOrder ==
  ASSUME IndInv, OrderInv, Dispatch
  PROVE  OrderInv'
<1>1. stack = <<>> /\ tried = <<>> /\ tried' = <<>> /\ mode' = "enter" /\ Len(tried') = 0
  BY EmptySeq DEF Dispatch, OrderInv, IndInv, TypeOK, history, Dispatched
<1>2. /\ stack' \in Seq(Frames) /\ Len(stack') = 1 /\ Len(stack) = 0
      /\ stack'[1].router = Root /\ stack'[1].at = 1
  <2>1. Len(stack) = 0 /\ Root \in Routers
    BY <1>1, EmptySeq, RouterAssumption
  <2>2. Len(stack) + 1 = 1
    BY <2>1
  <2>. QED
    BY <2>1, <2>2, EnterTypes DEF Dispatch, IndInv
<1>3. OnTheWay'
  BY <1>1, <1>2 DEF OnTheWay, Top, Last
<1>4. TriedInv'
  BY <1>1 DEF TriedInv
<1>5. ASSUME NEW p \in AllEnds', Before(p, stack') PROVE FALSE
  <2>1. p \in Seq(Frames)
    BY DEF AllEnds
  <2>2. \A i \in 1..Len(p) : p[i].at \in Nat /\ p[i].at >= 1
    BY <2>1, WayTypes
  <2>3. PICK i \in 1..Len(p) : i <= Len(stack') /\ p[i].at < stack'[i].at
    BY <1>5 DEF Before
  <2>4. Len(p) \in Nat
    BY <2>1, WayTypes
  <2>5. i = 1
    BY <1>2, <2>3, <2>4
  <2>. QED
    BY <1>2, <2>2, <2>3, <2>5
<1>6. SearchInv'
  BY <1>1, <1>5 DEF SearchInv, Frontier
<1>7. tried' \in Seq(Seq(Frames))
  BY <1>1, EmptySeq
<1>. QED
  BY <1>1, <1>3, <1>4, <1>6, <1>7 DEF OrderInv, Dispatched

LEMMA CallNextOrder ==
  ASSUME IndInv, OrderInv, CallNext
  PROVE  OrderInv'
<1>1. AllEnds' = AllEnds /\ Passed \subseteq Passed'
  BY PlacesKept DEF CallNext, history
<1>2. TriedInv' /\ Frontier'
  BY <1>1, TriedKept, FrontierKept DEF CallNext, OrderInv, SearchInv, history, Dispatched
<1>3. SearchInv'
  BY <1>2 DEF SearchInv, CallNext
<1>4. OnTheWay'
  BY DEF OnTheWay, OrderInv, CallNext, Top, Last, Verdict, tree, context, Dispatched
<1>. QED
  BY <1>2, <1>3, <1>4 DEF OrderInv, CallNext, history, Dispatched

LEMMA ExhaustedOrder ==
  ASSUME IndInv, OrderInv, Exhausted
  PROVE  OrderInv'
<1>1. AllEnds' = AllEnds /\ Passed \subseteq Passed'
  BY PlacesKept DEF Exhausted, history
<1>2. TriedInv' /\ Frontier'
  BY <1>1, TriedKept, FrontierKept DEF Exhausted, OrderInv, SearchInv, history, Dispatched
<1>3. SearchInv'
  BY <1>2 DEF SearchInv, Exhausted
<1>4. OnTheWay'
  BY DEF OnTheWay, OrderInv, Exhausted, HasRoute, HasNext, Last, Top, Verdict, tree,
     context, Dispatched
<1>. QED
  BY <1>2, <1>3, <1>4 DEF OrderInv, Exhausted, history, Dispatched

LEMMA HandlerReturnsOrder ==
  ASSUME IndInv, OrderInv, NEW err \in Errors, HandlerReturns(err)
  PROVE  OrderInv'
<1>1. AllEnds' = AllEnds /\ Passed \subseteq Passed'
  BY PlacesKept DEF HandlerReturns
<1>2. TriedInv'
  BY <1>1, TriedKept DEF HandlerReturns, OrderInv, Dispatched
<1>3. SearchInv'
  BY DEF SearchInv, HandlerReturns, Return
<1>4. OnTheWay'
  BY DEF OnTheWay, OrderInv, HandlerReturns, Return, Top, Last, Verdict, tree, context,
     Dispatched
<1>. QED
  BY <1>2, <1>3, <1>4 DEF OrderInv, HandlerReturns, Dispatched

LEMMA PanicsOrder ==
  ASSUME IndInv, OrderInv, Panics
  PROVE  OrderInv'
<1>1. AllEnds' = AllEnds /\ Passed \subseteq Passed'
  BY PlacesKept DEF Panics, MayPanic
<1>2. TriedInv'
  BY <1>1, TriedKept DEF Panics, MayPanic, OrderInv, Dispatched
<1>3. SearchInv' /\ OnTheWay'
  BY DEF SearchInv, OnTheWay, Panics, Return
<1>. QED
  BY <1>2, <1>3 DEF OrderInv, Panics, Dispatched

LEMMA ResolveOrder ==
  ASSUME IndInv, OrderInv, Resolve
  PROVE  OrderInv'
<1>1. AllEnds' = AllEnds /\ Passed \subseteq Passed'
  BY PlacesKept DEF Resolve
<1>2. TriedInv'
  BY <1>1, TriedKept DEF Resolve, OrderInv, Dispatched
<1>3. SearchInv' /\ OnTheWay'
  BY <1>1 DEF SearchInv, OnTheWay, OrderInv, Resolve, Dispatched
<1>. QED
  BY <1>2, <1>3 DEF OrderInv, Resolve, Dispatched

(* Entering a router: nothing lies between it and its first route.           *)
LEMMA TrySubOrder ==
  ASSUME IndInv, OrderInv, TrySub
  PROVE  OrderInv'
<1>. DEFINE n == Len(stack)
<1>1. /\ mode = "next" /\ HasRoute /\ AtRoute \in Routers
      /\ stack' = Enter(AtRoute) /\ mode' = "enter" /\ tried' = tried
  BY DEF TrySub, history
<1>2. /\ stack \in Seq(Frames) /\ stack # <<>> /\ n \in Nat \ {0} /\ Top = stack[n]
  BY <1>1, StackTypes DEF IndInv, TypeOK
<1>3. /\ stack' \in Seq(Frames) /\ Len(stack') = n + 1
      /\ \A i \in 1..n : stack'[i] = stack[i]
      /\ stack'[n + 1].router = AtRoute /\ stack'[n + 1].at = 1
  BY <1>1, EnterTypes DEF IndInv
<1>4. AllEnds' = AllEnds /\ Passed \subseteq Passed'
  BY PlacesKept DEF TrySub, history
<1>5. TriedInv'
  BY <1>1, <1>4, TriedKept DEF OrderInv, Dispatched
<1>6. ASSUME NEW p \in Seq(Frames) PROVE Before(p, stack') <=> Before(p, stack)
  <2>1. Len(stack') = Len(stack) + 1 /\ stack'[Len(stack')].at = 1
    BY <1>3
  <2>. QED
    BY <1>2, <1>3, <2>1, BeforeEntered
<1>7. Frontier'
  <2>1. Frontier /\ \A i \in 1..Len(tried) : tried[i] \in Seq(Frames)
    BY <1>1 DEF OrderInv, SearchInv, TriedInv, AllEnds, Dispatched
  <2>2. \A i \in 1..Len(tried') : Before(tried'[i], stack') /\ tried'[i] \in Passed'
    BY <1>1, <1>4, <1>6, <2>1 DEF Frontier
  <2>3. \A p \in AllEnds' : Before(p, stack') => \E j \in 1..Len(tried') : p = tried'[j]
    BY <1>1, <1>4, <1>6, <2>1 DEF Frontier, AllEnds
  <2>. QED
    BY <2>2, <2>3 DEF Frontier
<1>8. SearchInv'
  BY <1>1, <1>7 DEF SearchInv
<1>9. OnTheWay'
  <2>1. /\ stack[1].router = Root /\ Verdict(stack[n].router) = "next"
        /\ \A i \in 1..n - 1 :
             /\ stack[i].at <= Len(routes[stack[i].router])
             /\ stack[i + 1].router = routes[stack[i].router][stack[i].at]
             /\ Verdict(stack[i].router) = "next"
    BY <1>1, <1>2 DEF OrderInv, OnTheWay, Dispatched
  <2>2. stack[n].at <= Len(routes[stack[n].router]) /\ AtRoute = routes[stack[n].router][stack[n].at]
    BY <1>1, <1>2 DEF HasRoute, HasNext, Last, AtRoute, RouteOf
  <2>3. routes' = routes /\ outer' = outer /\ Len(stack') - 1 = n
    BY <1>2, <1>3 DEF TrySub, tree, context
  <2>4. ASSUME NEW i \in 1..n
        PROVE  /\ stack'[i].at <= Len(routes[stack'[i].router])
               /\ stack'[i + 1].router = routes[stack'[i].router][stack'[i].at]
               /\ Verdict(stack'[i].router) = "next"
    <3>1. CASE i = n
      BY <1>2, <1>3, <2>1, <2>2, <3>1
    <3>2. CASE i # n
      <4>1. i \in 1..n - 1 /\ i + 1 \in 1..n
        BY <1>2, <3>2
      <4>. QED
        BY <1>3, <2>1, <4>1
    <3>. QED
      BY <3>1, <3>2
  <2>5. stack'[1].router = Root /\ Top'.at = 1
    <3>1. 1 \in 1..n
      BY <1>2
    <3>. QED
      BY <1>3, <2>1, <3>1 DEF Top, Last
  <2>6. \A i \in 1..Len(stack') - 1 :
          /\ stack'[i].at <= Len(routes'[stack'[i].router])
          /\ stack'[i + 1].router = routes'[stack'[i].router][stack'[i].at]
          /\ Verdict(stack'[i].router) = "next"
    BY <2>3, <2>4
  <2>. QED
    BY <1>1, <2>3, <2>5, <2>6 DEF OnTheWay, Verdict
<1>. QED
  BY <1>1, <1>5, <1>8, <1>9 DEF OrderInv, Dispatched

(* A middleware that returns instead: the place it settles the update at is  *)
(* the one its router was reached by.                                        *)
LEMMA ShortCircuitOrder ==
  ASSUME IndInv, OrderInv, ShortCircuit
  PROVE  OrderInv'
<1>. DEFINE v == Verdict(Top.router)
            n == Len(stack)
            up == Up(stack)
<1>1. /\ mode = "enter" /\ mode' = "leave" /\ v # "next"
      /\ res'.matched = (v # "declined")
      /\ tried' = IF v = "declined" THEN tried ELSE Append(tried, up)
      /\ routes' = routes /\ stack' = stack /\ (\A r : Verdict(r)' = Verdict(r))
      /\ skipped' = skipped
  BY DEF ShortCircuit, Return, tree, context, Verdict
<1>2. /\ stack \in Seq(Frames) /\ stack # <<>> /\ n \in Nat \ {0} /\ Top = stack[n]
      /\ Top.router \in Routers
  BY <1>1, StackTypes DEF IndInv, TypeOK, Frames
<1>3. v \in Verdicts
  BY <1>2 DEF IndInv, TypeOK, Verdict, Verdicts
<1>. HIDE DEF up
<1>4. AllEnds' = AllEnds /\ Passed \subseteq Passed'
  BY PlacesKept DEF ShortCircuit
<1>5. OnTheWay /\ TriedInv /\ Frontier /\ tried \in Seq(Seq(Frames))
  BY <1>1 DEF OrderInv, SearchInv, Dispatched
<1>6. Top.at = 1 /\ Top' = Top
  BY <1>1, <1>5 DEF OnTheWay, Top, Last
<1>7. OnTheWay'
  BY <1>1, <1>5, <1>6 DEF OnTheWay, Verdict
<1>8. CASE v = "declined"
  <2>1. TriedInv' /\ Frontier'
    BY <1>1, <1>4, <1>5, <1>8, TriedKept, FrontierKept
  <2>2. SearchInv'
    BY <1>1, <1>8, <2>1 DEF SearchInv
  <2>. QED
    BY <1>1, <1>5, <1>7, <1>8, <2>1, <2>2 DEF OrderInv, Dispatched
<1>9. CASE v # "declined"
  <2>1. /\ up \in Seq(Frames) /\ Len(up) = n - 1
        /\ \A i \in 1..Len(up) : up[i] = stack[i]
    BY <1>2, UpTypes DEF IndInv, up
  <2>2. /\ stack[1].router = Root
        /\ \A i \in 1..n - 1 :
             /\ stack[i].at <= Len(routes[stack[i].router])
             /\ stack[i + 1].router = routes[stack[i].router][stack[i].at]
             /\ Verdict(stack[i].router) = "next"
    BY <1>1, <1>5 DEF OnTheWay
  <2>3. up = <<>> <=> n = 1
    BY <1>2, <2>1, EmptySeq
  <2>4. RouteAt(up) = Top.router
    <3>1. CASE n = 1
      BY <1>2, <2>2, <2>3, <3>1 DEF RouteAt
    <3>2. CASE n # 1
      <4>1. n - 1 \in 1..n - 1 /\ n - 1 + 1 = n /\ n - 1 \in 1..Len(up)
        BY <1>2, <2>1, <3>2
      <4>2. up[Len(up)] = stack[n - 1]
        BY <2>1, <4>1
      <4>3. Top.router = routes[stack[n - 1].router][stack[n - 1].at]
        BY <1>2, <2>2, <4>1
      <4>. QED
        BY <2>3, <3>2, <4>2, <4>3 DEF RouteAt
    <3>. QED
      BY <3>1, <3>2
  <2>5. IsPlace(up)
    <3>1. up # <<>> => up[1].router = Root
      BY <1>2, <2>1, <2>2, <2>3
    <3>2. \A i \in 1..Len(up) :
            up[i].at <= Len(routes[up[i].router]) /\ Verdict(up[i].router) = "next"
      BY <2>1, <2>2
    <3>3. ASSUME NEW i \in 1..Len(up) - 1
          PROVE  up[i + 1].router = routes[up[i].router][up[i].at]
      <4>1. i \in 1..n - 1 /\ i \in 1..Len(up) /\ i + 1 \in 1..Len(up)
        BY <1>2, <2>1
      <4>. QED
        BY <2>1, <2>2, <4>1
    <3>. QED
      BY <3>1, <3>2, <3>3 DEF IsPlace, IsWay
  <2>6. up \in AllEnds
    BY <1>1, <1>3, <1>9, <2>1, <2>4, <2>5 DEF AllEnds, IsEnd, Settles, Verdicts
  <2>7. ASSUME NEW p \in Seq(Frames) PROVE Before(p, stack) <=> Before(p, up)
    <3>1. Len(stack) = Len(up) + 1 /\ \A i \in 1..Len(up) : stack[i] = up[i]
      BY <1>2, <2>1
    <3>2. stack[Len(stack)].at = 1
      BY <1>2, <1>6
    <3>. QED
      BY <1>2, <2>1, <3>1, <3>2, BeforeEntered
  <2>8. \A i \in 1..Len(tried) : Before(tried[i], up) /\ tried[i] \in Passed
    BY <1>5, <2>7 DEF Frontier, TriedInv, AllEnds
  <2>9. \A q \in AllEnds : Before(q, up) => \E j \in 1..Len(tried) : q = tried[j]
    BY <1>5, <2>7 DEF Frontier, AllEnds
  <2>10. TriedInv' /\ tried' \in Seq(Seq(Frames))
    <3>1. tried' = Append(tried, up)
      BY <1>1, <1>9
    <3>. QED
      BY <1>4, <1>5, <2>6, <2>8, <2>9, <3>1, TriedAppended
  <2>11. SearchInv'
    BY <1>1, <1>9 DEF SearchInv
  <2>. QED
    BY <1>1, <1>7, <2>10, <2>11 DEF OrderInv, Dispatched
<1>. QED
  BY <1>8, <1>9

(* Going on after a registration: only the registration itself is passed.    *)
LEMMA GoneOn ==
  ASSUME IndInv, OnTheWay, mode \in {"next", "run"}, HasRoute, AtRoute \in Leaves,
         stack' = Rest, mode' = "next", UNCHANGED <<tree, context>>
  PROVE  /\ OnTheWay'
         /\ \A p \in AllEnds : Before(p, stack') <=> Before(p, stack) \/ p = stack
<1>. DEFINE n == Len(stack)
<1>1. /\ stack \in Seq(Frames) /\ stack # <<>> /\ n \in Nat \ {0} /\ Top = stack[n]
  BY StackTypes DEF IndInv, TypeOK
<1>2. /\ stack' \in Seq(Frames) /\ Len(stack') = n
      /\ \A i \in 1..n - 1 : stack'[i] = stack[i]
      /\ \A i \in 1..n : stack'[i].router = stack[i].router
      /\ stack'[n].at = stack[n].at + 1
  BY <1>1, RestTypes DEF IndInv
<1>3. ASSUME NEW p \in AllEnds PROVE Before(p, stack') <=> Before(p, stack) \/ p = stack
  <2>1. p \in Seq(Frames)
    BY DEF AllEnds
  <2>2. n \in 1..n
    BY <1>1
  <2>3. stack'[n].router = stack[n].router
    BY <1>2, <2>2
  <2>4. Before(p, stack') <=> Before(p, stack) \/ Extends(p, stack)
    BY <1>1, <1>2, <2>1, <2>3, BeforeAdvanced
  <2>5. Extends(p, stack) => p = stack
    BY AtLeaf
  <2>6. Extends(stack, stack)
    BY <1>1 DEF Extends
  <2>. QED
    BY <2>4, <2>5, <2>6
<1>4. OnTheWay'
  <2>1. /\ stack[1].router = Root /\ Verdict(stack[n].router) = "next"
        /\ \A i \in 1..n - 1 :
             /\ stack[i].at <= Len(routes[stack[i].router])
             /\ stack[i + 1].router = routes[stack[i].router][stack[i].at]
             /\ Verdict(stack[i].router) = "next"
    BY <1>1 DEF OnTheWay
  <2>2. routes' = routes /\ outer' = outer
    BY DEF tree, context
  <2>3. stack'[1].router = Root /\ Verdict(stack'[n].router) = "next"
    <3>1. 1 \in 1..n /\ n \in 1..n
      BY <1>1
    <3>. QED
      BY <1>2, <2>1, <3>1
  <2>4. ASSUME NEW i \in 1..n - 1
        PROVE  /\ stack'[i].at <= Len(routes[stack'[i].router])
               /\ stack'[i + 1].router = routes[stack'[i].router][stack'[i].at]
               /\ Verdict(stack'[i].router) = "next"
    <3>1. i + 1 \in 1..n
      BY <1>1
    <3>. QED
      BY <1>2, <2>1, <3>1
  <2>5. Top' = stack'[n]
    BY <1>2 DEF Top, Last
  <2>. HIDE DEF n
  <2>. QED
    BY <1>2, <2>2, <2>3, <2>4, <2>5 DEF OnTheWay, Verdict
<1>. QED
  BY <1>3, <1>4

(* A registration is tried: it matches, or the next route is tried.          *)
LEMMA TryLeafOrder ==
  ASSUME IndInv, OrderInv, TryLeaf
  PROVE  OrderInv'
<1>1. /\ mode = "next" /\ HasRoute /\ AtRoute \in Leaves
      /\ tried' = Append(tried, stack) /\ skipped' = skipped
      /\ UNCHANGED <<tree, context>> /\ res' = res
  BY DEF TryLeaf
<1>2. AllEnds' = AllEnds /\ Passed \subseteq Passed'
  BY <1>1, PlacesKept
<1>3. OnTheWay /\ TriedInv /\ Frontier /\ tried \in Seq(Seq(Frames))
  BY <1>1 DEF OrderInv, SearchInv, Dispatched
<1>4. stack \in AllEnds /\ RouteAt(stack) = AtRoute
  BY <1>1, <1>3, AtLeaf
<1>5. /\ TriedInv' /\ tried' \in Seq(Seq(Frames))
      /\ Len(tried') = Len(tried) + 1 /\ Len(tried) \in Nat
      /\ tried' # <<>> /\ tried'[Len(tried')] = stack
      /\ \A i \in 1..Len(tried) : tried'[i] = tried[i]
  <2>1. \A i \in 1..Len(tried) : Before(tried[i], stack) /\ tried[i] \in Passed
    BY <1>3 DEF Frontier
  <2>2. \A q \in AllEnds : Before(q, stack) => \E j \in 1..Len(tried) : q = tried[j]
    BY <1>3 DEF Frontier
  <2>. QED
    BY <1>1, <1>2, <1>3, <1>4, <2>1, <2>2, TriedAppended
<1>6. CASE AtRoute \in matches
  <2>1. mode' = "run" /\ flags' = AtRoute /\ stack' = stack
    BY <1>1, <1>6 DEF TryLeaf
  <2>2. SearchInv'
    BY <1>5, <2>1 DEF SearchInv
  <2>3. OnTheWay'
    BY <1>1, <1>3, <1>6, <2>1 DEF OnTheWay, Top, Last, HasRoute, HasNext, AtRoute, RouteOf,
       Verdict, tree, context
  <2>. QED
    BY <1>5, <2>1, <2>2, <2>3 DEF OrderInv, Dispatched
<1>7. CASE AtRoute \notin matches
  <2>1. mode' = "next" /\ stack' = Rest
    BY <1>1, <1>7 DEF TryLeaf
  <2>2. /\ OnTheWay'
        /\ \A p \in AllEnds : Before(p, stack') <=> Before(p, stack) \/ p = stack
    BY <1>1, <1>3, <2>1, GoneOn
  <2>3. stack \in Passed
    BY <1>1, <1>4, <1>7 DEF Passed
  <2>4. ASSUME NEW i \in 1..Len(tried')
        PROVE  Before(tried'[i], stack') /\ tried'[i] \in Passed'
    <3>1. CASE i = Len(tried')
      BY <1>2, <1>4, <1>5, <2>2, <2>3, <3>1
    <3>2. CASE i # Len(tried')
      <4>1. i \in 1..Len(tried)
        BY <1>5, <3>2
      <4>2. tried'[i] = tried[i] /\ Before(tried[i], stack) /\ tried[i] \in Passed
        BY <1>3, <1>5, <4>1 DEF Frontier
      <4>3. tried[i] \in AllEnds
        BY <4>2 DEF Passed
      <4>. QED
        BY <1>2, <2>2, <4>2, <4>3
    <3>. QED
      BY <3>1, <3>2
  <2>5. ASSUME NEW p \in AllEnds, Before(p, stack')
        PROVE  \E j \in 1..Len(tried') : p = tried'[j]
    <3>1. CASE p = stack
      <4>1. Len(tried') \in 1..Len(tried')
        BY <1>5
      <4>. QED
        BY <1>5, <3>1, <4>1
    <3>2. CASE Before(p, stack)
      <4>1. PICK j \in 1..Len(tried) : p = tried[j]
        BY <1>3, <3>2 DEF Frontier
      <4>2. j \in 1..Len(tried') /\ tried'[j] = tried[j]
        BY <1>5, <4>1
      <4>. QED
        BY <4>1, <4>2
    <3>. QED
      BY <2>2, <2>5, <3>1, <3>2
  <2>6. Frontier'
    BY <1>2, <2>4, <2>5 DEF Frontier
  <2>7. SearchInv'
    BY <2>1, <2>6 DEF SearchInv
  <2>. QED
    BY <1>5, <2>1, <2>2, <2>7 DEF OrderInv, Dispatched
<1>. QED
  BY <1>6, <1>7

(* The handler that declines was tried last.                                 *)
LEMMA HandlerSkipsOrder ==
  ASSUME IndInv, OrderInv, HandlerSkips
  PROVE  OrderInv'
<1>1. /\ mode = "run" /\ mode' = "next" /\ stack' = Rest /\ skipped' = TRUE
      /\ UNCHANGED <<tree, context>> /\ tried' = tried
  BY DEF HandlerSkips
<1>2. AllEnds' = AllEnds /\ Passed \subseteq Passed'
  BY <1>1, PlacesKept
<1>3. /\ OnTheWay /\ TriedInv /\ tried \in Seq(Seq(Frames))
      /\ tried # <<>> /\ tried[Len(tried)] = stack
  BY <1>1 DEF OrderInv, SearchInv, Dispatched
<1>4. HasRoute /\ AtRoute \in Leaves
  BY <1>1, <1>3 DEF OnTheWay
<1>5. stack \in AllEnds /\ RouteAt(stack) = AtRoute
  BY <1>1, <1>3, <1>4, AtLeaf
<1>6. /\ OnTheWay'
      /\ \A p \in AllEnds : Before(p, stack') <=> Before(p, stack) \/ p = stack
  BY <1>1, <1>3, <1>4, GoneOn
<1>7. TriedInv'
  BY <1>1, <1>2, <1>3, TriedKept
<1>8. Len(tried) \in Nat \ {0}
  BY <1>3, EmptySeq, LenProperties
<1>9. stack \in Passed'
  <2>1. routes' = routes
    BY <1>1 DEF tree
  <2>2. stack \in AllEnds' /\ RouteAt(stack) \in Leaves
    BY <1>2, <1>4, <1>5
  <2>3. \A p : RouteAt(p)' = RouteAt(p)
    BY <2>1 DEF RouteAt
  <2>. QED
    BY <1>1, <2>2, <2>3 DEF Passed
<1>10. ASSUME NEW i \in 1..Len(tried) PROVE Before(tried[i], stack') /\ tried[i] \in Passed'
  <2>1. CASE i = Len(tried)
    BY <1>3, <1>5, <1>6, <1>9, <2>1
  <2>2. CASE i # Len(tried)
    <3>1. i \in 1..Len(tried) - 1 /\ Len(tried) \in 1..Len(tried)
      BY <1>8, <2>2
    <3>2. tried[i] \in Passed /\ tried[i] \in AllEnds
      BY <1>3, <3>1 DEF TriedInv
    <3>3. Before(tried[i], stack)
      BY <1>3, <3>1 DEF TriedInv
    <3>. QED
      BY <1>2, <1>6, <3>2, <3>3
  <2>. QED
    BY <2>1, <2>2
<1>11. ASSUME NEW p \in AllEnds, Before(p, stack')
       PROVE  \E j \in 1..Len(tried) : p = tried[j]
  <2>1. Len(tried) \in 1..Len(tried)
    BY <1>8
  <2>2. Before(p, stack) \/ p = stack
    BY <1>6, <1>11
  <2>. QED
    BY <1>3, <2>1, <2>2 DEF TriedInv
<1>12. Frontier'
  BY <1>1, <1>2, <1>10, <1>11 DEF Frontier
<1>13. SearchInv'
  BY <1>1, <1>12 DEF SearchInv
<1>. QED
  BY <1>1, <1>3, <1>6, <1>7, <1>13 DEF OrderInv, Dispatched

(* A router that is left with nothing matched: what lies in it was tried, so *)
(* its parent goes on as if the router had been one registration.            *)
LEMMA UnmatchedLeaveOrder ==
  ASSUME IndInv, OrderInv, Leave, ~res.matched
  PROVE  OrderInv'
<1>. DEFINE n == Len(stack)
            up == Up(stack)
<1>1. /\ mode = "leave" /\ Resume /\ tried' = tried /\ skipped' = skipped
      /\ UNCHANGED <<tree, context>> /\ ~res'.matched
  BY DEF Leave, Return
<1>2. /\ stack \in Seq(Frames) /\ stack # <<>> /\ n \in Nat \ {0} /\ Top = stack[n]
  BY <1>1, StackTypes DEF IndInv, TypeOK
<1>3. /\ up \in Seq(Frames) /\ Len(up) = n - 1 /\ \A i \in 1..Len(up) : up[i] = stack[i]
  BY <1>2, UpTypes DEF IndInv
<1>. HIDE DEF up
<1>4. /\ stack' \in Seq(Frames) /\ Len(stack') = n - 1
      /\ \A i \in 1..Len(stack') : stack'[i].router = stack[i].router
      /\ \A i \in 1..Len(stack') : i < Len(stack') => stack'[i] = stack[i]
      /\ stack' # <<>> => stack'[Len(stack')].at = stack[Len(stack')].at + 1
      /\ mode' = IF stack' = <<>> THEN "bot" ELSE "next"
      /\ stack' = <<>> <=> n = 1
  BY <1>1, <1>2, ResumeTypes, EmptySeq DEF IndInv
<1>5. AllEnds' = AllEnds /\ Passed \subseteq Passed'
  BY <1>1, PlacesKept
<1>6. OnTheWay /\ TriedInv /\ Frontier /\ tried \in Seq(Seq(Frames))
  BY <1>1 DEF OrderInv, SearchInv, Dispatched
<1>7. TriedInv'
  BY <1>1, <1>5, <1>6, TriedKept
<1>8. ASSUME NEW p \in AllEnds, Extends(p, up) PROVE Before(p, stack)
  BY <1>1, <1>3, <1>6, <1>8, LeftBehind
<1>9. CASE n = 1
  <2>1. up = <<>> /\ mode' = "bot"
    BY <1>3, <1>4, <1>9, EmptySeq
  <2>2. ASSUME NEW p \in AllEnds PROVE \E j \in 1..Len(tried) : p = tried[j]
    <3>1. p \in Seq(Frames)
      BY DEF AllEnds
    <3>2. Extends(p, up)
      BY <1>3, <1>9, <3>1, WayTypes DEF Extends
    <3>3. Before(p, stack)
      BY <1>8, <3>2
    <3>. QED
      BY <1>6, <3>3 DEF Frontier
  <2>3. SearchInv'
    BY <1>1, <1>5, <1>6, <2>1, <2>2 DEF SearchInv, Frontier
  <2>4. OnTheWay'
    BY <2>1 DEF OnTheWay
  <2>. QED
    BY <1>1, <1>6, <1>7, <2>1, <2>3, <2>4 DEF OrderInv, Dispatched
<1>10. CASE n # 1
  <2>1. mode' = "next" /\ stack' # <<>> /\ up # <<>> /\ Len(up) \in 1..n - 1 /\ Len(up) \in Nat \ {0}
    BY <1>2, <1>3, <1>4, <1>10, EmptySeq
  <2>2. ASSUME NEW p \in AllEnds PROVE Before(p, stack') <=> Before(p, stack)
    <3>1. p \in Seq(Frames)
      BY DEF AllEnds
    <3>2. Len(stack') = Len(up) /\ \A i \in 1..Len(up) - 1 : stack'[i] = up[i]
      <4>1. \A i \in 1..Len(up) - 1 : i \in 1..Len(up) /\ i \in 1..Len(stack') /\ i < Len(stack')
        BY <1>3, <1>4, <2>1
      <4>. QED
        BY <1>3, <1>4, <4>1
    <3>3. stack'[Len(up)].router = up[Len(up)].router /\ stack'[Len(up)].at = up[Len(up)].at + 1
      <4>1. Len(up) \in 1..Len(up)
        BY <2>1
      <4>. QED
        BY <1>3, <1>4, <2>1, <3>2, <4>1
    <3>4. Before(p, stack') <=> Before(p, up) \/ Extends(p, up)
      BY <1>3, <1>4, <2>1, <3>1, <3>2, <3>3, BeforeAdvanced
    <3>5. Len(stack) = Len(up) + 1 /\ \A i \in 1..Len(up) : stack[i] = up[i]
      BY <1>2, <1>3
    <3>6. /\ Before(p, up) => Before(p, stack)
          /\ Before(p, stack) => Before(p, up) \/ Extends(p, up)
      BY <1>2, <1>3, <3>1, <3>5, BeforeReturned
    <3>. QED
      BY <1>8, <3>4, <3>6
  <2>3. Frontier'
    <3>1. \A i \in 1..Len(tried') : Before(tried'[i], stack') /\ tried'[i] \in Passed'
      BY <1>1, <1>5, <1>6, <2>2 DEF Frontier, TriedInv
    <3>2. \A p \in AllEnds' : Before(p, stack') => \E j \in 1..Len(tried') : p = tried'[j]
      BY <1>1, <1>5, <1>6, <2>2 DEF Frontier
    <3>. QED
      BY <3>1, <3>2 DEF Frontier
  <2>4. SearchInv'
    BY <2>1, <2>3 DEF SearchInv
  <2>5. OnTheWay'
    <3>. DEFINE m == Len(stack')
    <3>1. m = n - 1 /\ m \in Nat \ {0} /\ Top' = stack'[m]
      BY <1>3, <1>4, <2>1 DEF Top, Last
    <3>2. /\ stack[1].router = Root
          /\ \A i \in 1..n - 1 :
               /\ stack[i].at <= Len(routes[stack[i].router])
               /\ stack[i + 1].router = routes[stack[i].router][stack[i].at]
               /\ Verdict(stack[i].router) = "next"
      BY <1>1, <1>6 DEF OnTheWay
    <3>3. routes' = routes /\ outer' = outer
      BY <1>1 DEF tree, context
    <3>4. 1 \in 1..m /\ m \in 1..m /\ m \in 1..n - 1
      BY <3>1
    <3>5. stack'[1].router = Root /\ Verdict(stack'[m].router) = "next"
      BY <1>4, <3>2, <3>4
    <3>6. ASSUME NEW i \in 1..m - 1
          PROVE  /\ stack'[i].at <= Len(routes[stack'[i].router])
                 /\ stack'[i + 1].router = routes[stack'[i].router][stack'[i].at]
                 /\ Verdict(stack'[i].router) = "next"
      <4>1. i \in 1..m /\ i < m /\ i + 1 \in 1..m /\ i \in 1..n - 1
        BY <3>1
      <4>2. stack'[i] = stack[i] /\ stack'[i + 1].router = stack[i + 1].router
        BY <1>4, <4>1
      <4>. QED
        BY <3>2, <4>1, <4>2
    <3>. HIDE DEF m
    <3>7. \A i \in 1..Len(stack') - 1 :
            /\ stack'[i].at <= Len(routes'[stack'[i].router])
            /\ stack'[i + 1].router = routes'[stack'[i].router][stack'[i].at]
            /\ Verdict(stack'[i].router) = "next"
      BY <3>3, <3>6 DEF m
    <3>. QED
      BY <2>1, <3>1, <3>3, <3>5, <3>7 DEF OnTheWay, Verdict
  <2>. QED
    BY <1>1, <1>6, <1>7, <2>1, <2>4, <2>5 DEF OrderInv, Dispatched
<1>. QED
  BY <1>9, <1>10

LEMMA MatchedLeaveOrder ==
  ASSUME IndInv, OrderInv, Leave, res.matched
  PROVE  OrderInv'
<1>. DEFINE n == Len(stack)
<1>1. /\ mode = "leave" /\ Resume /\ tried' = tried /\ skipped' = skipped
      /\ UNCHANGED <<tree, context>> /\ res'.matched
  BY DEF Leave, Return
<1>2. /\ stack' \in Seq(Frames) /\ n \in Nat \ {0} /\ Len(stack') = n - 1
      /\ \A i \in 1..Len(stack') : stack'[i] = stack[i]
      /\ mode' = IF stack' = <<>> THEN "bot" ELSE "leave"
      /\ (stack' = <<>> <=> n = 1)
  BY <1>1, ResumeTypes, EmptySeq DEF IndInv
<1>3. AllEnds' = AllEnds /\ Passed \subseteq Passed'
  BY <1>1, PlacesKept
<1>4. OnTheWay /\ TriedInv /\ tried \in Seq(Seq(Frames))
  BY <1>1 DEF OrderInv, Dispatched
<1>5. TriedInv'
  BY <1>1, <1>3, <1>4, TriedKept
<1>6. SearchInv'
  BY <1>1, <1>2 DEF SearchInv
<1>7. OnTheWay'
  <2>. SUFFICES ASSUME stack' # <<>> PROVE OnTheWay'
    BY <1>2 DEF OnTheWay
  <2>1. /\ stack[1].router = Root
        /\ \A i \in 1..n - 1 :
             /\ stack[i].at <= Len(routes[stack[i].router])
             /\ stack[i + 1].router = routes[stack[i].router][stack[i].at]
             /\ Verdict(stack[i].router) = "next"
    BY <1>1, <1>4 DEF OnTheWay
  <2>2. routes' = routes /\ outer' = outer
    BY <1>1 DEF tree, context
  <2>3. stack'[1].router = Root
    BY <1>2, <2>1
  <2>4. ASSUME NEW i \in 1..Len(stack') - 1
        PROVE  /\ stack'[i].at <= Len(routes'[stack'[i].router])
               /\ stack'[i + 1].router = routes'[stack'[i].router][stack'[i].at]
               /\ Verdict(stack'[i].router) = "next"
    <3>1. i \in 1..Len(stack') /\ i + 1 \in 1..Len(stack') /\ i \in 1..n - 1
      BY <1>2
    <3>. QED
      BY <1>2, <2>1, <2>2, <3>1
  <2>. QED
    BY <1>1, <1>2, <2>2, <2>3, <2>4 DEF OnTheWay, Verdict
<1>. QED
  BY <1>1, <1>2, <1>4, <1>5, <1>6, <1>7 DEF OrderInv, Dispatched

LEMMA NextOrder ==
  ASSUME IndInv, OrderInv, [Next]_vars
  PROVE  OrderInv'
<1>1. CASE Wire \/ Look
  BY <1>1, NotYetOrder DEF Wire, Include, Handle, AddRoute, OnError, UseOuter, Look, Decide,
     LookInto, LookAt, LookOn, LookPanics, Dispatched, dispatch, history
<1>2. CASE Walk
  <2>1. CASE \E err \in Errors : HandlerReturns(err)
    BY <2>1, HandlerReturnsOrder
  <2>2. CASE Leave
    BY <2>2, UnmatchedLeaveOrder, MatchedLeaveOrder
  <2>. QED
    BY <1>2, <2>1, <2>2, CallNextOrder, ShortCircuitOrder, TrySubOrder, TryLeafOrder,
       ExhaustedOrder, HandlerSkipsOrder, PanicsOrder, ResolveOrder DEF Walk
<1>. QED
  BY <1>1, <1>2, DispatchOrder, StutterOrder DEF Next

(* The search for a handler is where the order of the tree says it is.       *)
THEOREM InOrder == Spec => [](IndInv /\ OrderInv)
<1>1. Init => OrderInv
  <2>. SUFFICES ASSUME Init PROVE OrderInv
    OBVIOUS
  <2>1. tried = <<>> /\ mode = "wiring" /\ <<>> \in Seq(Seq(Frames))
    BY EmptySeq DEF Init
  <2>. QED
    BY <2>1 DEF OrderInv, Dispatched
<1>2. IndInv /\ OrderInv /\ [Next]_vars => OrderInv'
  BY NextOrder
<1>. QED
  BY <1>1, <1>2, Invariance, PTL DEF Spec

(* Ends are sequences of frames. *)
LEMMA EndsAreEnds ==
  ASSUME IndInv
  PROVE  Ends \subseteq AllEnds
<1>1. Positions \subseteq Frames
  <2>1. \A r \in Routers : Len(routes[r]) \in Nat
    BY LenProperties DEF IndInv, TypeOK
  <2>. QED
    BY <2>1 DEF Positions, Frames
<1>2. ASSUME NEW p \in Ends PROVE p \in Seq(Frames) /\ IsEnd(p)
  <2>1. PICK k \in 0..Depth : p \in [1..k -> Positions]
    BY DEF Ends
  <2>2. Depth \in Nat
    BY RouterAssumption, FS_Subset, FS_CardinalityType DEF Depth
  <2>3. k \in Nat /\ p \in [1..k -> Frames]
    BY <1>1, <2>1, <2>2
  <2>4. p \in Seq(Frames)
    BY <2>3, SeqDef
  <2>. QED
    BY <2>4 DEF Ends
<1>. QED
  BY <1>2 DEF AllEnds

(* A router on a way reaches those further down it, ... *)
LEMMA WayReaches ==
  ASSUME IndInv, NEW p \in Seq(Frames), IsPlace(p), NEW i \in 1..Len(p)
  PROVE  \A k \in i..Len(p) : Reaches(p[i].router, p[k].router)
<1>1. /\ Len(p) \in Nat
      /\ \A j \in 1..Len(p) :
           /\ p[j].router \in Routers /\ p[j].at \in Nat /\ p[j].at >= 1
           /\ Len(routes[p[j].router]) \in Nat /\ p[j].at <= Len(routes[p[j].router])
      /\ \A j \in 1..Len(p) - 1 : p[j + 1].router = routes[p[j].router][p[j].at]
  BY WayTypes, LenProperties DEF IndInv, TypeOK, IsPlace, IsWay
<1>2. SUFFICES ASSUME NEW S \in SUBSET Routers, p[i].router \in S, Closed(S),
                      NEW k \in i..Len(p), p[k].router \notin S
               PROVE  FALSE
  BY DEF Reaches
<1>. DEFINE T == {j \in i..Len(p) : p[j].router \notin S}
<1>3. PICK x \in T : \A y \in T : x <= y
  <2>1. T \subseteq Nat /\ T # {}
    BY <1>1, <1>2
  <2>. HIDE DEF T
  <2>. QED
    BY <2>1, LeastNumber
<1>4. x - 1 \in 1..Len(p) - 1 /\ x - 1 \in i..Len(p) /\ x - 1 + 1 = x /\ x \in 1..Len(p)
  BY <1>1, <1>2, <1>3
<1>5. p[x - 1].router \in S
  BY <1>1, <1>3, <1>4
<1>6. p[x].router \in Elements(routes[p[x - 1].router])
  <2>1. p[x].router = routes[p[x - 1].router][p[x - 1].at]
    BY <1>1, <1>4
  <2>2. p[x - 1].at \in 1..Len(routes[p[x - 1].router])
    BY <1>1, <1>4
  <2>. QED
    BY <2>1, <2>2 DEF Elements
<1>7. p[x].router \in Subs(p[x - 1].router)
  BY <1>1, <1>4, <1>6 DEF Subs
<1>. QED
  BY <1>2, <1>3, <1>5, <1>7 DEF Closed

(* ... so in an acyclic tree it meets no router twice, ... *)
LEMMA NoRouterTwice ==
  ASSUME IndInv, Acyclic, NEW p \in Seq(Frames), IsPlace(p), NEW i \in 1..Len(p),
         NEW k \in 1..Len(p), i < k
  PROVE  p[i].router # p[k].router
<1>1. /\ Len(p) \in Nat
      /\ \A j \in 1..Len(p) :
           /\ p[j].router \in Routers /\ p[j].at \in Nat /\ p[j].at >= 1
           /\ Len(routes[p[j].router]) \in Nat /\ p[j].at <= Len(routes[p[j].router])
      /\ \A j \in 1..Len(p) - 1 : p[j + 1].router = routes[p[j].router][p[j].at]
  BY WayTypes, LenProperties DEF IndInv, TypeOK, IsPlace, IsWay
<1>2. i \in 1..Len(p) - 1 /\ i + 1 \in 1..Len(p) /\ k \in (i + 1)..Len(p)
  BY <1>1
<1>3. p[i + 1].router \in Subs(p[i].router)
  <2>1. p[i + 1].router \in Elements(routes[p[i].router])
    <3>1. p[i + 1].router = routes[p[i].router][p[i].at]
      BY <1>1, <1>2
    <3>2. p[i].at \in 1..Len(routes[p[i].router])
      BY <1>1, <1>2
    <3>. QED
      BY <3>1, <3>2 DEF Elements
  <2>. QED
    BY <1>1, <1>2, <2>1 DEF Subs
<1>4. Reaches(p[i + 1].router, p[k].router)
  BY <1>2, WayReaches
<1>5. ~Reaches(p[i + 1].router, p[i].router)
  BY <1>1, <1>3 DEF Acyclic
<1>. QED
  BY <1>4, <1>5

(* ... and is no longer than there are routers that have routes.             *)
LEMMA EveryEnd ==
  ASSUME IndInv, Acyclic
  PROVE  AllEnds \subseteq Ends
<1>. SUFFICES ASSUME NEW p \in Seq(Frames), IsEnd(p) PROVE p \in Ends
  BY DEF AllEnds
<1>1. IsPlace(p)
  BY DEF IsEnd
<1>2. /\ Len(p) \in Nat
      /\ \A j \in 1..Len(p) :
           /\ p[j] \in Frames /\ p[j].router \in Routers /\ p[j].at \in Nat /\ p[j].at >= 1
           /\ p[j].at <= Len(routes[p[j].router])
  BY <1>1, WayTypes DEF IsPlace, IsWay
<1>3. \A r \in Routers : Len(routes[r]) \in Nat /\ (routes[r] = <<>> <=> Len(routes[r]) = 0)
  BY EmptySeq, LenProperties DEF IndInv, TypeOK
<1>. DEFINE R == {r \in Routers : routes[r] # <<>>}
            f == [j \in 1..Len(p) |-> p[j].router]
<1>4. Len(p) <= Cardinality(R)
  <2>1. IsFiniteSet(R) /\ Cardinality(R) \in Nat
    BY RouterAssumption, FS_Subset, FS_CardinalityType
  <2>2. f \in [1..Len(p) -> R]
    BY <1>2, <1>3
  <2>3. IsFiniteSet(1..Len(p)) /\ Cardinality(1..Len(p)) = Len(p)
    BY <1>2, FS_Interval
  <2>4. \A i, k \in 1..Len(p) : i # k => f[i] # f[k]
    <3>1. \A i, k \in 1..Len(p) : i < k => f[i] # f[k]
      BY <1>1, NoRouterTwice
    <3>2. \A i, k \in 1..Len(p) : i # k => i < k \/ k < i
      BY <1>2
    <3>. QED
      BY <3>1, <3>2
  <2>. HIDE DEF R, f
  <2>5. ~(Cardinality(R) < Cardinality(1..Len(p)))
    BY <2>1, <2>2, <2>3, <2>4, FS_PigeonHole
  <2>. QED
    BY <1>2, <2>1, <2>3, <2>5
<1>5. Len(p) \in 0..Depth
  <2>1. Depth \in Nat /\ Len(p) <= Depth
    BY <1>4, RouterAssumption, FS_Subset, FS_CardinalityType DEF Depth
  <2>. QED
    BY <1>2, <2>1
<1>6. \A j \in 1..Len(p) : p[j] \in Positions
  <2>. SUFFICES ASSUME NEW j \in 1..Len(p) PROVE p[j] \in Positions
    OBVIOUS
  <2>1. p[j] = [router |-> p[j].router, at |-> p[j].at]
    BY <1>2 DEF Frames
  <2>2. p[j].router \in Routers /\ p[j].at \in 1..Len(routes[p[j].router])
    BY <1>2, <1>3
  <2>. QED
    BY <2>1, <2>2 DEF Positions
<1>7. p \in [1..Len(p) -> Positions]
  BY <1>6, LenProperties, ElementOfSeq
<1>. QED
  BY <1>5, <1>7 DEF Ends

(* What RegistrationOrder and SyncDecisionRight say of Ends they say of every *)
(* place where an update may be settled: includes cannot be so deep that one  *)
(* is left out.                                                               *)
THEOREM NoEndLeftOut == Spec => [](Ends = AllEnds)
<1>1. IndInv /\ Acyclic => Ends = AllEnds
  BY EndsAreEnds, EveryEnd
<1>. QED
  BY <1>1, Invariance, PTL

(* Registration order is priority: the places are tried in the order of the  *)
(* tree, none is passed over before the last, and when nothing settled the   *)
(* update all have been tried - whatever the tree, what middleware and       *)
(* handlers decline, and what is wired meanwhile.                            *)
THEOREM RegistrationIsPriority == Spec => []RegistrationOrder
<1>1. ASSUME IndInv, OrderInv PROVE RegistrationOrder
  <2>. SUFFICES ASSUME Dispatched PROVE RegistrationOrder
    BY DEF RegistrationOrder
  <2>1. TriedInv /\ SearchInv /\ Ends \subseteq AllEnds
    BY <1>1, EndsAreEnds DEF OrderInv
  <2>2. \A i \in 1..Len(tried) :
          IsEnd(tried[i]) /\ \A j \in 1..i - 1 : Before(tried[j], tried[i])
    BY <2>1 DEF TriedInv, AllEnds
  <2>3. tried # <<>> =>
          \A p \in Ends : Before(p, tried[Len(tried)]) => p \in Elements(tried)
    <3>1. tried # <<>> => Len(tried) \in 1..Len(tried)
      BY <1>1, EmptySeq, LenProperties DEF OrderInv
    <3>. QED
      BY <2>1, <3>1 DEF TriedInv, Elements
  <2>4. \A i \in 1..Len(tried) - 1 :
          RouteAt(tried[i]) \in Leaves /\ (~skipped => RouteAt(tried[i]) \notin matches)
    BY <2>1 DEF TriedInv, Passed
  <2>5. mode = "done" /\ ~res.matched => Ends \subseteq Elements(tried)
    BY <2>1 DEF SearchInv, Elements
  <2>. QED
    BY <2>2, <2>3, <2>4, <2>5 DEF RegistrationOrder
<1>. QED
  BY <1>1, InOrder, PTL

-----------------------------------------------------------------------------
(* The walk of firstMatchingRoute *)

(* The ways to a registration, whatever middleware there is on them.         *)
LeafWays == {p \in Seq(Frames) : IsWay(p) /\ RouteAt(p) \in Leaves}

(* What the walk is in, but for its last route, is a way from the root.      *)
Trail(s) ==
  /\ s[1].router = Root
  /\ \A i \in 1..Len(s) - 1 :
       /\ s[i].at <= Len(routes[s[i].router])
       /\ s[i + 1].router = routes[s[i].router][s[i].at]

Unforeseen(s) == \A p \in LeafWays : Before(p, s) => RouteAt(p) \notin foreseen

(* It has come past no registration that matches; where it ends it has found *)
(* the first, and when there is none it has found nothing.                   *)
AheadInv ==
  /\ mode = "wiring" => ahead = <<>> /\ foreseen = Nil
  /\ mode = "deciding" => Trail(ahead) /\ Unforeseen(ahead) /\ foreseen \subseteq Leaves
  /\ mode \notin {"wiring", "deciding", "aborted"} /\ foreseen # Nil =>
       IF ahead = <<>> THEN \A p \in LeafWays : RouteAt(p) \notin foreseen
       ELSE ahead \in LeafWays /\ RouteAt(ahead) \in foreseen /\ Unforeseen(ahead)

LEMMA LeafWaysKept ==
  ASSUME UNCHANGED tree
  PROVE  LeafWays' = LeafWays /\ \A p : RouteAt(p)' = RouteAt(p)
<1>1. routes' = routes
  BY DEF tree
<1>. QED
  BY <1>1 DEF LeafWays, IsWay, RouteAt

(* A registration a router is at is the end of its way, ... *)
LEMMA LeafIsWay ==
  ASSUME TypeOK, NEW s \in Seq(Frames), s # <<>>, Trail(s), HasNext(s), RouteOf(s) \in Leaves
  PROVE  s \in LeafWays /\ RouteAt(s) = RouteOf(s)
<1>1. Len(s) \in Nat \ {0} /\ Last(s) = s[Len(s)]
  BY WalkTypes
<1>2. RouteAt(s) = RouteOf(s)
  BY <1>1 DEF RouteAt, RouteOf
<1>3. s[Len(s)].at <= Len(routes[s[Len(s)].router])
  BY <1>1 DEF HasNext
<1>4. \A i \in 1..Len(s) : i = Len(s) \/ i \in 1..Len(s) - 1
  BY <1>1
<1>5. IsWay(s)
  BY <1>3, <1>4 DEF IsWay, Trail
<1>. QED
  BY <1>2, <1>5 DEF LeafWays

(* ... beyond which nothing lies.                                            *)
LEMMA NothingBelowLeaf ==
  ASSUME NEW s \in LeafWays, NEW p \in LeafWays, Extends(p, s)
  PROVE  p = s
<1>1. /\ s \in Seq(Frames) /\ p \in Seq(Frames) /\ IsWay(p) /\ IsWay(s)
      /\ RouteAt(s) \in Leaves
  BY DEF LeafWays
<1>2. /\ Len(s) \in Nat /\ Len(p) \in Nat /\ (s = <<>> <=> Len(s) = 0)
      /\ \A i \in 1..Len(p) : p[i].router \in Routers
  BY <1>1, WayTypes
<1>3. Len(s) # 0
  BY <1>1, <1>2, RouterAssumption DEF RouteAt
<1>4. Len(s) <= Len(p) /\ \A i \in 1..Len(s) : p[i] = s[i]
  BY DEF Extends
<1>5. CASE Len(p) = Len(s)
  BY <1>1, <1>4, <1>5, SeqEqual
<1>6. CASE Len(p) # Len(s)
  <2>1. Len(s) \in 1..Len(p) - 1 /\ Len(s) + 1 \in 1..Len(p) /\ Len(s) \in 1..Len(s)
    BY <1>2, <1>3, <1>4, <1>6
  <2>2. p[Len(s) + 1].router = routes[p[Len(s)].router][p[Len(s)].at]
    BY <1>1, <2>1 DEF IsWay
  <2>3. p[Len(s) + 1].router = RouteAt(s)
    BY <1>2, <1>3, <1>4, <2>1, <2>2 DEF RouteAt
  <2>. QED
    BY <1>1, <1>2, <2>1, <2>3, RouterAssumption
<1>. QED
  BY <1>5, <1>6

(* What lies in a router with no route left lies before the end of it.       *)
LEMMA AllBehind ==
  ASSUME TypeOK, NEW s \in Seq(Frames), s # <<>>, Trail(s), ~HasNext(s),
         NEW p \in LeafWays, Extends(p, Up(s))
  PROVE  Before(p, s)
<1>. DEFINE n == Len(s)
<1>1. /\ n \in Nat \ {0} /\ Last(s) = s[n] /\ s[n] \in Frames
      /\ Len(routes[s[n].router]) \in Nat
  BY WalkTypes, LenProperties
<1>2. s[n].at \in Nat /\ s[n].router \in Routers /\ ~(s[n].at <= Len(routes[s[n].router]))
  BY <1>1 DEF Frames, HasNext
<1>3. p \in Seq(Frames) /\ IsWay(p) /\ RouteAt(p) \in Leaves
  BY DEF LeafWays
<1>4. /\ Len(p) \in Nat /\ (p = <<>> <=> Len(p) = 0)
      /\ \A i \in 1..Len(p) : p[i] \in Frames /\ p[i].at \in Nat
  BY <1>3, WayTypes
<1>5. n - 1 <= Len(p) /\ \A i \in 1..n - 1 : p[i] = s[i]
  <2>1. Len(Up(s)) = n - 1 /\ \A i \in 1..Len(Up(s)) : Up(s)[i] = s[i]
    BY UpTypes
  <2>. QED
    BY <2>1 DEF Extends
<1>6. /\ s[1].router = Root
      /\ \A i \in 1..n - 1 : s[i + 1].router = routes[s[i].router][s[i].at]
  BY DEF Trail
<1>. HIDE DEF n
<1>7. Len(p) # n - 1
  <2>. SUFFICES ASSUME Len(p) = n - 1 PROVE FALSE
    OBVIOUS
  <2>1. RouteAt(p) = s[n].router
    <3>1. CASE n = 1
      BY <1>4, <1>6, <3>1 DEF RouteAt
    <3>2. CASE n # 1
      <4>1. n - 1 \in 1..n - 1 /\ n - 1 + 1 = n
        BY <1>1, <3>2
      <4>2. p # <<>>
        BY <1>1, <1>4, <3>2
      <4>3. p[n - 1] = s[n - 1] /\ s[n].router = routes[s[n - 1].router][s[n - 1].at]
        BY <1>5, <1>6, <4>1
      <4>. QED
        BY <4>2, <4>3 DEF RouteAt
    <3>. QED
      BY <3>1, <3>2
  <2>. QED
    BY <1>2, <1>3, <2>1, RouterAssumption
<1>8. n \in 1..Len(p)
  <2>1. n \in Nat \ {0} /\ Len(p) \in Nat /\ n - 1 <= Len(p) /\ Len(p) # n - 1
    BY <1>1, <1>4, <1>5, <1>7
  <2>. QED
    BY <2>1
<1>9. p[n].router = s[n].router
  <2>1. CASE n = 1
    BY <1>3, <1>4, <1>6, <1>8, <2>1 DEF IsWay
  <2>2. CASE n # 1
    <3>1. n - 1 \in 1..Len(p) - 1 /\ n - 1 \in 1..n - 1 /\ n - 1 + 1 = n
      BY <1>1, <1>4, <1>8, <2>2
    <3>2. p[n].router = routes[p[n - 1].router][p[n - 1].at]
      BY <1>3, <3>1 DEF IsWay
    <3>. QED
      BY <1>5, <1>6, <3>1, <3>2
  <2>. QED
    BY <2>1, <2>2
<1>10. p[n].at < s[n].at
  <2>1. p[n].at <= Len(routes[s[n].router])
    BY <1>3, <1>8, <1>9 DEF IsWay
  <2>. QED
    BY <1>1, <1>2, <1>4, <1>8, <2>1
<1>. QED
  BY <1>1, <1>5, <1>8, <1>9, <1>10 DEF Before, n

(* Of two ways to registrations one comes before the other: they part where  *)
(* they first differ.                                                        *)
LEMMA OneIsFirst ==
  ASSUME NEW p \in LeafWays, NEW q \in LeafWays, p # q
  PROVE  Before(p, q) \/ Before(q, p)
<1>1. /\ p \in Seq(Frames) /\ IsWay(p) /\ p # <<>>
      /\ q \in Seq(Frames) /\ IsWay(q) /\ q # <<>>
  BY RouterAssumption DEF LeafWays, RouteAt
<1>2. /\ Len(p) \in Nat \ {0} /\ Len(q) \in Nat \ {0}
      /\ \A i \in 1..Len(p) : p[i] \in Frames /\ p[i].at \in Nat
      /\ \A i \in 1..Len(q) : q[i] \in Frames /\ q[i].at \in Nat
  BY <1>1, WayTypes
<1>. DEFINE T == {i \in 1..Len(p) : i <= Len(q) /\ p[i] # q[i]}
<1>3. T # {}
  <2>. SUFFICES ASSUME T = {} PROVE FALSE
    OBVIOUS
  <2>1. \A i \in 1..Len(p) : i <= Len(q) => p[i] = q[i]
    OBVIOUS
  <2>2. Extends(p, q) \/ Extends(q, p)
    <3>1. CASE Len(q) <= Len(p)
      <4>1. \A i \in 1..Len(q) : i \in 1..Len(p) /\ i <= Len(q)
        BY <1>2, <3>1
      <4>. QED
        BY <2>1, <3>1, <4>1 DEF Extends
    <3>2. CASE Len(p) <= Len(q)
      <4>1. \A i \in 1..Len(p) : i <= Len(q)
        BY <1>2, <3>2
      <4>. QED
        BY <2>1, <3>2, <4>1 DEF Extends
    <3>. QED
      BY <1>2, <3>1, <3>2
  <2>. QED
    BY <2>2, NothingBelowLeaf
<1>4. PICK x \in T : \A y \in T : x <= y
  <2>1. T \subseteq Nat
    BY <1>2
  <2>. HIDE DEF T
  <2>. QED
    BY <1>3, <2>1, LeastNumber
<1>5. x \in 1..Len(p) /\ x \in 1..Len(q) /\ x <= Len(p) /\ x <= Len(q) /\ p[x] # q[x]
  BY <1>2, <1>4
<1>6. \A j \in 1..x - 1 : p[j] = q[j]
  <2>. SUFFICES ASSUME NEW j \in 1..x - 1, p[j] # q[j] PROVE FALSE
    OBVIOUS
  <2>1. j \in 1..Len(p) /\ j <= Len(q) /\ ~(x <= j)
    BY <1>2, <1>5
  <2>2. j \in T
    BY <2>1
  <2>. QED
    BY <1>4, <2>1, <2>2
<1>7. p[x].router = q[x].router
  <2>1. CASE x = 1
    BY <1>1, <2>1 DEF IsWay
  <2>2. CASE x # 1
    <3>1. /\ x - 1 \in 1..Len(p) - 1 /\ x - 1 \in 1..Len(q) - 1 /\ x - 1 + 1 = x
          /\ x - 1 \in 1..x - 1
      BY <1>2, <1>5, <2>2
    <3>2. p[x].router = routes[p[x - 1].router][p[x - 1].at]
      BY <1>1, <3>1 DEF IsWay
    <3>3. q[x].router = routes[q[x - 1].router][q[x - 1].at]
      BY <1>1, <3>1 DEF IsWay
    <3>. QED
      BY <1>6, <3>1, <3>2, <3>3
  <2>. QED
    BY <2>1, <2>2
<1>8. p[x].at # q[x].at
  BY <1>2, <1>5, <1>7, SameFrame
<1>9. p[x].at < q[x].at \/ q[x].at < p[x].at
  BY <1>2, <1>5, <1>8
<1>. HIDE DEF T
<1>. QED
  BY <1>5, <1>6, <1>7, <1>9 DEF Before

LEMMA DecideAhead ==
  ASSUME IndInv, Decide
  PROVE  AheadInv'
<1>1. Len(<<>>) = 0 /\ <<>> \in Seq(Frames) /\ Root \in Routers
  BY EmptySeq, RouterAssumption
<1>2. /\ mode' = "deciding" /\ ahead' \in Seq(Frames) /\ Len(ahead') = 1
      /\ ahead'[1].router = Root /\ ahead'[1].at = 1 /\ foreseen' \subseteq Leaves
  <2>. DEFINE b == <<>>
  <2>1. b \in Seq(Frames) /\ Len(b) = 0 /\ ahead' = Into(b, Root)
    BY <1>1 DEF Decide
  <2>. HIDE DEF b
  <2>2. /\ ahead' \in Seq(Frames) /\ Len(ahead') = Len(b) + 1
        /\ ahead'[Len(b) + 1].router = Root /\ ahead'[Len(b) + 1].at = 1
    BY <1>1, <2>1, IntoTypes
  <2>3. Len(b) + 1 = 1
    BY <2>1
  <2>. QED
    BY <2>2, <2>3 DEF Decide, Registered
<1>3. Trail(ahead)'
  BY <1>2 DEF Trail
<1>4. ASSUME NEW p \in LeafWays', Before(p, ahead') PROVE FALSE
  <2>1. p \in Seq(Frames)
    BY DEF LeafWays
  <2>2. Len(p) \in Nat /\ \A i \in 1..Len(p) : p[i].at \in Nat /\ p[i].at >= 1
    BY <2>1, WayTypes
  <2>3. PICK i \in 1..Len(p) : i <= Len(ahead') /\ p[i].at < ahead'[i].at
    BY <1>4 DEF Before
  <2>4. i = 1
    BY <1>2, <2>2, <2>3
  <2>. QED
    BY <1>2, <2>2, <2>3, <2>4
<1>5. Unforeseen(ahead)'
  BY <1>4 DEF Unforeseen
<1>. QED
  BY <1>2, <1>3, <1>5 DEF AheadInv

LEMMA LookIntoAhead ==
  ASSUME IndInv, AheadInv, LookInto
  PROVE  AheadInv'
<1>. DEFINE n == Len(ahead)
<1>1. /\ mode = "deciding" /\ mode' = mode /\ foreseen' = foreseen
      /\ HasNext(ahead) /\ RouteOf(ahead) \in Routers /\ ahead' = Into(ahead, RouteOf(ahead))
      /\ UNCHANGED tree /\ routes' = routes
      /\ Trail(ahead) /\ Unforeseen(ahead) /\ foreseen \subseteq Leaves
  BY DEF LookInto, AheadInv, tree
<1>2. /\ ahead \in Seq(Frames) /\ ahead # <<>> /\ TypeOK
  BY <1>1 DEF IndInv, TypeOK
<1>3. n \in Nat \ {0} /\ Last(ahead) = ahead[n]
  BY <1>2, WalkTypes
<1>4. /\ ahead' \in Seq(Frames) /\ Len(ahead') = n + 1
      /\ \A i \in 1..n : ahead'[i] = ahead[i]
      /\ ahead'[n + 1].router = RouteOf(ahead) /\ ahead'[n + 1].at = 1
  BY <1>1, <1>2, IntoTypes
<1>5. Trail(ahead)'
  <2>1. ahead[n].at <= Len(routes[ahead[n].router])
        /\ RouteOf(ahead) = routes[ahead[n].router][ahead[n].at]
    BY <1>1, <1>3 DEF HasNext, RouteOf
  <2>2. ASSUME NEW i \in 1..n
        PROVE  /\ ahead'[i].at <= Len(routes[ahead'[i].router])
               /\ ahead'[i + 1].router = routes[ahead'[i].router][ahead'[i].at]
    <3>1. CASE i = n
      BY <1>4, <2>1, <3>1
    <3>2. CASE i # n
      <4>1. i \in 1..n - 1 /\ i + 1 \in 1..n
        BY <1>3, <3>2
      <4>. QED
        BY <1>1, <1>4, <4>1 DEF Trail
    <3>. QED
      BY <3>1, <3>2
  <2>3. Len(ahead') - 1 = n /\ 1 \in 1..n
    BY <1>3, <1>4
  <2>. QED
    BY <1>1, <1>4, <2>2, <2>3 DEF Trail
<1>6. Unforeseen(ahead)'
  <2>1. Len(ahead') = Len(ahead) + 1 /\ ahead'[Len(ahead')].at = 1
    BY <1>4
  <2>2. \A p \in Seq(Frames) : Before(p, ahead') <=> Before(p, ahead)
    BY <1>2, <1>4, <2>1, BeforeEntered
  <2>3. LeafWays \subseteq Seq(Frames)
    BY DEF LeafWays
  <2>. QED
    BY <1>1, <2>2, <2>3, LeafWaysKept DEF Unforeseen
<1>. QED
  BY <1>1, <1>5, <1>6 DEF AheadInv

(* Going on after a route that is itself done with. *)
LEMMA Further ==
  ASSUME TypeOK, NEW s \in Seq(Frames), s # <<>>, Trail(s), UNCHANGED tree,
         ahead' = Advance(s), foreseen' = foreseen,
         \A p \in LeafWays : Before(p, s) \/ Extends(p, s) => RouteAt(p) \notin foreseen
  PROVE  Trail(ahead)' /\ Unforeseen(ahead)'
<1>. DEFINE n == Len(s)
<1>1. routes' = routes /\ n \in Nat \ {0}
  BY WalkTypes DEF tree
<1>2. /\ ahead' \in Seq(Frames) /\ Len(ahead') = n
      /\ \A i \in 1..n : ahead'[i].router = s[i].router
      /\ \A i \in 1..n - 1 : ahead'[i] = s[i]
      /\ ahead'[n].at = s[n].at + 1
  BY AdvanceTypes
<1>3. Trail(ahead)'
  <2>1. 1 \in 1..n /\ \A i \in 1..n - 1 : i + 1 \in 1..n
    BY <1>1
  <2>. HIDE DEF n
  <2>. QED
    BY <1>1, <1>2, <2>1 DEF Trail, n
<1>4. n \in 1..n
  BY <1>1
<1>5. \A p \in Seq(Frames) : Before(p, ahead') <=> Before(p, s) \/ Extends(p, s)
  BY <1>2, <1>4, BeforeAdvanced
<1>6. LeafWays \subseteq Seq(Frames)
  BY DEF LeafWays
<1>7. Unforeseen(ahead)'
  BY <1>5, <1>6, LeafWaysKept DEF Unforeseen
<1>. QED
  BY <1>3, <1>7

LEMMA LookAtAhead ==
  ASSUME IndInv, AheadInv, LookAt
  PROVE  AheadInv'
<1>1. /\ mode = "deciding" /\ foreseen' = foreseen /\ UNCHANGED tree
      /\ HasNext(ahead) /\ RouteOf(ahead) \in Leaves
      /\ Trail(ahead) /\ Unforeseen(ahead) /\ foreseen \subseteq Leaves
  BY DEF LookAt, AheadInv
<1>2. /\ ahead \in Seq(Frames) /\ ahead # <<>> /\ TypeOK
  BY <1>1 DEF IndInv, TypeOK
<1>3. ahead \in LeafWays /\ RouteAt(ahead) = RouteOf(ahead)
  BY <1>1, <1>2, LeafIsWay
<1>4. CASE RouteOf(ahead) \in foreseen
  <2>1. mode' = "decided" /\ ahead' = ahead
    BY <1>4 DEF LookAt
  <2>2. LeafWays' = LeafWays /\ RouteAt(ahead)' = RouteAt(ahead)
    BY <1>1, <2>1, LeafWaysKept DEF RouteAt, tree
  <2>3. Unforeseen(ahead)'
    BY <1>1, <2>1, LeafWaysKept DEF Unforeseen
  <2>. QED
    BY <1>1, <1>2, <1>3, <1>4, <2>1, <2>2, <2>3 DEF AheadInv
<1>5. CASE RouteOf(ahead) \notin foreseen
  <2>1. mode' = mode /\ ahead' = Advance(ahead)
    BY <1>5 DEF LookAt
  <2>2. \A p \in LeafWays : Before(p, ahead) \/ Extends(p,
  ahead) => RouteAt(p) \notin foreseen
    BY <1>1, <1>3, <1>5, NothingBelowLeaf DEF Unforeseen
  <2>3. Trail(ahead)' /\ Unforeseen(ahead)'
    BY <1>1, <1>2, <2>1, <2>2, Further
  <2>. QED
    BY <1>1, <2>1, <2>3 DEF AheadInv
<1>. QED
  BY <1>4, <1>5

LEMMA LookOnAhead ==
  ASSUME IndInv, AheadInv, LookOn
  PROVE  AheadInv'
<1>. DEFINE up == Up(ahead)
<1>1. /\ mode = "deciding" /\ foreseen' = foreseen /\ UNCHANGED tree /\ ~HasNext(ahead)
      /\ Trail(ahead) /\ Unforeseen(ahead) /\ foreseen \subseteq Leaves
      /\ ahead' = (IF up = <<>> THEN <<>> ELSE Advance(up))
      /\ mode' = (IF up = <<>> THEN "decided" ELSE "deciding")
  BY DEF LookOn, AheadInv
<1>2. /\ ahead \in Seq(Frames) /\ ahead # <<>> /\ TypeOK /\ Len(ahead) \in Nat \ {0}
  BY <1>1, WalkTypes DEF IndInv, TypeOK
<1>3. /\ up \in Seq(Frames) /\ Len(up) = Len(ahead) - 1
      /\ \A i \in 1..Len(up) : up[i] = ahead[i]
      /\ up = <<>> <=> Len(ahead) = 1
  BY <1>2, UpTypes
<1>4. \A p \in LeafWays : Extends(p, up) => RouteAt(p) \notin foreseen
  BY <1>1, <1>2, AllBehind DEF Unforeseen
<1>. HIDE DEF up
<1>5. CASE up = <<>>
  <2>1. \A p \in LeafWays : Extends(p, up)
    <3>1. Len(up) = 0
      BY <1>3, <1>5
    <3>2. \A p \in LeafWays : Len(p) \in Nat
      BY LenProperties DEF LeafWays
    <3>. QED
      BY <3>1, <3>2 DEF Extends
  <2>2. \A p \in LeafWays' : RouteAt(p)' \notin foreseen'
    BY <1>1, <1>4, <2>1, LeafWaysKept
  <2>. QED
    BY <1>1, <1>5, <2>2 DEF AheadInv
<1>6. CASE up # <<>>
  <2>1. Trail(up)
    <3>1. 1 \in 1..Len(up) /\ \A i \in 1..Len(up) - 1 :
            i \in 1..Len(up) /\ i + 1 \in 1..Len(up) /\ i \in 1..Len(ahead) - 1
      BY <1>2, <1>3, <1>6
    <3>. QED
      BY <1>1, <1>3, <3>1 DEF Trail
  <2>2. \A p \in LeafWays : Before(p, up) => Before(p, ahead)
    <3>1. Len(ahead) = Len(up) + 1 /\ \A i \in 1..Len(up) : ahead[i] = up[i]
      BY <1>2, <1>3
    <3>2. LeafWays \subseteq Seq(Frames)
      BY DEF LeafWays
    <3>. QED
      BY <1>2, <1>3, <3>1, <3>2, BeforeReturned
  <2>3. \A p \in LeafWays : Before(p, up) \/ Extends(p, up) => RouteAt(p) \notin foreseen
    BY <1>1, <1>4, <2>2 DEF Unforeseen
  <2>4. Trail(ahead)' /\ Unforeseen(ahead)'
    BY <1>1, <1>2, <1>3, <1>6, <2>1, <2>3, Further
  <2>. QED
    BY <1>1, <1>6, <2>4 DEF AheadInv
<1>. QED
  BY <1>5, <1>6

(* Dispatching takes no notice of what was decided.                          *)
LEMMA DecisionKept ==
  ASSUME Dispatch \/ Walk \/ UNCHANGED vars
  PROVE  /\ UNCHANGED <<tree, ahead, foreseen>>
         /\ mode' = mode \/ (Dispatched' /\ mode # "deciding" /\ mode # "aborted")
<1>1. CASE UNCHANGED vars
  BY <1>1 DEF vars, decision
<1>2. CASE Dispatch
  BY <1>2 DEF Dispatch, decision, Dispatched
<1>3. CASE Walk
  <2>1. UNCHANGED <<tree, ahead, foreseen>>
    BY <1>3 DEF Walk, CallNext, ShortCircuit, TrySub, TryLeaf, Exhausted, HandlerReturns,
       HandlerSkips, Panics, Leave, Resolve, decision
  <2>2. mode # "deciding" /\ mode # "aborted"
    BY <1>3 DEF Walk, CallNext, ShortCircuit, TrySub, TryLeaf, Exhausted, HandlerReturns,
       HandlerSkips, Panics, MayPanic, Leave, Resolve
  <2>3. mode' = mode \/ Dispatched'
    BY <1>3 DEF Walk, CallNext, ShortCircuit, TrySub, TryLeaf, Exhausted, HandlerReturns,
       HandlerSkips, Panics, Leave, Resume, Resolve, Dispatched
  <2>. QED
    BY <2>1, <2>2, <2>3
<1>. QED
  BY <1>1, <1>2, <1>3

LEMMA DispatchAhead ==
  ASSUME AheadInv, Dispatch \/ Walk \/ UNCHANGED vars
  PROVE  AheadInv'
<1>1. /\ UNCHANGED <<tree, ahead, foreseen>>
      /\ mode' = mode \/ (Dispatched' /\ mode # "deciding" /\ mode # "aborted")
  BY DecisionKept
<1>2. LeafWays' = LeafWays /\ \A p : RouteAt(p)' = RouteAt(p)
  BY <1>1, LeafWaysKept
<1>3. Unforeseen(ahead)' <=> Unforeseen(ahead)
  BY <1>1, <1>2 DEF Unforeseen
<1>4. Trail(ahead)' <=> Trail(ahead)
  BY <1>1 DEF Trail, tree
<1>. QED
  BY <1>1, <1>2, <1>3, <1>4 DEF AheadInv, Dispatched

LEMMA NextAhead ==
  ASSUME IndInv, AheadInv, [Next]_vars
  PROVE  AheadInv'
<1>1. CASE Wire
  BY <1>1 DEF Wire, Include, Handle, AddRoute, OnError, UseOuter, decision, AheadInv
<1>2. CASE LookPanics
  BY <1>2 DEF LookPanics, AheadInv
<1>. QED
  BY <1>1, <1>2, DecideAhead, LookIntoAhead, LookAtAhead, LookOnAhead, DispatchAhead
     DEF Next, Look

(* The walk ahead is where the order of the tree says it is.                 *)
THEOREM AheadInOrder == Spec => []AheadInv
<1>1. Init => AheadInv
  BY DEF Init, AheadInv
<1>2. IndInv /\ AheadInv /\ [Next]_vars => AheadInv'
  BY NextAhead
<1>. QED
  BY <1>1, <1>2, Invariance, PTL DEF Spec

(* Where all middleware calls next, the ends are the ways to registrations.  *)
LEMMA EndsAreLeaves ==
  ASSUME \A r \in OuterRouters : outer[r] = "next"
  PROVE  AllEnds = LeafWays
BY DEF AllEnds, LeafWays, IsEnd, IsPlace, Settles, Verdict

(* The two walks agree: given the same answers of the filters, and unless a  *)
(* middleware or a handler declines, the registration that runs is the one   *)
(* firstMatchingRoute found, and when it found none, none runs - for every   *)
(* tree.                                                                     *)
THEOREM FirstMatchRuns == Spec => []SyncDecisionRight
<1>1. ASSUME IndInv, OrderInv, AheadInv PROVE SyncDecisionRight
  <2>. SUFFICES ASSUME foreseen = matches, ~skipped, \A r \in OuterRouters : outer[r] = "next"
                PROVE  /\ mode = "run" => ahead = stack
                       /\ mode = "done" /\ ~res.matched => ahead = <<>>
    BY DEF SyncDecisionRight
  <2>1. foreseen # Nil
    BY <1>1, RouterAssumption DEF IndInv, TypeOK
  <2>2. AllEnds = LeafWays /\ \A p \in Passed : RouteAt(p) \notin foreseen
    BY EndsAreLeaves DEF Passed
  <2>3. mode \in {"run", "done"} =>
          IF ahead = <<>> THEN \A p \in LeafWays : RouteAt(p) \notin foreseen
          ELSE ahead \in LeafWays /\ RouteAt(ahead) \in foreseen /\ Unforeseen(ahead)
    BY <1>1, <2>1 DEF AheadInv
  <2>4. ASSUME mode = "run" PROVE ahead = stack
    <3>1. OnTheWay /\ TriedInv /\ tried # <<>> /\ tried[Len(tried)] = stack
      BY <1>1, <2>4 DEF OrderInv, SearchInv, Dispatched
    <3>2. HasRoute /\ AtRoute \in Leaves /\ AtRoute \in foreseen
      BY <2>4, <3>1 DEF OnTheWay
    <3>3. stack \in LeafWays /\ RouteAt(stack) \in foreseen
      BY <1>1, <2>2, <2>4, <3>1, <3>2, AtLeaf
    <3>4. Len(tried) \in Nat \ {0} /\ Len(tried) \in 1..Len(tried)
      BY <1>1, <3>1, EmptySeq, LenProperties DEF OrderInv
    <3>5. ASSUME NEW p \in LeafWays, Before(p, stack) PROVE RouteAt(p) \notin foreseen
      <4>1. PICK j \in 1..Len(tried) : p = tried[j]
        BY <2>2, <3>1, <3>4, <3>5 DEF TriedInv
      <4>2. j # Len(tried)
        BY <3>1, <3>5, <4>1, NotBeforeItself DEF LeafWays
      <4>3. j \in 1..Len(tried) - 1
        BY <3>4, <4>1, <4>2
      <4>. QED
        BY <2>2, <3>1, <4>1, <4>3 DEF TriedInv
    <3>6. ahead \in LeafWays /\ RouteAt(ahead) \in foreseen /\ Unforeseen(ahead)
      BY <2>3, <2>4, <3>3
    <3>7. ~Before(ahead, stack) /\ ~Before(stack, ahead)
      BY <3>3, <3>5, <3>6 DEF Unforeseen
    <3>. QED
      BY <3>3, <3>6, <3>7, OneIsFirst
  <2>5. ASSUME mode = "done", ~res.matched PROVE ahead = <<>>
    <3>1. \A p \in LeafWays : RouteAt(p) \notin foreseen
      BY <1>1, <2>2, <2>5 DEF OrderInv, SearchInv, Dispatched
    <3>. QED
      BY <2>3, <2>5, <3>1
  <2>. QED
    BY <2>4, <2>5
<1>. QED
  BY <1>1, InOrder, AheadInOrder, PTL
=============================================================================
