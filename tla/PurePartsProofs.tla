--------------------------- MODULE PurePartsProofs ---------------------------
(***************************************************************************)
(* Theorems about the functions of PureParts, for every input: the texts,  *)
(* entities and limits of format.go and entity_text.go, the translations   *)
(* and numbers of i18n.go, the commands and members of filters.go, the     *)
(* buttons of callback_data.go, pagination.go and the keyboards' builder.  *)
(***************************************************************************)
EXTENDS PureParts, SequenceTheorems, WellFoundedInduction, FiniteSetTheorems, TLAPS

-----------------------------------------------------------------------------
(* Numbers: induction is by the least number, or the greatest below a bound, *)
(* that is a counterexample.                                                 *)

(* A set of numbers that is not empty has a least one. *)
LEMMA LeastNumber ==
  ASSUME NEW T, T \subseteq Nat, T # {}
  PROVE  \E x \in T : \A y \in T : x <= y
<1>. DEFINE R == OpToRel(<, Nat)
<1>1. IsWellFoundedOn(R, Nat)
  BY NatLessThanWellFounded, Zenon
<1>2. \A x, y \in Nat : x < y => <<x, y>> \in R
  BY DEF OpToRel
<1>. HIDE DEF R
<1>3. PICK x \in T : \A y \in T : ~ (<<y, x>> \in R)
  BY <1>1, WFMin
<1>4. ASSUME NEW y \in T PROVE x <= y
  <2>1. ~ (y < x)
    BY <1>2, <1>3
  <2>2. x \in Nat /\ y \in Nat
    OBVIOUS
  <2>. QED
    BY <2>1, <2>2
<1>. QED
  BY <1>4

(* Where a sequence is first in a set. *)
LEMMA FirstPlace ==
  ASSUME NEW n \in Nat, NEW T, T \subseteq 1..n, T # {}
  PROVE  \E i \in T : \A j \in 1..n : j < i => j \notin T
<1>1. PICK i \in T : \A j \in T : i <= j
  <2>1. T \subseteq Nat
    OBVIOUS
  <2> QED
    BY <2>1, LeastNumber
<1> QED
  BY <1>1

(* The least and the greatest of a set of positions *)
LEMMA Least ==
  ASSUME NEW T, T \subseteq Nat, T # {}
  PROVE  Text!Min(T) \in T /\ \A x \in T : Text!Min(T) <= x
<1>1. \E x \in T : \A y \in T : x <= y
  BY LeastNumber
<1> QED
  BY <1>1 DEF Text!Min

LEMMA Greatest ==
  ASSUME NEW n \in Nat, NEW T, T \subseteq 0..n, T # {}
  PROVE  Text!Max(T) \in T /\ \A x \in T : Text!Max(T) >= x
<1> DEFINE U == {d \in 0..n : n - d \in T}
<1>1. \A x \in T : x \in Int /\ 0 <= x /\ x <= n
  OBVIOUS
<1>2. \A x \in T : n - x \in U
  <2> SUFFICES ASSUME NEW x \in T
               PROVE  n - x \in 0..n /\ n - (n - x) = x
    OBVIOUS
  <2>1. x \in Int /\ 0 <= x /\ x <= n
    BY <1>1
  <2> QED
    BY <2>1
<1>3. U \subseteq Nat /\ U # {}
  <2>1. PICK x \in T : TRUE
    OBVIOUS
  <2>2. n - x \in U
    BY <1>2
  <2>3. \A d \in U : d \in Nat
    OBVIOUS
  <2> HIDE DEF U
  <2> QED
    BY <2>2, <2>3
<1>4. PICK d \in U : \A y \in U : d <= y
  <2> HIDE DEF U
  <2> QED
    BY <1>3, LeastNumber
<1>5. d \in 0..n /\ n - d \in T
  BY <1>4
<1> HIDE DEF U
<1>6. \A y \in T : n - d >= y
  <2> SUFFICES ASSUME NEW y \in T
               PROVE  n - d >= y
    OBVIOUS
  <2>1. d <= n - y
    BY <1>2, <1>4
  <2>2. y \in Int
    BY <1>1
  <2> QED
    BY <1>5, <2>1, <2>2
<1>7. \E z \in T : \A y \in T : z >= y
  BY <1>5, <1>6
<1> QED
  BY <1>7 DEF Text!Max

LEMMA MinMax ==
  ASSUME NEW a \in Int, NEW b \in Int
  PROVE  /\ Text!Max({a, b}) = IF a >= b THEN a ELSE b
         /\ Text!Min({a, b}) = IF a <= b THEN a ELSE b
<1>1. \A x \in {a, b} : (\A y \in {a, b} : x >= y) <=> x = IF a >= b THEN a ELSE b
  OBVIOUS
<1>2. \A x \in {a, b} : (\A y \in {a, b} : x <= y) <=> x = IF a <= b THEN a ELSE b
  OBVIOUS
<1>3. (IF a >= b THEN a ELSE b) \in {a, b} /\ (IF a <= b THEN a ELSE b) \in {a, b}
  OBVIOUS
<1> DEFINE hi == IF a >= b THEN a ELSE b
           lo == IF a <= b THEN a ELSE b
<1> HIDE DEF hi, lo
<1>4. \A x \in {a, b} : (\A y \in {a, b} : x >= y) <=> x = hi
  BY <1>1 DEF hi
<1>5. \A x \in {a, b} : (\A y \in {a, b} : x <= y) <=> x = lo
  BY <1>2 DEF lo
<1>6. hi \in {a, b} /\ lo \in {a, b}
  BY <1>3 DEF hi, lo
<1>7. Text!Max({a, b}) = hi
  BY <1>4, <1>6 DEF Text!Max
<1>8. Text!Min({a, b}) = lo
  BY <1>5, <1>6 DEF Text!Min
<1> QED
  BY <1>7, <1>8 DEF hi, lo

-----------------------------------------------------------------------------
(* Texts and entities *)

Utf16 == {u \in Seq(Text!Units) : Text!IsText(u)}

LEMMA Pairs ==
  ASSUME NEW u \in Utf16
  PROVE  /\ Len(u) \in Nat
         /\ \A i \in 1..Len(u) : u[i] = "high" => i < Len(u) /\ i + 1 \in 1..Len(u) /\ u[i + 1] = "low"
         /\ \A b \in Int : Text!InsidePair(u, b) <=> b \in 1..Len(u) - 1 /\ u[b] = "high"
<1>1. Len(u) \in Nat
  BY DEF Utf16
<1> QED
  BY <1>1 DEF Utf16, Text!IsText, Text!InsidePair

(* A boundary is in the text, at a character, and where an entity has it if   *)
(* that is in the text and at a character.                                    *)
LEMMA Clip ==
  ASSUME NEW b \in Int, NEW n \in Nat
  PROVE  Text!clip(b, n) = IF b < 0 THEN 0 ELSE IF b > n THEN n ELSE b
<1> DEFINE m == Text!Min({b, n})
<1>1. m = IF b <= n THEN b ELSE n
  BY MinMax
<1> HIDE DEF m
<1>2. m \in Int
  BY <1>1
<1>3. Text!Max({0, m}) = IF 0 >= m THEN 0 ELSE m
  BY <1>2, MinMax
<1> QED
  BY <1>1, <1>3 DEF Text!clip, m

LEMMA ClipRange ==
  ASSUME NEW e \in Entity, NEW n \in Nat
  PROVE  /\ Text!clipRange(e, n)[1] \in 0..n /\ Text!clipRange(e, n)[2] \in 0..n
         /\ Text!Stop(e) \in 0..n => Text!clipRange(e, n)[2] = Text!Stop(e)
         /\ e.offset \in 0..n /\ e.offset <= Text!Stop(e) => Text!clipRange(e, n)[1] = e.offset
<1> DEFINE end == Text!clip(Text!Stop(e), n)
           at  == Text!clip(e.offset, n)
<1>1. e.offset \in Int /\ e.length \in Int /\ Text!Stop(e) = e.offset + e.length /\ Text!Stop(e) \in Int
  BY DEF Entity, Text!Stop
<1>2. end = IF Text!Stop(e) < 0 THEN 0 ELSE IF Text!Stop(e) > n THEN n ELSE Text!Stop(e)
  BY <1>1, Clip
<1>3. at = IF e.offset < 0 THEN 0 ELSE IF e.offset > n THEN n ELSE e.offset
  BY <1>1, Clip
<1>4. Text!clipRange(e, n) = <<Text!Min({at, end}), end>>
  BY DEF Text!clipRange
<1> HIDE DEF end, at
<1>5. at \in 0..n /\ end \in 0..n
  BY <1>1, <1>2, <1>3
<1>6. Text!Min({at, end}) = IF at <= end THEN at ELSE end
  BY <1>5, MinMax
<1>7. Text!clipRange(e, n)[1] = (IF at <= end THEN at ELSE end) /\ Text!clipRange(e, n)[2] = end
  BY <1>4, <1>6
<1> QED
  BY <1>1, <1>2, <1>3, <1>5, <1>7

LEMMA Boundaries ==
  ASSUME NEW u \in Utf16, NEW entities \in SUBSET Entity
  PROVE  LET bounds == Text!entityBoundaries(entities, u)
         IN /\ 0 \in bounds /\ Len(u) \in bounds
            /\ \A b \in bounds : b \in 0..Len(u) /\ ~Text!InsidePair(u, b)
            /\ \A e \in entities :
                 /\ Text!Stop(e) \in 0..Len(u) /\ ~Text!InsidePair(u, Text!Stop(e)) => Text!Stop(e) \in bounds
                 /\ e.offset \in 0..Len(u) /\ e.offset <= Text!Stop(e) /\ ~Text!InsidePair(u, e.offset)
                      => e.offset \in bounds
<1> DEFINE n == Len(u)
           bounds == Text!entityBoundaries(entities, u)
           snapped(e, i) == Text!snapOutOfSurrogate(u, Text!clipRange(e, n)[i])
<1>1. n \in Nat
  BY Pairs
<1>2. bounds = {0, n} \cup {snapped(e, i) : e \in entities, i \in {1, 2}}
  BY DEF Text!entityBoundaries
<1>3. ~Text!InsidePair(u, 0) /\ ~Text!InsidePair(u, n)
  BY <1>1, Pairs
<1>4. \A b \in 0..n : /\ Text!snapOutOfSurrogate(u, b) \in 0..n
                      /\ ~Text!InsidePair(u, Text!snapOutOfSurrogate(u, b))
                      /\ ~Text!InsidePair(u, b) => Text!snapOutOfSurrogate(u, b) = b
  <2> SUFFICES ASSUME NEW b \in 0..n
               PROVE  /\ Text!snapOutOfSurrogate(u, b) \in 0..n
                      /\ ~Text!InsidePair(u, Text!snapOutOfSurrogate(u, b))
                      /\ ~Text!InsidePair(u, b) => Text!snapOutOfSurrogate(u, b) = b
    OBVIOUS
  <2>1. CASE ~Text!InsidePair(u, b)
    BY <2>1 DEF Text!snapOutOfSurrogate
  <2>2. CASE Text!InsidePair(u, b)
    <3>1. b \in 1..n - 1 /\ u[b] = "high"
      BY <1>1, <2>2, Pairs
    <3>2. b - 1 \in 0..n /\ b - 1 + 1 = b
      BY <1>1, <3>1
    <3>3. ASSUME Text!InsidePair(u, b - 1)
          PROVE  FALSE
      <4>1. b - 1 \in 1..n - 1 /\ u[b - 1] = "high"
        BY <1>1, <3>2, <3>3, Pairs
      <4>2. b - 1 \in 1..n
        BY <1>1, <4>1
      <4>3. u[b - 1 + 1] = "low"
        BY <4>1, <4>2, Pairs
      <4> QED
        BY <3>1, <3>2, <4>3
    <3> QED
      BY <2>2, <3>2, <3>3 DEF Text!snapOutOfSurrogate
  <2> QED
    BY <2>1, <2>2
<1>5. \A e \in entities : /\ Text!clipRange(e, n)[1] \in 0..n /\ Text!clipRange(e, n)[2] \in 0..n
                          /\ snapped(e, 1) \in bounds /\ snapped(e, 2) \in bounds
  BY <1>1, <1>2, ClipRange
<1>6. \A b \in bounds : b \in 0..n /\ ~Text!InsidePair(u, b)
  <2> SUFFICES ASSUME NEW b \in bounds
               PROVE  b \in 0..n /\ ~Text!InsidePair(u, b)
    OBVIOUS
  <2>1. CASE b \in {0, n}
    BY <1>1, <1>3, <2>1
  <2>2. ASSUME NEW e \in entities, NEW i \in {1, 2}, b = snapped(e, i)
        PROVE  b \in 0..n /\ ~Text!InsidePair(u, b)
    <3>1. Text!clipRange(e, n)[i] \in 0..n
      BY <1>5
    <3> QED
      BY <1>4, <2>2, <3>1
  <2> QED
    BY <1>2, <2>1, <2>2
<1>7. \A e \in entities :
        /\ Text!Stop(e) \in 0..n /\ ~Text!InsidePair(u, Text!Stop(e)) => Text!Stop(e) \in bounds
        /\ e.offset \in 0..n /\ e.offset <= Text!Stop(e) /\ ~Text!InsidePair(u, e.offset) => e.offset \in bounds
  <2> SUFFICES ASSUME NEW e \in entities
               PROVE  /\ Text!Stop(e) \in 0..n /\ ~Text!InsidePair(u, Text!Stop(e)) => Text!Stop(e) \in bounds
                      /\ e.offset \in 0..n /\ e.offset <= Text!Stop(e) /\ ~Text!InsidePair(u, e.offset)
                           => e.offset \in bounds
    OBVIOUS
  <2>1. /\ Text!Stop(e) \in 0..n => Text!clipRange(e, n)[2] = Text!Stop(e)
        /\ e.offset \in 0..n /\ e.offset <= Text!Stop(e) => Text!clipRange(e, n)[1] = e.offset
    BY <1>1, ClipRange
  <2>2. snapped(e, 1) \in bounds /\ snapped(e, 2) \in bounds
    BY <1>5
  <2> HIDE DEF bounds
  <2> QED
    BY <1>4, <2>1, <2>2
<1>8. 0 \in bounds /\ n \in bounds
  BY <1>2
<1> QED
  BY <1>6, <1>7, <1>8

-----------------------------------------------------------------------------
(* EntitySegments *)

(* The ranges between neighbours of a set of boundaries *)
RangesOf(n, bounds) == {[from |-> a, to |-> Text!Min({b \in bounds : b > a})] : a \in bounds \ {n}}

(* Between two boundaries that have none between them lies one segment *)
LEMMA SegmentsMeet ==
  ASSUME NEW n \in Nat, NEW bounds, bounds \subseteq 0..n, 0 \in bounds, n \in bounds
  PROVE  /\ \A s \in RangesOf(n, bounds) :
              /\ s.from \in bounds /\ s.to \in bounds /\ s.from < s.to
              /\ \A b \in bounds : ~(s.from < b /\ b < s.to)
         /\ \A s \in RangesOf(n, bounds), r \in RangesOf(n, bounds) : s.from = r.from => s = r
         /\ \A p \in 1..n : \E s \in RangesOf(n, bounds) : s.from < p /\ p <= s.to
<1> DEFINE Next(a) == Text!Min({b \in bounds : b > a})
           segments == {[from |-> a, to |-> Next(a)] : a \in bounds \ {n}}
<1>1. \A a \in bounds \ {n} : /\ Next(a) \in bounds /\ a < Next(a)
                              /\ \A b \in bounds : ~(a < b /\ b < Next(a))
  <2> SUFFICES ASSUME NEW a \in bounds \ {n}
               PROVE  /\ Next(a) \in bounds /\ a < Next(a)
                      /\ \A b \in bounds : ~(a < b /\ b < Next(a))
    OBVIOUS
  <2> DEFINE above == {b \in bounds : b > a}
  <2>1. \A b \in bounds : b \in Int /\ 0 <= b /\ b <= n
    OBVIOUS
  <2>2. a \in Int /\ a <= n /\ a # n
    BY <2>1
  <2>3. above \subseteq Nat /\ above # {}
    <3>1. n > a
      BY <2>2
    <3>2. n \in above
      BY <3>1
    <3>3. \A b \in above : b \in Nat
      BY <2>1
    <3> QED
      BY <3>2, <3>3
  <2>4. Next(a) \in above /\ \A b \in above : Next(a) <= b
    <3> HIDE DEF above
    <3>1. Text!Min(above) \in above /\ \A b \in above : Text!Min(above) <= b
      BY <2>3, Least
    <3> QED
      BY <3>1 DEF above
  <2> HIDE DEF Next
  <2>5. \A b \in bounds : ~(a < b /\ b < Next(a))
    <3> SUFFICES ASSUME NEW b \in bounds, a < b
                 PROVE  ~(b < Next(a))
      OBVIOUS
    <3>1. b \in above
      BY <2>1, <2>2
    <3>2. Next(a) \in bounds /\ Next(a) <= b
      BY <2>4, <3>1
    <3>3. b \in Int /\ Next(a) \in Int
      BY <2>1, <3>2
    <3> QED
      BY <3>2, <3>3
  <2> QED
    BY <2>1, <2>4, <2>5
<1> HIDE DEF Next
<1>2. \A s \in segments : /\ s.from \in bounds /\ s.to \in bounds /\ s.from < s.to
                          /\ \A b \in bounds : ~(s.from < b /\ b < s.to)
  BY <1>1
<1>3. \A s \in segments, r \in segments : s.from = r.from => s = r
  OBVIOUS
<1>4. ASSUME NEW p \in 1..n
      PROVE  \E s \in segments : s.from < p /\ p <= s.to
  <2> DEFINE below == {b \in bounds : b < p}
  <2>1. \A b \in bounds : b \in Int /\ 0 <= b /\ b <= n
    OBVIOUS
  <2>2. below \subseteq 0..n /\ 0 \in below
    <3>1. 0 < p
      OBVIOUS
    <3>2. 0 \in below
      BY <3>1
    <3> QED
      BY <3>2
  <2>3. PICK a \in below : \A b \in below : a >= b
    <3> HIDE DEF below
    <3> QED
      BY <2>2, Greatest
  <2>4. a \in bounds \ {n} /\ a < p
    BY <2>1, <2>3
  <2>5. Next(a) \in bounds /\ a < Next(a)
    BY <1>1, <2>4
  <2>6. p <= Next(a)
    <3>1. a \in Int /\ Next(a) \in Int
      BY <2>1, <2>4, <2>5
    <3>2. Next(a) < p => a >= Next(a)
      BY <2>3, <2>5
    <3> QED
      BY <2>5, <3>1, <3>2
  <2> DEFINE s == [from |-> a, to |-> Next(a)]
  <2>7. s \in segments /\ s.from < p /\ p <= s.to
    BY <2>4, <2>6
  <2> QED
    BY <2>7
<1>5. segments = RangesOf(n, bounds)
  BY DEF Next, RangesOf
<1> HIDE DEF segments
<1> QED
  BY <1>2, <1>3, <1>4, <1>5

(* SegmentsWell, for every text and every set of entities *)
LEMMA Segmenting ==
  ASSUME NEW u \in Utf16, NEW entities \in SUBSET Entity
  PROVE  Text!SegmentsWell(u, entities)
<1> DEFINE n        == Len(u)
           bounds   == Text!entityBoundaries(entities, u)
           segments == Text!EntitySegments(u, entities)
<1>1. n \in Nat
  BY Pairs
<1>2. /\ 0 \in bounds /\ n \in bounds /\ bounds \subseteq 0..n
      /\ \A b \in bounds : ~Text!InsidePair(u, b)
      /\ \A e \in entities :
           /\ Text!Stop(e) \in 0..n /\ ~Text!InsidePair(u, Text!Stop(e)) => Text!Stop(e) \in bounds
           /\ e.offset \in 0..n /\ e.offset <= Text!Stop(e) /\ ~Text!InsidePair(u, e.offset)
                => e.offset \in bounds
  BY Boundaries
<1>3. segments = RangesOf(n, bounds)
  BY DEF Text!EntitySegments, RangesOf
<1> HIDE DEF bounds, segments
<1>4. /\ \A s \in segments :
           /\ s.from \in bounds /\ s.to \in bounds /\ s.from < s.to
           /\ \A b \in bounds : ~(s.from < b /\ b < s.to)
      /\ \A s \in segments, r \in segments : s.from = r.from => s = r
      /\ \A p \in 1..n : \E s \in segments : s.from < p /\ p <= s.to
  <2> HIDE DEF n
  <2> QED
    BY <1>1, <1>2, <1>3, SegmentsMeet, Zenon
<1>5. \A b \in bounds : b \in Int /\ 0 <= b /\ b <= n
  BY <1>1, <1>2
<1>6. ASSUME NEW p \in 1..n
      PROVE  Text!Cardinality({s \in segments : s.from < p /\ p <= s.to}) = 1
  <2>1. PICK s \in segments : s.from < p /\ p <= s.to
    BY <1>4
  <2>2. ASSUME NEW r \in segments, r.from < p, p <= r.to
        PROVE  r = s
    <3>1. /\ s.from \in bounds /\ r.from \in bounds /\ s.to \in bounds /\ r.to \in bounds
          /\ ~(s.from < r.from /\ r.from < s.to) /\ ~(r.from < s.from /\ s.from < r.to)
      BY <1>4
    <3>2. /\ s.from \in Int /\ r.from \in Int /\ s.to \in Int /\ r.to \in Int
      BY <1>5, <3>1
    <3>3. s.from = r.from
      BY <2>1, <2>2, <3>1, <3>2
    <3> QED
      BY <1>4, <3>3
  <2>3. {r \in segments : r.from < p /\ p <= r.to} = {s}
    BY <2>1, <2>2
  <2>4. Text!Cardinality({s}) = 1
    BY FS_Singleton DEF Text!Cardinality, Cardinality
  <2> QED
    BY <2>3, <2>4
<1>7. \A s \in segments : ~Text!InsidePair(u, s.from) /\ ~Text!InsidePair(u, s.to)
  BY <1>2, <1>4
<1>8. ASSUME NEW s \in segments, NEW e \in entities,
             ~Text!InsidePair(u, e.offset), ~Text!InsidePair(u, Text!Stop(e)), Text!Overlaps(e, s)
      PROVE  e \in Text!coveringEntities(entities, s.from, s.to)
  <2> DEFINE lo == IF e.offset >= s.from THEN e.offset ELSE s.from
             hi == IF Text!Stop(e) <= s.to THEN Text!Stop(e) ELSE s.to
  <2>1. /\ s.from \in bounds /\ s.to \in bounds /\ s.from < s.to
        /\ \A b \in bounds : ~(s.from < b /\ b < s.to)
    BY <1>4
  <2>2. s.from \in Int /\ 0 <= s.from /\ s.to \in Int /\ s.to <= n
    BY <1>5, <2>1
  <2>3. e.offset \in Int /\ Text!Stop(e) \in Int
    BY DEF Entity, Text!Stop
  <2>4. lo < hi
    <3>1. Text!Max({e.offset, s.from}) = lo /\ Text!Min({Text!Stop(e), s.to}) = hi
      BY <2>2, <2>3, MinMax
    <3> QED
      BY <1>8, <3>1 DEF Text!Overlaps
  <2>5. Text!Stop(e) >= s.to
    <3> SUFFICES ASSUME Text!Stop(e) < s.to
                 PROVE  FALSE
      BY <2>2, <2>3
    <3>1. s.from < Text!Stop(e) /\ Text!Stop(e) \in 0..n
      BY <1>1, <2>2, <2>3, <2>4
    <3>2. Text!Stop(e) \in bounds
      BY <1>2, <1>8, <3>1
    <3> QED
      BY <2>1, <3>1, <3>2
  <2>6. e.offset <= s.from
    <3> SUFFICES ASSUME e.offset > s.from
                 PROVE  FALSE
      BY <2>2, <2>3
    <3>1. e.offset < s.to /\ e.offset \in 0..n /\ e.offset <= Text!Stop(e)
      BY <1>1, <2>2, <2>3, <2>4, <2>5
    <3>2. e.offset \in bounds
      BY <1>2, <1>8, <3>1
    <3> QED
      BY <2>1, <3>1, <3>2
  <2> QED
    BY <2>5, <2>6, <2>2, <2>3 DEF Text!coveringEntities
<1> QED
  BY <1>6, <1>7, <1>8 DEF Text!SegmentsWell, segments

-----------------------------------------------------------------------------
(* splitPoint *)

SplitEntities(u) == {e \in Entity : IsEntityOf(u, e)}

LEMMA EntityFacts ==
  ASSUME NEW u \in Utf16, NEW e \in SplitEntities(u)
  PROVE  /\ e.offset \in Nat /\ e.length \in Nat /\ e.length > 0 /\ Text!Stop(e) \in Nat
         /\ Text!Stop(e) = e.offset + e.length /\ e.offset < Text!Stop(e) /\ Text!Stop(e) <= Len(u)
         /\ ~Text!InsidePair(u, e.offset) /\ ~Text!InsidePair(u, Text!Stop(e))
  BY DEF SplitEntities, Entity, IsEntityOf, Text!Stop

(* A break or a space is no half of a character. *)
LEMMA SpacesWhole ==
  ASSUME NEW u \in Utf16, NEW b \in Int
  PROVE  /\ b \in 1..Len(u) /\ u[b] \in Text!Spaces => ~Text!InsidePair(u, b)
         /\ b + 1 \in 1..Len(u) /\ u[b + 1] \in Text!Spaces => ~Text!InsidePair(u, b)
<1>1. "high" \notin Text!Spaces /\ "low" \notin Text!Spaces
  BY DEF Text!Spaces, Text!Breaks
<1>2. ASSUME Text!InsidePair(u, b)
      PROVE  b \in 1..Len(u) - 1 /\ u[b] = "high" /\ u[b + 1] = "low"
  <2>1. b \in 1..Len(u) - 1 /\ u[b] = "high"
    BY <1>2, Pairs
  <2>2. b \in 1..Len(u)
    BY <2>1, Pairs
  <2> QED
    BY <2>1, <2>2, Pairs
<1> QED
  BY <1>1, <1>2

(* The last break of a window *)
LEMMA LastBreak ==
  ASSUME NEW u \in Utf16, NEW start \in 0..Len(u), NEW p \in 0..Len(u)
  PROVE  LET q == Text!lastBreak(u, start, p)
         IN /\ q \in 0..p
            /\ p > start => q > start
            /\ \/ q \in start + 1..p /\ u[q] \in Text!Breaks
               \/ q = p /\ \A i \in start + 1..p : u[i] \notin Text!Breaks
<1> DEFINE n == Len(u)
           breaks(unit) == {i \in start + 1..p : u[i] = unit}
           q == Text!lastBreak(u, start, p)
<1>1. n \in Nat
  BY Pairs
<1>2. ASSUME NEW unit \in Text!Breaks, breaks(unit) # {}
      PROVE  Text!Max(breaks(unit)) \in start + 1..p /\ u[Text!Max(breaks(unit))] = unit
  <2>1. breaks(unit) \subseteq 0..n
    BY <1>1
  <2>2. Text!Max(breaks(unit)) \in breaks(unit)
    <3> DEFINE B == breaks(unit)
    <3>1. B \subseteq 0..n /\ B # {}
      BY <1>2, <2>1
    <3> HIDE DEF B, n
    <3>2. Text!Max(B) \in B
      BY <1>1, <3>1, Greatest
    <3> QED
      BY <3>2 DEF B
  <2> QED
    BY <2>2
<1>3. q = IF breaks("newline") # {} THEN Text!Max(breaks("newline"))
          ELSE IF breaks("space") # {} THEN Text!Max(breaks("space"))
          ELSE p
  BY DEF Text!lastBreak
<1>4. "newline" \in Text!Breaks /\ "space" \in Text!Breaks /\ Text!Breaks = {"space", "newline"}
  BY DEF Text!Breaks
<1>5. breaks("newline") = {} /\ breaks("space") = {} => \A i \in start + 1..p : u[i] \notin Text!Breaks
  BY <1>4
<1>6. \/ q \in start + 1..p /\ u[q] \in Text!Breaks
      \/ q = p /\ \A i \in start + 1..p : u[i] \notin Text!Breaks
  <2> HIDE DEF q
  <2>1. CASE breaks("newline") # {}
    <3>1. q = Text!Max(breaks("newline"))
      BY <1>3, <2>1
    <3> HIDE DEF breaks
    <3> QED
      BY <1>2, <1>4, <2>1, <3>1
  <2>2. CASE breaks("newline") = {} /\ breaks("space") # {}
    <3>1. q = Text!Max(breaks("space"))
      BY <1>3, <2>2
    <3> HIDE DEF breaks
    <3> QED
      BY <1>2, <1>4, <2>2, <3>1
  <2>3. CASE breaks("newline") = {} /\ breaks("space") = {}
    BY <1>3, <1>5, <2>3
  <2> QED
    BY <2>1, <2>2, <2>3
<1> HIDE DEF q, breaks
<1>7. q \in 0..p /\ (p > start => q > start)
  <2>1. q \in start + 1..p \/ q = p
    BY <1>6
  <2> QED
    BY <1>1, <2>1
<1> QED
  BY <1>6, <1>7 DEF q

(* The last point that is inside no avoidable entity *)
LEMMA BeforeEntities ==
  ASSUME NEW u \in Utf16, NEW entities \in SUBSET SplitEntities(u), NEW start \in 0..Len(u),
         NEW limit \in Nat \ {0}, NEW q \in 0..Len(u)
  PROVE  LET r == Text!entityStartBefore(entities, start, q, limit)
         IN /\ r \in 0..q
            /\ q > start => r > start
            /\ \A e \in entities : Text!Avoidable(e, start, limit) => ~(e.offset < r /\ r < Text!Stop(e))
            /\ r = q \/ \E e \in entities : e.offset = r
<1> DEFINE n == Len(u)
           Outside(x) == \A e \in entities : Text!Avoidable(e, start, limit) => ~(e.offset < x /\ x < Text!Stop(e))
           points == {x \in 0..q : Outside(x)}
           r == Text!entityStartBefore(entities, start, q, limit)
<1>1. n \in Nat
  BY Pairs
<1>2. \A e \in entities : e.offset \in Nat /\ Text!Stop(e) \in Nat
  BY EntityFacts
<1>3. r = Text!Max(points)
  BY DEF Text!entityStartBefore
<1>4. 0 \in points
  <2>1. 0 \in 0..q /\ \A e \in entities : ~(e.offset < 0)
    BY <1>2
  <2> QED
    BY <2>1
<1>5. r \in points /\ \A x \in points : r >= x
  <2>1. points \subseteq 0..n /\ points # {}
    BY <1>1, <1>4
  <2> HIDE DEF points, r, n
  <2> QED
    BY <1>1, <1>3, <2>1, Greatest
<1> HIDE DEF r
<1>6. r \in 0..q /\ Outside(r)
  BY <1>5
<1>7. ASSUME q > start
      PROVE  r > start
  <2>1. start + 1 \in points
    <3>1. start + 1 \in 0..q
      BY <1>1, <1>7
    <3>2. \A e \in entities : e.offset > start => ~(e.offset < start + 1)
      BY <1>2
    <3> QED
      BY <3>1, <3>2 DEF Text!Avoidable
  <2>2. r >= start + 1
    BY <1>5, <2>1
  <2> QED
    BY <1>6, <2>2
<1>8. r = q \/ \E e \in entities : e.offset = r
  <2> SUFFICES ASSUME r # q
               PROVE  \E e \in entities : e.offset = r
    OBVIOUS
  <2>1. r + 1 \in 0..q /\ ~(r >= r + 1)
    BY <1>6
  <2>2. r + 1 \notin points
    BY <1>5, <2>1
  <2>3. PICK e \in entities : Text!Avoidable(e, start, limit) /\ e.offset < r + 1 /\ r + 1 < Text!Stop(e)
    BY <2>1, <2>2
  <2>4. ~(e.offset < r /\ r < Text!Stop(e))
    BY <1>6, <2>3
  <2>5. e.offset \in Nat /\ Text!Stop(e) \in Nat /\ r \in Nat
    BY <1>2, <1>6
  <2>6. e.offset = r
    BY <2>3, <2>4, <2>5
  <2> QED
    BY <2>6
<1> QED
  BY <1>6, <1>7, <1>8 DEF r

(* Going back leads from a character to a character, and ends at a break or   *)
(* where there is none, inside no avoidable entity.                           *)
LEMMA GoingBack ==
  ASSUME NEW u \in Utf16, NEW entities \in SUBSET SplitEntities(u), NEW start \in 0..Len(u),
         NEW limit \in Nat \ {0}, NEW p \in 0..Len(u)
  PROVE  LET r == Text!Back(u, entities, start, limit, p)
         IN /\ r \in 0..p
            /\ p > start => r > start
            /\ ~Text!InsidePair(u, p) => ~Text!InsidePair(u, r)
            /\ r = p => /\ \A e \in entities : Text!Avoidable(e, start, limit) => ~(e.offset < p /\ p < Text!Stop(e))
                        /\ u[p] \in Text!Breaks \/ \A i \in start + 1..p : u[i] \notin Text!Breaks
<1> DEFINE n == Len(u)
           q == Text!lastBreak(u, start, p)
           r == Text!Back(u, entities, start, limit, p)
<1>1. n \in Nat
  BY Pairs
<1>2. /\ q \in 0..p
      /\ p > start => q > start
      /\ \/ q \in start + 1..p /\ u[q] \in Text!Breaks
         \/ q = p /\ \A i \in start + 1..p : u[i] \notin Text!Breaks
  BY LastBreak
<1>3. r = Text!entityStartBefore(entities, start, q, limit)
  BY DEF Text!Back
<1> HIDE DEF q, r
<1>4. q \in 0..n
  BY <1>1, <1>2
<1>5. /\ r \in 0..q
      /\ q > start => r > start
      /\ \A e \in entities : Text!Avoidable(e, start, limit) => ~(e.offset < r /\ r < Text!Stop(e))
      /\ r = q \/ \E e \in entities : e.offset = r
  BY <1>3, <1>4, BeforeEntities
<1>6. r \in 0..p /\ (p > start => r > start) /\ (r = p => q = p)
  BY <1>2, <1>5
<1>7. ASSUME ~Text!InsidePair(u, p)
      PROVE  ~Text!InsidePair(u, r)
  <2>1. ~Text!InsidePair(u, q)
    <3>1. ASSUME q \in start + 1..p, u[q] \in Text!Breaks
          PROVE  ~Text!InsidePair(u, q)
      <4>1. q \in 1..n
        BY <1>1, <3>1
      <4>2. u[q] \in Text!Spaces
        BY <3>1 DEF Text!Spaces
      <4> QED
        BY <4>1, <4>2, SpacesWhole
    <3> QED
      BY <1>2, <1>7, <3>1
  <2>2. \A e \in entities : ~Text!InsidePair(u, e.offset)
    BY EntityFacts
  <2> QED
    BY <1>5, <2>1, <2>2
<1>8. ASSUME r = p
      PROVE  /\ \A e \in entities : Text!Avoidable(e, start, limit) => ~(e.offset < p /\ p < Text!Stop(e))
             /\ u[p] \in Text!Breaks \/ \A i \in start + 1..p : u[i] \notin Text!Breaks
  BY <1>2, <1>5, <1>6, <1>8
<1> QED
  BY <1>6, <1>7, <1>8 DEF r

(* The window ends at a character, within the limit if that is not one unit   *)
(* of two.                                                                    *)
LEMMA Window ==
  ASSUME NEW u \in Utf16, NEW start \in 0..Len(u), NEW limit \in Nat \ {0}, start + limit < Len(u)
  PROVE  LET w == Text!windowEdge(u, start, limit)
         IN /\ w \in start + 1..Len(u) /\ ~Text!InsidePair(u, w)
            /\ w <= start + limit \/ (limit = 1 /\ w = start + 2 /\ u[start + 1] = "high" /\ u[w] = "low")
<1> DEFINE n == Len(u)
           w == Text!windowEdge(u, start, limit)
<1>1. n \in Nat /\ start + limit \in 1..n - 1 /\ start + limit \in 1..n
  BY Pairs
<1>2. CASE u[start + limit] # "high"
  <2>1. w = start + limit
    BY <1>2 DEF Text!windowEdge
  <2>2. w \in start + 1..n
    BY <1>1, <2>1
  <2>3. ~Text!InsidePair(u, w)
    BY <1>1, <1>2, <2>1, Pairs
  <2> HIDE DEF w
  <2>4. w <= start + limit
    BY <1>1, <2>1
  <2> QED
    BY <2>2, <2>3, <2>4 DEF w
<1>3. CASE u[start + limit] = "high" /\ limit = 1
  <2>1. w = start + 2
    BY <1>3 DEF Text!windowEdge
  <2>2. u[start + 1] = "high" /\ start + 1 \in 1..n
    BY <1>1, <1>3
  <2>3. start + 1 < n /\ u[start + 1 + 1] = "low" /\ start + 1 + 1 = start + 2
    BY <1>1, <2>2, Pairs
  <2>4. w \in start + 1..n /\ u[w] = "low"
    BY <1>1, <2>1, <2>3
  <2>5. ~Text!InsidePair(u, w)
    <3>1. w \in Int /\ u[w] # "high"
      BY <2>1, <2>4
    <3> QED
      BY <3>1, Pairs
  <2> QED
    BY <1>3, <2>1, <2>2, <2>4, <2>5
<1>4. CASE u[start + limit] = "high" /\ limit # 1
  <2>1. w = start + limit - 1
    BY <1>4 DEF Text!windowEdge
  <2>2. w \in start + 1..n /\ w \in 1..n /\ w + 1 = start + limit /\ w <= start + limit
    BY <1>1, <1>4, <2>1
  <2>3. u[w] # "high"
    <3>1. ASSUME u[w] = "high"
          PROVE  FALSE
      <4>1. u[w + 1] = "low"
        BY <2>2, <3>1, Pairs
      <4> QED
        BY <1>4, <2>2, <4>1
    <3> QED
      BY <3>1
  <2>4. ~Text!InsidePair(u, w)
    BY <2>2, <2>3, Pairs
  <2> QED
    BY <2>2, <2>4
<1> QED
  BY <1>2, <1>3, <1>4

(* A function on 0..n that is defined down from p to step[p] exists, *)
Downward(n, step, done, out, f) ==
  f = [p \in 0..n |-> IF p \in done THEN out ELSE IF step[p] = p THEN p ELSE f[step[p]]]

LEMMA DownwardExists ==
  ASSUME NEW n \in Nat, NEW step, \A p \in 0..n : step[p] \in 0..p, NEW done, NEW out
  PROVE  \E f : Downward(n, step, done, out, f)
<1> DEFINE Value(f, p) == IF p \in done THEN out ELSE IF step[p] = p THEN p ELSE f[step[p]]
           Defined(k)  == \E f : f = [p \in 0..k |-> Value(f, p)]
           bad == {k \in 0..n : ~Defined(k)}
<1>1. ASSUME bad # {}
      PROVE  FALSE
  <2>1. PICK k \in bad : \A j \in bad : k <= j
    <3>1. bad \subseteq Nat
      OBVIOUS
    <3> HIDE DEF bad
    <3> QED
      BY <1>1, <3>1, LeastNumber
  <2>2. k \in 0..n /\ ~Defined(k)
    BY <2>1
  <2>3. CASE k = 0
    <3> DEFINE g == [p \in 0..0 |-> IF p \in done THEN out ELSE 0]
    <3>1. step[0] = 0
      BY <2>2, <2>3
    <3>2. \A p \in 0..0 : Value(g, p) = IF p \in done THEN out ELSE 0
      <4> SUFFICES ASSUME NEW p \in 0..0
                   PROVE  Value(g, p) = IF p \in done THEN out ELSE 0
        OBVIOUS
      <4>1. p = 0
        OBVIOUS
      <4> QED
        BY <3>1, <4>1
    <3>3. g = [p \in 0..0 |-> Value(g, p)]
      <4> HIDE DEF Value
      <4> QED
        BY <3>2
    <3>4. Defined(0)
      <4> HIDE DEF Value, g
      <4> QED
        BY <3>3
    <3> QED
      BY <2>2, <2>3, <3>4
  <2>4. CASE k # 0
    <3>1. k - 1 \in 0..n /\ ~(k <= k - 1) /\ k \in Nat
      BY <2>2, <2>4
    <3>2. Defined(k - 1)
      BY <2>1, <3>1
    <3>3. PICK f : f = [p \in 0..k - 1 |-> Value(f, p)]
      BY <3>2
    <3> DEFINE g == [p \in 0..k |-> IF p = k THEN Value(f, k) ELSE f[p]]
    <3>4. \A p \in 0..k : step[p] # p => step[p] \in 0..k /\ step[p] # k
      BY <2>2, <3>1
    <3>5. \A p \in 0..k : step[p] # p => g[step[p]] = f[step[p]]
      BY <3>4
    <3>6. \A p \in 0..k : Value(g, p) = Value(f, p)
      <4> HIDE DEF g
      <4> QED
        BY <3>5
    <3>7. \A p \in 0..k : p # k => f[p] = Value(f, p)
      <4>1. \A p \in 0..k : p # k => p \in 0..k - 1
        BY <3>1
      <4> HIDE DEF Value
      <4> QED
        BY <3>3, <4>1
    <3>8. \A p \in 0..k : g[p] = Value(g, p)
      <4>1. \A p \in 0..k : g[p] = IF p = k THEN Value(f, k) ELSE f[p]
        OBVIOUS
      <4> HIDE DEF Value, g
      <4> QED
        BY <3>6, <3>7, <4>1
    <3>9. g = [p \in 0..k |-> Value(g, p)]
      <4>1. g = [p \in 0..k |-> g[p]]
        OBVIOUS
      <4> HIDE DEF Value, g
      <4> QED
        BY <3>8, <4>1
    <3>10. Defined(k)
      <4> HIDE DEF Value, g
      <4> QED
        BY <3>9
    <3> QED
      BY <2>2, <3>10
  <2> QED
    BY <2>3, <2>4
<1>2. Defined(n)
  BY <1>1
<1> QED
  BY <1>2 DEF Downward

(* and one that is defined up from p to step[p], by what is put before it. *)
Upward(n, step, before, f) ==
  f = [p \in 0..n |-> IF p = n THEN <<>> ELSE before[p] \o f[step[p]]]

LEMMA UpwardExists ==
  ASSUME NEW n \in Nat, NEW step, \A p \in 0..n : p # n => step[p] \in p + 1..n, NEW before
  PROVE  \E f : Upward(n, step, before, f)
<1> DEFINE Value(f, p) == IF p = n THEN <<>> ELSE before[p] \o f[step[p]]
           Defined(k)  == \E f : f = [p \in n - k..n |-> Value(f, p)]
           bad == {k \in 0..n : ~Defined(k)}
<1>1. ASSUME bad # {}
      PROVE  FALSE
  <2>1. PICK k \in bad : \A j \in bad : k <= j
    <3> HIDE DEF Defined
    <3>1. bad \subseteq Nat
      OBVIOUS
    <3> HIDE DEF bad
    <3> QED
      BY <1>1, <3>1, LeastNumber
  <2>2. k \in 0..n /\ ~Defined(k)
    BY <2>1
  <2>3. CASE k = 0
    <3> DEFINE g == [p \in n - 0..n |-> <<>>]
    <3>1. \A p \in n - 0..n : Value(g, p) = <<>>
      <4> SUFFICES ASSUME NEW p \in n - 0..n
                   PROVE  Value(g, p) = <<>>
        OBVIOUS
      <4>1. p = n
        OBVIOUS
      <4> QED
        BY <4>1
    <3>2. g = [p \in n - 0..n |-> Value(g, p)]
      <4> HIDE DEF Value
      <4> QED
        BY <3>1
    <3>3. Defined(0)
      <4> HIDE DEF Value, g
      <4> QED
        BY <3>2
    <3> QED
      BY <2>2, <2>3, <3>3
  <2>4. CASE k # 0
    <3>1. k - 1 \in 0..n /\ ~(k <= k - 1) /\ k \in Nat /\ n - k # n /\ n - k \in Nat
      BY <2>2, <2>4
    <3>2. Defined(k - 1)
      BY <2>1, <3>1
    <3>3. PICK f : f = [p \in n - (k - 1)..n |-> Value(f, p)]
      BY <3>2
    <3> DEFINE m == n - k
               g == [p \in m..n |-> IF p = m THEN Value(f, m) ELSE f[p]]
    <3>4. \A p \in m..n : p # n => step[p] \in m..n /\ step[p] # m
      BY <2>2, <3>1
    <3>5. \A p \in m..n : p # n => g[step[p]] = f[step[p]]
      BY <3>4
    <3>6. \A p \in m..n : Value(g, p) = Value(f, p)
      <4> HIDE DEF g
      <4> QED
        BY <3>5
    <3>7. \A p \in m..n : p # m => f[p] = Value(f, p)
      <4>1. \A p \in m..n : p # m => p \in n - (k - 1)..n
        BY <3>1
      <4> HIDE DEF Value
      <4> QED
        BY <3>3, <4>1
    <3>8. \A p \in m..n : g[p] = Value(g, p)
      <4>1. \A p \in m..n : g[p] = IF p = m THEN Value(f, m) ELSE f[p]
        OBVIOUS
      <4> HIDE DEF Value, g
      <4> QED
        BY <3>6, <3>7, <4>1
    <3>9. g = [p \in m..n |-> Value(g, p)]
      <4>1. g = [p \in m..n |-> g[p]]
        OBVIOUS
      <4> HIDE DEF Value, g
      <4> QED
        BY <3>8, <4>1
    <3>10. Defined(k)
      <4> HIDE DEF Value, g
      <4> QED
        BY <3>9
    <3> QED
      BY <2>2, <3>10
  <2> QED
    BY <2>3, <2>4
<1>2. Defined(n)
  <2> HIDE DEF Defined
  <2> QED
    BY <1>1
<1>3. n - n = 0
  OBVIOUS
<1>4. PICK f : f = [p \in n - n..n |-> Value(f, p)]
  BY <1>2
<1>5. f = [p \in 0..n |-> Value(f, p)]
  <2> HIDE DEF Value
  <2> QED
    BY <1>3, <1>4
<1> QED
  BY <1>5 DEF Upward

(* One step of the loop of splitPoint, with ends[q] for where it goes from q *)
RetreatStep(u, entities, start, limit, ends, p) ==
  IF Text!Back(u, entities, start, limit, p) <= start THEN Text!windowEdge(u, start, limit)
  ELSE IF Text!Back(u, entities, start, limit, p) = p THEN p
  ELSE ends[Text!Back(u, entities, start, limit, p)]

LEMMA RetreatLoop ==
  ASSUME NEW u \in Utf16, NEW entities \in SUBSET SplitEntities(u), NEW start \in 0..Len(u),
         NEW limit \in Nat \ {0}, NEW p \in 0..Len(u)
  PROVE  Text!Retreat(u, entities, start, limit)[p]
           = RetreatStep(u, entities, start, limit, Text!Retreat(u, entities, start, limit), p)
<1> DEFINE n == Len(u)
           R == Text!Retreat(u, entities, start, limit)
           Step(f, x) == RetreatStep(u, entities, start, limit, f, x)
           back == [x \in 0..n |-> Text!Back(u, entities, start, limit, x)]
           w == Text!windowEdge(u, start, limit)
           done == {x \in 0..n : back[x] <= start}
<1>1. n \in Nat
  BY Pairs
<1>2. R = CHOOSE f : f = [x \in 0..n |-> Step(f, x)]
  BY DEF Text!Retreat, RetreatStep
<1>3. \A x \in 0..n : back[x] \in 0..x
  BY GoingBack
<1>4. \A f : \A x \in 0..n : Step(f, x) = IF x \in done THEN w ELSE IF back[x] = x THEN x ELSE f[back[x]]
  <2> SUFFICES ASSUME NEW f, NEW x \in 0..n
               PROVE  Step(f, x) = IF x \in done THEN w ELSE IF back[x] = x THEN x ELSE f[back[x]]
    OBVIOUS
  <2>1. back[x] = Text!Back(u, entities, start, limit, x)
    OBVIOUS
  <2> DEFINE b == Text!Back(u, entities, start, limit, x)
  <2>2. Step(f, x) = IF b <= start THEN w ELSE IF b = x THEN x ELSE f[b]
    BY DEF RetreatStep
  <2>3. x \in done <=> b <= start
    OBVIOUS
  <2> HIDE DEF back, done, Step, w, b
  <2> QED
    BY <2>1, <2>2, <2>3 DEF b
<1> HIDE DEF back, done, w
<1>5. PICK g : Downward(n, back, done, w, g)
  BY <1>1, <1>3, DownwardExists
<1>6. g = [x \in 0..n |-> Step(g, x)]
  <2> HIDE DEF Step
  <2>1. \A x \in 0..n : Step(g, x) = IF x \in done THEN w ELSE IF back[x] = x THEN x ELSE g[back[x]]
    BY <1>4
  <2> QED
    BY <1>5, <2>1 DEF Downward
<1>7. R = [x \in 0..n |-> Step(R, x)]
  <2> HIDE DEF Step, R
  <2> QED
    BY <1>2, <1>6
<1> HIDE DEF Step, R
<1>8. R[p] = Step(R, p)
  BY <1>7
<1> QED
  BY <1>8 DEF Step, R

LEMMA Retreating ==
  ASSUME NEW u \in Utf16, NEW entities \in SUBSET SplitEntities(u), NEW start \in 0..Len(u),
         NEW limit \in Nat \ {0}, NEW p \in start + 1..Len(u), ~Text!InsidePair(u, p)
  PROVE  LET end == Text!Retreat(u, entities, start, limit)[p]
         IN /\ end \in start + 1..p
            /\ ~Text!InsidePair(u, end)
            /\ Text!Back(u, entities, start, limit, end) = end
<1> DEFINE n == Len(u)
           R == Text!Retreat(u, entities, start, limit)
           B(x) == Text!Back(u, entities, start, limit, x)
           Ended(x) == R[x] \in start + 1..x /\ ~Text!InsidePair(u, R[x]) /\ B(R[x]) = R[x]
           bad == {x \in start + 1..n : ~Text!InsidePair(u, x) /\ ~Ended(x)}
<1>1. n \in Nat /\ start \in 0..n
  BY Pairs
<1>2. \A x \in start + 1..n : /\ B(x) \in start + 1..x
                              /\ ~Text!InsidePair(u, x) => ~Text!InsidePair(u, B(x))
                              /\ R[x] = IF B(x) = x THEN x ELSE R[B(x)]
  <2> SUFFICES ASSUME NEW x \in start + 1..n
               PROVE  /\ B(x) \in start + 1..x
                      /\ ~Text!InsidePair(u, x) => ~Text!InsidePair(u, B(x))
                      /\ R[x] = IF B(x) = x THEN x ELSE R[B(x)]
    OBVIOUS
  <2>1. x \in 0..n /\ x > start
    BY <1>1
  <2>2. /\ B(x) \in 0..x /\ (x > start => B(x) > start)
        /\ ~Text!InsidePair(u, x) => ~Text!InsidePair(u, B(x))
    BY <2>1, GoingBack
  <2>3. R[x] = RetreatStep(u, entities, start, limit, R, x)
    BY <2>1, RetreatLoop
  <2> HIDE DEF R
  <2>4. R[x] = IF B(x) <= start THEN Text!windowEdge(u, start, limit) ELSE IF B(x) = x THEN x ELSE R[B(x)]
    BY <2>3 DEF RetreatStep
  <2> HIDE DEF B
  <2>5. B(x) \in start + 1..x /\ ~(B(x) <= start)
    BY <1>1, <2>1, <2>2
  <2> QED
    BY <2>2, <2>4, <2>5
<1> HIDE DEF R, B
<1>3. ASSUME bad # {}
      PROVE  FALSE
  <2>1. PICK x \in bad : \A y \in bad : x <= y
    <3> HIDE DEF Ended
    <3>1. bad \subseteq Nat
      BY <1>1
    <3> HIDE DEF bad
    <3> QED
      BY <1>3, <3>1, LeastNumber
  <2>2. x \in start + 1..n /\ ~Text!InsidePair(u, x) /\ ~Ended(x)
    BY <2>1
  <2>3. /\ B(x) \in start + 1..x /\ ~Text!InsidePair(u, B(x))
        /\ R[x] = IF B(x) = x THEN x ELSE R[B(x)]
    BY <1>2, <2>2
  <2>4. CASE B(x) = x
    <3>1. R[x] = x /\ x \in start + 1..x
      BY <1>1, <2>2, <2>3, <2>4
    <3> QED
      BY <2>2, <2>4, <3>1
  <2>5. CASE B(x) # x
    <3>1. R[x] = R[B(x)]
      BY <2>3, <2>5
    <3>2. B(x) \in start + 1..n /\ ~(x <= B(x))
      BY <1>1, <2>2, <2>3, <2>5
    <3>3. Ended(B(x))
      <4> HIDE DEF Ended
      <4> QED
        BY <2>1, <2>3, <3>2
    <3>4. R[B(x)] \in start + 1..x
      BY <1>1, <2>2, <3>2, <3>3
    <3> QED
      BY <2>2, <3>1, <3>3, <3>4
  <2> QED
    BY <2>4, <2>5
<1>4. Ended(p)
  <2> HIDE DEF Ended
  <2> QED
    BY <1>3
<1> QED
  BY <1>4 DEF R, B

(* Where a chunk ends: after it starts, within the limit, at a character, at a *)
(* break if the chunk has one, and inside no entity that it could avoid.      *)
LEMMA SplitPoint ==
  ASSUME NEW u \in Utf16, NEW entities \in SUBSET SplitEntities(u), NEW start \in 0..Len(u), start # Len(u),
         NEW limit \in Nat \ {0}
  PROVE  LET end == Text!splitPoint(u, entities, start, limit)
         IN /\ end \in start + 1..Len(u)
            /\ ~Text!InsidePair(u, end)
            /\ end <= start + limit \/ (limit = 1 /\ end = start + 2 /\ u[start + 1] = "high" /\ u[end] = "low")
            /\ end = Len(u) \/
                 /\ \A e \in entities :
                      Text!Avoidable(e, start, limit) => ~(e.offset < end /\ end < Text!Stop(e))
                 /\ u[end] \in Text!Breaks \/ \A i \in start + 1..end : u[i] \notin Text!Breaks
<1> DEFINE n == Len(u)
           end == Text!splitPoint(u, entities, start, limit)
           w == Text!windowEdge(u, start, limit)
<1>1. n \in Nat /\ start \in 0..n /\ start < n
  BY Pairs
<1>2. CASE start + limit >= n
  <2>1. end = n
    BY <1>2 DEF Text!splitPoint
  <2>2. ~Text!InsidePair(u, n)
    BY <1>1, Pairs
  <2>3. n \in start + 1..n /\ n <= start + limit
    BY <1>1, <1>2
  <2> QED
    BY <2>1, <2>2, <2>3
<1>3. CASE ~(start + limit >= n)
  <2>1. end = Text!Retreat(u, entities, start, limit)[w]
    BY <1>3 DEF Text!splitPoint
  <2>2. start + limit < n
    BY <1>1, <1>3
  <2>3. /\ w \in start + 1..n /\ ~Text!InsidePair(u, w)
        /\ w <= start + limit \/ (limit = 1 /\ w = start + 2 /\ u[start + 1] = "high" /\ u[w] = "low")
    BY <2>2, Window
  <2> HIDE DEF w, end
  <2>4. /\ end \in start + 1..w
        /\ ~Text!InsidePair(u, end)
        /\ Text!Back(u, entities, start, limit, end) = end
    BY <2>1, <2>3, Retreating
  <2>5. end \in start + 1..n /\ end \in 0..n
    BY <1>1, <2>3, <2>4
  <2>6. /\ \A e \in entities : Text!Avoidable(e, start, limit) => ~(e.offset < end /\ end < Text!Stop(e))
        /\ u[end] \in Text!Breaks \/ \A i \in start + 1..end : u[i] \notin Text!Breaks
    BY <2>4, <2>5, GoingBack
  <2>7. end <= start + limit \/ (limit = 1 /\ end = start + 2 /\ u[start + 1] = "high" /\ u[end] = "low")
    <3>1. CASE w <= start + limit
      BY <1>1, <2>3, <2>4, <3>1
    <3>2. CASE limit = 1 /\ w = start + 2 /\ u[start + 1] = "high" /\ u[w] = "low"
      <4>1. end = start + 1 \/ end = w
        BY <1>1, <2>3, <2>4, <3>2
      <4>2. end # start + 1
        <5>1. Text!InsidePair(u, start + 1)
          <6>1. start + 1 \in 1..n - 1
            BY <1>1, <2>3, <3>2
          <6> QED
            BY <3>2, <6>1, Pairs
        <5> QED
          BY <2>4, <5>1
      <4> QED
        BY <3>2, <4>1, <4>2
    <3> QED
      BY <2>3, <3>1, <3>2
  <2> QED
    BY <2>4, <2>5, <2>6, <2>7 DEF end
<1> QED
  BY <1>2, <1>3

-----------------------------------------------------------------------------
(* SplitTextWithEntities *)

LEMMA TrimmedRight ==
  ASSUME NEW u \in Utf16, NEW start \in 0..Len(u), NEW end \in start..Len(u), ~Text!InsidePair(u, end)
  PROVE  LET cut == Text!TrimRight(u, start, end)
         IN /\ cut \in start..end
            /\ cut = start \/ u[cut] \notin Text!Spaces
            /\ \A i \in cut + 1..end : u[i] \in Text!Spaces
            /\ ~Text!InsidePair(u, cut)
<1> DEFINE n == Len(u)
           kept == {i \in start..end : i = start \/ u[i] \notin Text!Spaces}
           cut == Text!TrimRight(u, start, end)
<1>1. n \in Nat /\ start \in 0..n /\ end \in start..n /\ end \in 0..n
  BY Pairs
<1>2. cut = Text!Max(kept)
  BY DEF Text!TrimRight
<1>3. kept \subseteq 0..n /\ kept # {}
  <2>1. start \in kept
    BY <1>1
  <2> QED
    BY <1>1, <2>1
<1>4. cut \in kept /\ \A i \in kept : cut >= i
  <2> HIDE DEF kept, cut, n
  <2> QED
    BY <1>1, <1>2, <1>3, Greatest
<1> HIDE DEF cut
<1>5. cut \in start..end /\ (cut = start \/ u[cut] \notin Text!Spaces)
  BY <1>4
<1>6. \A i \in cut + 1..end : u[i] \in Text!Spaces
  <2> SUFFICES ASSUME NEW i \in cut + 1..end, u[i] \notin Text!Spaces
               PROVE  FALSE
    OBVIOUS
  <2>1. i \in start..end /\ ~(cut >= i)
    BY <1>1, <1>5
  <2>2. i \in kept
    BY <2>1
  <2> QED
    BY <1>4, <2>1, <2>2
<1>7. ~Text!InsidePair(u, cut)
  <2>1. CASE cut = end
    BY <2>1
  <2>2. CASE cut # end
    <3>1. cut + 1 \in cut + 1..end /\ cut + 1 \in 1..n /\ cut \in Int
      BY <1>1, <1>5, <2>2
    <3> QED
      BY <1>6, <3>1, SpacesWhole
  <2> QED
    BY <2>1, <2>2
<1> QED
  BY <1>5, <1>6, <1>7 DEF cut

LEMMA TrimmedLeft ==
  ASSUME NEW u \in Utf16, NEW end \in 0..Len(u), ~Text!InsidePair(u, end)
  PROVE  LET next == Text!TrimLeft(u, end)
         IN /\ next \in end..Len(u)
            /\ \A i \in end + 1..next : u[i] \in Text!Spaces
            /\ ~Text!InsidePair(u, next)
<1> DEFINE n == Len(u)
           kept == {i \in end..n : i = n \/ u[i + 1] \notin Text!Spaces}
           next == Text!TrimLeft(u, end)
<1>1. n \in Nat /\ end \in 0..n
  BY Pairs
<1>2. next = Text!Min(kept)
  BY DEF Text!TrimLeft
<1>3. kept \subseteq Nat /\ kept # {}
  <2>1. n \in kept
    BY <1>1
  <2> QED
    BY <1>1, <2>1
<1>4. next \in kept /\ \A i \in kept : next <= i
  <2> HIDE DEF kept, next, n
  <2> QED
    BY <1>2, <1>3, Least
<1> HIDE DEF next
<1>5. next \in end..n
  BY <1>4
<1>6. \A i \in end + 1..next : u[i] \in Text!Spaces
  <2> SUFFICES ASSUME NEW i \in end + 1..next, u[i] \notin Text!Spaces
               PROVE  FALSE
    OBVIOUS
  <2>1. i - 1 \in end..n /\ ~(next <= i - 1) /\ i - 1 + 1 = i
    BY <1>1, <1>5
  <2>2. i - 1 \in kept
    BY <2>1
  <2> QED
    BY <1>4, <2>1, <2>2
<1>7. ~Text!InsidePair(u, next)
  <2>1. CASE next = end
    BY <2>1
  <2>2. CASE next # end
    <3>1. next \in end + 1..next /\ next \in 1..n
      BY <1>1, <1>5, <2>2
    <3> QED
      BY <1>6, <3>1, SpacesWhole
  <2> QED
    BY <2>1, <2>2
<1> QED
  BY <1>5, <1>6, <1>7 DEF next

(* An entity that is clipped to a chunk lies in it and covers what it covered. *)
LEMMA Clipped ==
  ASSUME NEW entities \in SUBSET Entity, NEW from \in Nat, NEW to \in Nat, from < to
  PROVE  LET clipped == Text!clipEntities(entities, from, to)
         IN /\ clipped \in SUBSET Entity
            /\ \A d \in clipped : d.offset >= 0 /\ d.length > 0 /\ Text!Stop(d) <= to - from
            /\ \A p \in from + 1..to, e \in entities : e.offset < p /\ p <= Text!Stop(e) =>
                 \E d \in clipped : d.offset < p - from /\ p - from <= Text!Stop(d)
<1> DEFINE clipped == Text!clipEntities(entities, from, to)
           Lo(e) == Text!Max({e.offset, from})
           Hi(e) == Text!Min({Text!Stop(e), to})
           Part(e) == [e EXCEPT !.offset = Lo(e) - from, !.length = Hi(e) - Lo(e)]
<1>1. clipped = {Part(e) : e \in {d \in entities : Lo(d) < Hi(d)}}
  BY DEF Text!clipEntities
<1>2. \A e \in entities : /\ e.offset \in Int /\ e.length \in Int /\ Text!Stop(e) \in Int
                          /\ Lo(e) = IF e.offset >= from THEN e.offset ELSE from
                          /\ Hi(e) = IF Text!Stop(e) <= to THEN Text!Stop(e) ELSE to
  <2> SUFFICES ASSUME NEW e \in entities
               PROVE  /\ e.offset \in Int /\ e.length \in Int /\ Text!Stop(e) \in Int
                      /\ Lo(e) = IF e.offset >= from THEN e.offset ELSE from
                      /\ Hi(e) = IF Text!Stop(e) <= to THEN Text!Stop(e) ELSE to
    OBVIOUS
  <2>1. e.offset \in Int /\ e.length \in Int /\ Text!Stop(e) \in Int
    BY DEF Entity, Text!Stop
  <2>2. from \in Int /\ to \in Int
    OBVIOUS
  <2> DEFINE a == e.offset
             b == Text!Stop(e)
  <2> HIDE DEF a, b
  <2>3. Text!Max({a, from}) = IF a >= from THEN a ELSE from
    BY <2>1, <2>2, MinMax DEF a
  <2>4. Text!Min({b, to}) = IF b <= to THEN b ELSE to
    BY <2>1, <2>2, MinMax DEF b
  <2> QED
    BY <2>1, <2>3, <2>4 DEF a, b
<1> HIDE DEF Lo, Hi
<1>3. \A e \in entities : /\ Part(e) \in [offset : {Lo(e) - from}, length : {Hi(e) - Lo(e)}]
                          /\ Part(e).offset = Lo(e) - from /\ Part(e).length = Hi(e) - Lo(e)
  BY DEF Entity
<1>4. \A e \in entities : /\ Lo(e) \in Int /\ Hi(e) \in Int /\ Lo(e) >= from /\ Lo(e) >= e.offset
                          /\ Hi(e) <= to /\ Hi(e) <= Text!Stop(e)
  BY <1>2
<1>5. \A e \in entities : Part(e) \in Entity /\ Text!Stop(Part(e)) = Hi(e) - from
  <2> SUFFICES ASSUME NEW e \in entities
               PROVE  Part(e) \in Entity /\ Text!Stop(Part(e)) = Hi(e) - from
    OBVIOUS
  <2>1. Lo(e) \in Int /\ Hi(e) \in Int
    BY <1>4
  <2>2. Lo(e) - from \in Int /\ Hi(e) - Lo(e) \in Int /\ Lo(e) - from + (Hi(e) - Lo(e)) = Hi(e) - from
    BY <2>1
  <2>3. Part(e) \in Entity
    BY <1>3, <2>2 DEF Entity
  <2> HIDE DEF Part
  <2>4. Text!Stop(Part(e)) = Hi(e) - from
    BY <1>3, <2>2 DEF Text!Stop
  <2> QED
    BY <2>3, <2>4
<1> HIDE DEF Part
<1>6. clipped \in SUBSET Entity
  BY <1>1, <1>5
<1>7. ASSUME NEW d \in clipped
      PROVE  d.offset >= 0 /\ d.length > 0 /\ Text!Stop(d) <= to - from
  <2>1. PICK e \in entities : Lo(e) < Hi(e) /\ d = Part(e)
    BY <1>1
  <2>2. d.offset = Lo(e) - from /\ d.length = Hi(e) - Lo(e) /\ Text!Stop(d) = Hi(e) - from
    BY <1>3, <1>5, <2>1
  <2>3. Lo(e) \in Int /\ Hi(e) \in Int /\ Lo(e) >= from /\ Hi(e) <= to
    BY <1>4
  <2> QED
    BY <2>1, <2>2, <2>3
<1>8. ASSUME NEW p \in from + 1..to, NEW e \in entities, e.offset < p, p <= Text!Stop(e)
      PROVE  \E d \in clipped : d.offset < p - from /\ p - from <= Text!Stop(d)
  <2>1. /\ e.offset \in Int /\ Text!Stop(e) \in Int
        /\ Lo(e) = IF e.offset >= from THEN e.offset ELSE from
        /\ Hi(e) = IF Text!Stop(e) <= to THEN Text!Stop(e) ELSE to
    BY <1>2
  <2>2. Lo(e) < p /\ p <= Hi(e) /\ Lo(e) < Hi(e)
    BY <1>8, <2>1
  <2>3. Part(e) \in clipped
    BY <1>1, <2>2
  <2>4. Lo(e) \in Int /\ Hi(e) \in Int
    BY <1>4
  <2>5. Lo(e) - from < p - from /\ p - from <= Hi(e) - from
    BY <2>2, <2>4
  <2>6. Part(e).offset < p - from /\ p - from <= Text!Stop(Part(e))
    BY <1>3, <1>5, <2>5
  <2> QED
    BY <2>3, <2>6
<1> HIDE DEF clipped
<1> QED
  BY <1>6, <1>7, <1>8 DEF clipped

Chunk(u) == [from : Nat, to : 0..Len(u), entities : SUBSET Entity]

(* Chunks of the text from start on are as they should be. *)
KeepsEntities(entities, c) ==
  \A p \in c.from + 1..c.to, e \in entities : e.offset < p /\ p <= Text!Stop(e) =>
    \E d \in c.entities : d.offset < p - c.from /\ p - c.from <= Text!Stop(d)

Ordered(start, chunks) ==
  /\ \A i \in 1..Len(chunks) : start <= chunks[i].from
  /\ \A i \in 1..Len(chunks) - 1 : chunks[i].to <= chunks[i + 1].from

Covered(u, start, chunks) ==
  \A p \in start + 1..Len(u) : u[p] \notin Text!Spaces =>
    \E i \in 1..Len(chunks) : chunks[i].from < p /\ p <= chunks[i].to

WordsWhole(u, chunks) ==
  \A i \in 1..Len(chunks) - 1 : chunks[i].to = chunks[i + 1].from =>
    \A p \in chunks[i].from + 1..chunks[i].to : u[p] \notin Text!Breaks

EntitiesWhole(entities, chunks, limit) ==
  \A e \in entities, i \in 1..Len(chunks), j \in 1..Len(chunks) :
    i < j /\ Text!Overlaps(e, chunks[i]) /\ Text!Overlaps(e, chunks[j])
      => e.length > limit \/ e.offset <= chunks[i].from

WellSplit(u, entities, limit, start, chunks) ==
  /\ chunks \in Seq(Chunk(u))
  /\ \A i \in 1..Len(chunks) : Text!Sendable(u, chunks[i], limit) /\ KeepsEntities(entities, chunks[i])
  /\ Ordered(start, chunks)
  /\ Covered(u, start, chunks)
  /\ WordsWhole(u, chunks)
  /\ EntitiesWhole(entities, chunks, limit)

(* Sequences that begin with one more *)
LEMMA Prepended ==
  ASSUME NEW S, NEW c \in S, NEW rest \in Seq(S)
  PROVE  /\ <<c>> \o rest \in Seq(S) /\ Len(<<c>> \o rest) = Len(rest) + 1 /\ Len(rest) \in Nat
         /\ (<<c>> \o rest)[1] = c
         /\ \A i \in 2..Len(rest) + 1 : i - 1 \in 1..Len(rest) /\ (<<c>> \o rest)[i] = rest[i - 1]
<1> DEFINE m == <<c>>
<1>1. m \in Seq(S) /\ Len(m) = 1 /\ m[1] = c
  OBVIOUS
<1> HIDE DEF m
<1>2. /\ m \o rest \in Seq(S) /\ Len(m \o rest) = Len(m) + Len(rest)
      /\ \A i \in 1..Len(m) + Len(rest) : (m \o rest)[i] = IF i <= Len(m) THEN m[i] ELSE rest[i - Len(m)]
  BY <1>1, ConcatProperties
<1>3. Len(rest) \in Nat
  OBVIOUS
<1> DEFINE s == m \o rest
<1> HIDE DEF s
<1>4. /\ s \in Seq(S) /\ Len(s) = Len(rest) + 1 /\ s[1] = c
      /\ \A i \in 2..Len(rest) + 1 : i - 1 \in 1..Len(rest) /\ s[i] = rest[i - 1]
  BY <1>1, <1>2, <1>3 DEF s
<1> QED
  BY <1>3, <1>4 DEF s, m

LEMMA OverlapFacts ==
  ASSUME NEW e \in Entity, NEW u \in Utf16, NEW c \in Chunk(u), Text!Overlaps(e, c)
  PROVE  e.offset < c.to /\ c.from < Text!Stop(e)
<1>1. e.offset \in Int /\ Text!Stop(e) \in Int /\ c.from \in Int /\ c.to \in Int
  BY Pairs DEF Entity, Chunk, Text!Stop
<1> DEFINE a == e.offset
           b == Text!Stop(e)
           f == c.from
           t == c.to
<1>2. Text!Max({a, f}) < Text!Min({b, t})
  BY DEF Text!Overlaps
<1> HIDE DEF a, b, f, t
<1>3. a \in Int /\ b \in Int /\ f \in Int /\ t \in Int
  BY <1>1 DEF a, b, f, t
<1>4. Text!Max({a, f}) = (IF a >= f THEN a ELSE f) /\ Text!Min({b, t}) = (IF b <= t THEN b ELSE t)
  BY <1>3, MinMax
<1>5. a < t /\ f < b
  BY <1>2, <1>3, <1>4
<1> QED
  BY <1>5 DEF a, b, f, t

(* The text before the next chunk is in this one, or white space. *)
LEMMA NoneBefore ==
  ASSUME NEW u \in Utf16, NEW entities, NEW limit, NEW start \in 0..Len(u), NEW next \in start..Len(u),
         \A p \in start + 1..next : u[p] \in Text!Spaces,
         NEW rest, WellSplit(u, entities, limit, next, rest)
  PROVE  WellSplit(u, entities, limit, start, rest)
<1>1. Len(u) \in Nat
  BY Pairs
<1>2. Ordered(start, rest)
  <2>1. \A i \in 1..Len(rest) : rest[i].from \in Int
    <3>1. \A i \in 1..Len(rest) : rest[i] \in Chunk(u)
      BY ElementOfSeq DEF WellSplit
    <3> QED
      BY <3>1 DEF Chunk
  <2>2. \A i \in 1..Len(rest) : next <= rest[i].from
    BY DEF WellSplit, Ordered
  <2>3. \A i \in 1..Len(rest) : start <= rest[i].from
    BY <1>1, <2>1, <2>2
  <2> QED
    BY <2>3 DEF WellSplit, Ordered
<1>3. Covered(u, start, rest)
  <2>1. \A p \in start + 1..Len(u) : p \in start + 1..next \/ p \in next + 1..Len(u)
    BY <1>1
  <2> QED
    BY <2>1 DEF WellSplit, Covered
<1> QED
  BY <1>2, <1>3 DEF WellSplit

LEMMA OneMore ==
  ASSUME NEW u \in Utf16, NEW entities \in SUBSET SplitEntities(u), NEW limit \in Nat \ {0},
         NEW start \in 0..Len(u), start # Len(u), ~Text!InsidePair(u, start), NEW rest,
         WellSplit(u, entities, limit, Text!TrimLeft(u, Text!splitPoint(u, entities, start, limit)), rest)
  PROVE  WellSplit(u, entities, limit, start,
                   Text!ChunkIn(u, entities, start, Text!splitPoint(u, entities, start, limit)) \o rest)
<1> DEFINE n    == Len(u)
           end  == Text!splitPoint(u, entities, start, limit)
           next == Text!TrimLeft(u, end)
           cut  == Text!TrimRight(u, start, end)
           c    == [from |-> start, to |-> cut, entities |-> Text!clipEntities(entities, start, cut)]
<1>1. n \in Nat /\ start \in 0..n /\ start \in Nat
  BY Pairs
<1>2. /\ end \in start + 1..n
      /\ ~Text!InsidePair(u, end)
      /\ end <= start + limit \/ (limit = 1 /\ end = start + 2 /\ u[start + 1] = "high" /\ u[end] = "low")
      /\ end = n \/
           /\ \A e \in entities :
                Text!Avoidable(e, start, limit) => ~(e.offset < end /\ end < Text!Stop(e))
           /\ u[end] \in Text!Breaks \/ \A i \in start + 1..end : u[i] \notin Text!Breaks
  BY SplitPoint
<1>3. Text!ChunkIn(u, entities, start, end) = IF cut = start THEN <<>> ELSE <<c>>
  BY DEF Text!ChunkIn
<1>4. WellSplit(u, entities, limit, next, rest)
  OBVIOUS
<1> HIDE DEF end
<1>5. end \in start..n /\ end \in 0..n
  BY <1>1, <1>2
<1>6. /\ cut \in start..end
      /\ cut = start \/ u[cut] \notin Text!Spaces
      /\ \A i \in cut + 1..end : u[i] \in Text!Spaces
      /\ ~Text!InsidePair(u, cut)
  BY <1>2, <1>5, TrimmedRight
<1>7. /\ next \in end..n
      /\ \A i \in end + 1..next : u[i] \in Text!Spaces
  BY <1>2, <1>5, TrimmedLeft
<1> HIDE DEF cut, next
<1>8. \A i \in cut + 1..next : u[i] \in Text!Spaces
  <2>1. \A i \in cut + 1..next : i \in cut + 1..end \/ i \in end + 1..next
    BY <1>1, <1>5, <1>6, <1>7
  <2> QED
    BY <1>6, <1>7, <2>1
<1>9. cut \in 0..n /\ next \in cut..n /\ start <= cut /\ cut <= end /\ end <= next
  BY <1>1, <1>5, <1>6, <1>7
<1>10. rest \in Seq(Chunk(u))
  BY <1>4 DEF WellSplit
<1>11. CASE cut = start
  <2>1. Text!ChunkIn(u, entities, start, end) \o rest = rest
    BY <1>3, <1>10, <1>11, ConcatEmptySeq
  <2>2. WellSplit(u, entities, limit, start, rest)
    <3>1. \A p \in start + 1..next : u[p] \in Text!Spaces
      BY <1>8, <1>11
    <3>2. next \in start..n
      BY <1>9, <1>11
    <3> QED
      BY <1>4, <3>1, <3>2, NoneBefore
  <2> QED
    BY <2>1, <2>2 DEF end
<1>12. CASE cut # start
  <2> DEFINE chunks == <<c>> \o rest
  <2>1. cut \in start + 1..n /\ cut \in Nat /\ start < cut
    BY <1>1, <1>9, <1>12
  <2>2. /\ entities \in SUBSET Entity
        /\ \A e \in entities : /\ e.offset \in Nat /\ Text!Stop(e) \in Nat /\ e.length \in Nat
                               /\ Text!Stop(e) <= n
    BY EntityFacts DEF SplitEntities
  <2>3. /\ c.from = start /\ c.to = cut /\ c.entities = Text!clipEntities(entities, start, cut)
        /\ c.entities \in SUBSET Entity
        /\ \A d \in c.entities : d.offset >= 0 /\ d.length > 0 /\ Text!Stop(d) <= cut - start
        /\ KeepsEntities(entities, c)
    BY <1>1, <2>1, <2>2, Clipped DEF KeepsEntities
  <2>4. c \in Chunk(u)
    BY <1>1, <2>1, <2>3 DEF Chunk
  <2> HIDE DEF c
  <2>5. /\ chunks \in Seq(Chunk(u)) /\ Len(chunks) = Len(rest) + 1 /\ Len(rest) \in Nat
        /\ chunks[1] = c
        /\ \A i \in 2..Len(rest) + 1 : i - 1 \in 1..Len(rest) /\ chunks[i] = rest[i - 1]
    BY <1>10, <2>4, Prepended
  <2>6. Text!ChunkIn(u, entities, start, end) \o rest = chunks
    BY <1>3, <1>12 DEF c
  <2> HIDE DEF chunks
  <2>7. \A i \in 1..Len(chunks) : i = 1 \/ i \in 2..Len(rest) + 1
    BY <2>5
  <2>8. Text!Sendable(u, c, limit)
    <3>1. cut - start <= limit \/ (limit = 1 /\ cut = start + 2 /\ u[cut] = "low")
      <4>1. CASE end <= start + limit
        <5>1. limit \in Nat /\ end \in Int
          BY <1>5
        <5> QED
          BY <1>1, <1>9, <2>1, <4>1, <5>1
      <4>2. CASE limit = 1 /\ end = start + 2 /\ u[start + 1] = "high" /\ u[end] = "low"
        <5>1. cut = start + 1 \/ cut = end
          BY <1>1, <1>9, <2>1, <4>2
        <5> QED
          BY <1>1, <4>2, <5>1
      <4> QED
        BY <1>2, <4>1, <4>2
    <3>2. \A d \in c.entities : d.offset >= 0 /\ d.length > 0 /\ Text!Stop(d) <= c.to - c.from
      BY <2>3
    <3> QED
      BY <1>6, <2>1, <2>3, <3>1, <3>2 DEF Text!Sendable
  <2>9. \A i \in 1..Len(chunks) : Text!Sendable(u, chunks[i], limit) /\ KeepsEntities(entities, chunks[i])
    <3>1. \A i \in 1..Len(rest) : Text!Sendable(u, rest[i], limit) /\ KeepsEntities(entities, rest[i])
      BY <1>4 DEF WellSplit
    <3> QED
      BY <2>3, <2>5, <2>7, <2>8, <3>1
  <2>10. /\ \A i \in 1..Len(rest) : next <= rest[i].from
         /\ \A i \in 1..Len(rest) - 1 : rest[i].to <= rest[i + 1].from
         /\ \A i \in 1..Len(rest) : rest[i] \in Chunk(u) /\ rest[i].from \in Nat /\ rest[i].to \in 0..n
    <3>1. \A i \in 1..Len(rest) : rest[i] \in Chunk(u)
      BY <1>10, ElementOfSeq
    <3>2. \A i \in 1..Len(rest) : rest[i].from \in Nat /\ rest[i].to \in 0..n
      BY <3>1 DEF Chunk
    <3> QED
      BY <1>4, <3>1, <3>2 DEF WellSplit, Ordered
  <2>11. Ordered(start, chunks)
    <3>1. \A i \in 1..Len(chunks) : start <= chunks[i].from
      <4>1. \A i \in 1..Len(rest) : start <= rest[i].from
        <5>1. start \in Int /\ next \in Int /\ start <= next
          BY <1>1, <1>9
        <5>2. \A i \in 1..Len(rest) : rest[i].from \in Int /\ next <= rest[i].from
          BY <2>10
        <5> QED
          BY <5>1, <5>2
      <4>2. start <= c.from
        BY <1>1, <2>3
      <4> QED
        BY <2>5, <2>7, <4>1, <4>2
    <3>2. ASSUME NEW i \in 1..Len(chunks) - 1
          PROVE  chunks[i].to <= chunks[i + 1].from
      <4>1. CASE i = 1
        <5>1. i + 1 \in 2..Len(rest) + 1 /\ i + 1 - 1 = 1 /\ 1 \in 1..Len(rest)
          BY <2>5, <4>1
        <5>2. chunks[i] = c /\ chunks[i + 1] = rest[1]
          BY <2>5, <4>1, <5>1
        <5>3. cut <= rest[1].from
          BY <1>9, <2>10, <5>1
        <5> QED
          BY <2>3, <5>2, <5>3
      <4>2. CASE i # 1
        <5>1. i \in 2..Len(rest) + 1 /\ i + 1 \in 2..Len(rest) + 1 /\ i + 1 - 1 = i - 1 + 1
              /\ i - 1 \in 1..Len(rest) - 1
          BY <2>5, <4>2
        <5>2. chunks[i] = rest[i - 1] /\ chunks[i + 1] = rest[i - 1 + 1]
          BY <2>5, <5>1
        <5> QED
          BY <2>10, <5>1, <5>2
      <4> QED
        BY <4>1, <4>2
    <3> QED
      BY <3>1, <3>2 DEF Ordered
  <2>12. Covered(u, start, chunks)
    <3> SUFFICES ASSUME NEW p \in start + 1..n, u[p] \notin Text!Spaces
                 PROVE  \E i \in 1..Len(chunks) : chunks[i].from < p /\ p <= chunks[i].to
      BY DEF Covered
    <3>1. p \in start + 1..cut \/ p \in cut + 1..next \/ p \in next + 1..n
      BY <1>1, <1>9
    <3>2. CASE p \in start + 1..cut
      <4>1. 1 \in 1..Len(chunks) /\ chunks[1].from < p /\ p <= chunks[1].to
        BY <1>1, <2>1, <2>3, <2>5, <3>2
      <4> QED
        BY <4>1
    <3>3. CASE p \in next + 1..n
      <4>1. PICK i \in 1..Len(rest) : rest[i].from < p /\ p <= rest[i].to
        BY <1>4, <3>3 DEF WellSplit, Covered
      <4>2. i + 1 \in 1..Len(chunks) /\ i + 1 \in 2..Len(rest) + 1 /\ i + 1 - 1 = i
        BY <2>5
      <4>3. chunks[i + 1] = rest[i]
        BY <2>5, <4>2
      <4> QED
        BY <4>1, <4>2, <4>3
    <3> QED
      BY <1>8, <3>1, <3>2, <3>3
  <2>13. WordsWhole(u, chunks)
    <3> SUFFICES ASSUME NEW i \in 1..Len(chunks) - 1, chunks[i].to = chunks[i + 1].from,
                        NEW p \in chunks[i].from + 1..chunks[i].to
                 PROVE  u[p] \notin Text!Breaks
      BY DEF WordsWhole
    <3>1. CASE i = 1
      <4>1. i + 1 \in 2..Len(rest) + 1 /\ i + 1 - 1 = 1 /\ 1 \in 1..Len(rest)
        BY <2>5, <3>1
      <4>2. chunks[i] = c /\ chunks[i + 1] = rest[1]
        BY <2>5, <3>1, <4>1
      <4>3. cut = rest[1].from /\ next <= rest[1].from
        BY <2>3, <2>10, <4>1, <4>2
      <4>4. cut = end /\ cut = next
        BY <1>1, <1>9, <2>1, <4>3, <1>5, <1>7
      <4>5. end # n
        <5>1. Text!Sendable(u, rest[1], limit)
          BY <1>4, <4>1 DEF WellSplit
        <5>2. rest[1].from < rest[1].to /\ rest[1].from \in Nat /\ rest[1].to \in 0..n
          BY <2>10, <4>1, <5>1 DEF Text!Sendable
        <5> QED
          BY <1>1, <4>3, <4>4, <5>2
      <4>6. u[end] \notin Text!Breaks
        BY <1>6, <1>12, <4>4 DEF Text!Spaces
      <4>7. \A q \in start + 1..end : u[q] \notin Text!Breaks
        BY <1>2, <4>5, <4>6
      <4> QED
        BY <2>3, <4>2, <4>4, <4>7
    <3>2. CASE i # 1
      <4>1. i \in 2..Len(rest) + 1 /\ i + 1 \in 2..Len(rest) + 1 /\ i + 1 - 1 = i - 1 + 1
            /\ i - 1 \in 1..Len(rest) - 1
        BY <2>5, <3>2
      <4>2. chunks[i] = rest[i - 1] /\ chunks[i + 1] = rest[i - 1 + 1]
        BY <2>5, <4>1
      <4>3. WordsWhole(u, rest)
        BY <1>4 DEF WellSplit
      <4> QED
        BY <4>1, <4>2, <4>3 DEF WordsWhole
    <3> QED
      BY <3>1, <3>2
  <2>14. EntitiesWhole(entities, chunks, limit)
    <3> SUFFICES ASSUME NEW e \in entities, NEW i \in 1..Len(chunks), NEW j \in 1..Len(chunks), i < j,
                        Text!Overlaps(e, chunks[i]), Text!Overlaps(e, chunks[j])
                 PROVE  e.length > limit \/ e.offset <= chunks[i].from
      BY DEF EntitiesWhole
    <3>1. j \in 2..Len(rest) + 1 /\ j - 1 \in 1..Len(rest) /\ chunks[j] = rest[j - 1]
      <4>1. j \in 2..Len(rest) + 1
        BY <2>5
      <4> QED
        BY <2>5, <4>1
    <3>2. e \in Entity /\ e.offset \in Nat /\ Text!Stop(e) \in Nat /\ e.length \in Nat /\ Text!Stop(e) <= n
      BY <2>2
    <3>3. CASE i = 1
      <4>1. e.offset < cut
        <5>1. Text!Overlaps(e, c)
          BY <2>5, <3>3
        <5> QED
          BY <2>3, <2>4, <3>2, <5>1, OverlapFacts
      <4>2. rest[j - 1].from < Text!Stop(e)
        <5>1. rest[j - 1] \in Chunk(u) /\ Text!Overlaps(e, rest[j - 1])
          BY <2>10, <3>1
        <5> QED
          BY <3>2, <5>1, OverlapFacts
      <4>3. next <= rest[j - 1].from /\ rest[j - 1].from \in Nat
        BY <2>10, <3>1
      <4>4. e.offset < end /\ end < Text!Stop(e)
        <5>1. next \in Int /\ end \in Int /\ cut \in Int /\ cut <= end /\ end <= next
          BY <1>1, <1>5, <1>7, <1>9, <2>1
        <5>2. e.offset < end
          BY <3>2, <4>1, <5>1
        <5>3. end < Text!Stop(e)
          BY <3>2, <4>2, <4>3, <5>1
        <5> QED
          BY <5>2, <5>3
      <4>5. end # n
        BY <1>1, <3>2, <4>4
      <4>6. ~Text!Avoidable(e, start, limit)
        BY <1>2, <4>4, <4>5
      <4>7. e.offset <= start \/ e.length > limit
        BY <1>1, <3>2, <4>6 DEF Text!Avoidable
      <4> QED
        BY <2>3, <2>5, <3>3, <4>7
    <3>4. CASE i # 1
      <4>1. i \in 2..Len(rest) + 1 /\ i - 1 \in 1..Len(rest) /\ i - 1 < j - 1 /\ chunks[i] = rest[i - 1]
        <5>1. i \in 2..Len(rest) + 1
          BY <2>7, <3>4
        <5> QED
          BY <2>5, <5>1
      <4>2. EntitiesWhole(entities, rest, limit)
        BY <1>4 DEF WellSplit
      <4> QED
        BY <3>1, <4>1, <4>2 DEF EntitiesWhole
    <3> QED
      BY <3>3, <3>4
  <2>15. WellSplit(u, entities, limit, start, chunks)
    BY <2>5, <2>9, <2>11, <2>12, <2>13, <2>14 DEF WellSplit
  <2> QED
    BY <2>6, <2>15 DEF end
<1> QED
  BY <1>11, <1>12

(* What SplitTextWithEntities puts before the chunks from where it goes on *)
LEMMA ChunkLoop ==
  ASSUME NEW u \in Utf16, NEW entities \in SUBSET SplitEntities(u), NEW limit \in Nat \ {0}, NEW start \in 0..Len(u)
  PROVE  LET chunks == Text!ChunksFrom(u, entities, limit)
             end    == Text!splitPoint(u, entities, start, limit)
         IN chunks[start] = IF start = Len(u) THEN <<>>
                            ELSE Text!ChunkIn(u, entities, start, end) \o chunks[Text!TrimLeft(u, end)]
<1> DEFINE n == Len(u)
           chunks == Text!ChunksFrom(u, entities, limit)
           end(x) == Text!splitPoint(u, entities, x, limit)
           before == [x \in 0..n |-> Text!ChunkIn(u, entities, x, end(x))]
           next   == [x \in 0..n |-> Text!TrimLeft(u, end(x))]
           Step(f, x) == IF x = n THEN <<>> ELSE Text!ChunkIn(u, entities, x, end(x)) \o f[Text!TrimLeft(u, end(x))]
<1>1. n \in Nat
  BY Pairs
<1>2. chunks = CHOOSE f : f = [x \in 0..n |-> Step(f, x)]
  BY DEF Text!ChunksFrom
<1>3. \A x \in 0..n : x # n => next[x] \in x + 1..n
  <2> SUFFICES ASSUME NEW x \in 0..n, x # n
               PROVE  next[x] \in x + 1..n
    OBVIOUS
  <2>1. end(x) \in x + 1..n /\ ~Text!InsidePair(u, end(x))
    BY SplitPoint
  <2> HIDE DEF end
  <2>2. end(x) \in 0..n
    BY <1>1, <2>1
  <2>3. Text!TrimLeft(u, end(x)) \in end(x)..n
    BY <2>1, <2>2, TrimmedLeft
  <2> QED
    BY <1>1, <2>1, <2>3
<1>4. \A f : \A x \in 0..n : Step(f, x) = IF x = n THEN <<>> ELSE before[x] \o f[next[x]]
  <2> HIDE DEF end
  <2> QED
    OBVIOUS
<1> HIDE DEF before, next
<1>5. PICK g : Upward(n, next, before, g)
  BY <1>1, <1>3, UpwardExists
<1>6. g = [x \in 0..n |-> Step(g, x)]
  <2> HIDE DEF Step
  <2>1. \A x \in 0..n : Step(g, x) = IF x = n THEN <<>> ELSE before[x] \o g[next[x]]
    BY <1>4
  <2> QED
    BY <1>5, <2>1 DEF Upward
<1>7. chunks = [x \in 0..n |-> Step(chunks, x)]
  <2> HIDE DEF Step, chunks
  <2> QED
    BY <1>2, <1>6
<1>8. chunks[start] = Step(chunks, start)
  <2> HIDE DEF Step, chunks
  <2> QED
    BY <1>7
<1> QED
  BY <1>8

LEMMA Chunking ==
  ASSUME NEW u \in Utf16, NEW entities \in SUBSET SplitEntities(u), NEW limit \in Nat \ {0}
  PROVE  WellSplit(u, entities, limit, 0, Text!ChunksFrom(u, entities, limit)[0])
<1> DEFINE n == Len(u)
           chunks == Text!ChunksFrom(u, entities, limit)
           end(x)  == Text!splitPoint(u, entities, x, limit)
           next(x) == Text!TrimLeft(u, end(x))
           Good(x) == WellSplit(u, entities, limit, x, chunks[x])
           bad == {x \in 0..n : ~Text!InsidePair(u, x) /\ ~Good(x)}
<1>1. n \in Nat
  BY Pairs
<1>2. \A x \in 0..n : chunks[x] = IF x = n THEN <<>> ELSE Text!ChunkIn(u, entities, x, end(x)) \o chunks[next(x)]
  BY ChunkLoop
<1>3. \A x \in 0..n : x # n => next(x) \in x + 1..n /\ ~Text!InsidePair(u, next(x))
  <2> SUFFICES ASSUME NEW x \in 0..n, x # n
               PROVE  next(x) \in x + 1..n /\ ~Text!InsidePair(u, next(x))
    OBVIOUS
  <2>1. end(x) \in x + 1..n /\ ~Text!InsidePair(u, end(x))
    BY SplitPoint
  <2> HIDE DEF end
  <2>2. end(x) \in 0..n
    BY <1>1, <2>1
  <2>3. next(x) \in end(x)..n /\ ~Text!InsidePair(u, next(x))
    BY <2>1, <2>2, TrimmedLeft
  <2> HIDE DEF next
  <2> QED
    BY <1>1, <2>1, <2>3
<1> HIDE DEF chunks
<1>4. Good(n)
  <2>1. n \in 0..n
    BY <1>1
  <2>2. chunks[n] = <<>>
    BY <1>2, <2>1
  <2> DEFINE none == chunks[n]
  <2>3. none \in Seq(Chunk(u)) /\ Len(none) = 0
    BY <2>2
  <2> HIDE DEF none
  <2>4. (\A i \in 1..Len(none) : FALSE) /\ (\A i \in 1..Len(none) - 1 : FALSE)
    BY <2>3
  <2>5. \A p \in n + 1..n : FALSE
    BY <1>1
  <2>6. WellSplit(u, entities, limit, n, none)
    BY <2>3, <2>4, <2>5 DEF WellSplit, Ordered, Covered, WordsWhole, EntitiesWhole
  <2> QED
    BY <2>6 DEF none
<1>5. ASSUME bad # {}
      PROVE  FALSE
  <2>1. PICK x \in bad : \A y \in bad : x >= y
    <3> HIDE DEF Good
    <3>1. bad \subseteq 0..n
      OBVIOUS
    <3> HIDE DEF bad, n
    <3> QED
      BY <1>1, <1>5, <3>1, Greatest
  <2>2. x \in 0..n /\ ~Text!InsidePair(u, x) /\ ~Good(x)
    <3> HIDE DEF Good
    <3> QED
      BY <2>1
  <2>3. x # n
    <3> HIDE DEF Good
    <3> QED
      BY <1>4, <2>2
  <2>4. next(x) \in x + 1..n /\ ~Text!InsidePair(u, next(x))
    BY <1>3, <2>2, <2>3
  <2>5. next(x) \in 0..n /\ ~(x >= next(x))
    <3> HIDE DEF next
    <3> QED
      BY <1>1, <2>2, <2>4
  <2>6. Good(next(x))
    <3> HIDE DEF Good, next
    <3> QED
      BY <2>1, <2>4, <2>5
  <2>7. chunks[x] = Text!ChunkIn(u, entities, x, end(x)) \o chunks[next(x)]
    BY <1>2, <2>2, <2>3
  <2>8. WellSplit(u, entities, limit, x, Text!ChunkIn(u, entities, x, end(x)) \o chunks[next(x)])
    BY <2>2, <2>3, <2>6, OneMore
  <2> QED
    BY <2>2, <2>7, <2>8
<1>6. Good(0)
  <2>1. 0 \in 0..n /\ ~Text!InsidePair(u, 0)
    BY <1>1, Pairs
  <2> HIDE DEF Good
  <2> QED
    BY <1>5, <2>1
<1> QED
  BY <1>6 DEF chunks

(* SplitsWell, for every text, entities and limit *)
LEMMA Splitting ==
  ASSUME NEW u \in Utf16, NEW entities \in SUBSET SplitEntities(u), NEW limit \in Nat \ {0}
  PROVE  Text!SplitsWell(u, entities, limit)
<1> DEFINE chunks == Text!SplitTextWithEntities(u, entities, limit)
<1>1. WellSplit(u, entities, limit, 0, chunks)
  BY Chunking DEF Text!SplitTextWithEntities
<1> HIDE DEF chunks
<1>2. \A i \in 1..Len(chunks) : Text!Sendable(u, chunks[i], limit) /\ KeepsEntities(entities, chunks[i])
  BY <1>1 DEF WellSplit
<1>3. Text!KeepsAll(u, chunks, entities)
  <2>1. \A i \in 1..Len(chunks) - 1 : chunks[i].to <= chunks[i + 1].from
    BY <1>1 DEF WellSplit, Ordered
  <2>2. ASSUME NEW p \in 1..Len(u), u[p] \notin Text!Spaces
        PROVE  \E i \in 1..Len(chunks) :
                 /\ chunks[i].from < p /\ p <= chunks[i].to
                 /\ \A e \in entities : e.offset < p /\ p <= Text!Stop(e) =>
                      \E d \in chunks[i].entities :
                        d.offset < p - chunks[i].from /\ p - chunks[i].from <= Text!Stop(d)
    <3>1. p \in 0 + 1..Len(u)
      OBVIOUS
    <3>2. PICK i \in 1..Len(chunks) : chunks[i].from < p /\ p <= chunks[i].to
      BY <1>1, <2>2, <3>1 DEF WellSplit, Covered
    <3>3. chunks[i] \in Chunk(u)
      BY <1>1, ElementOfSeq DEF WellSplit
    <3>4. p \in chunks[i].from + 1..chunks[i].to
      BY <3>2, <3>3 DEF Chunk
    <3>5. KeepsEntities(entities, chunks[i])
      BY <1>2
    <3> QED
      BY <3>2, <3>4, <3>5 DEF KeepsEntities
  <2> QED
    BY <2>1, <2>2 DEF Text!KeepsAll
<1>4. Text!CutsOnlyTheLong(u, chunks, entities, limit)
  BY <1>1 DEF WellSplit, WordsWhole, EntitiesWhole, Text!CutsOnlyTheLong
<1> QED
  BY <1>2, <1>3, <1>4 DEF Text!SplitsWell, chunks

-----------------------------------------------------------------------------
(* Translations *)

(* The plural rule for Slavic languages is the grammar's, whatever the number. *)
LEMMA Counting ==
  ASSUME NEW n \in Int
  PROVE  Locales!CountsRight(n)
<1> DEFINE a == Locales!Abs(n)
<1>1. a \in Nat
  BY DEF Locales!Abs
<1>2. (\E hundreds \in 0..a, teen \in 11..14 : a = 100 * hundreds + teen) <=> a % 100 \in 11..14
  <2>1. ASSUME NEW h \in 0..a, NEW t \in 11..14, a = 100 * h + t
        PROVE  a % 100 \in 11..14
    BY <1>1, <2>1
  <2>2. ASSUME a % 100 \in 11..14
        PROVE  \E hundreds \in 0..a, teen \in 11..14 : a = 100 * hundreds + teen
    <3>1. /\ a \div 100 \in 0..a
          /\ a = 100 * (a \div 100) + (a % 100)
      BY <1>1
    <3> QED
      BY <2>2, <3>1
  <2> QED
    BY <2>1, <2>2
<1>3. (CHOOSE digit \in 0..9 : \E tens \in 0..a : a = 10 * tens + digit) = a % 10
  <2>1. /\ a \div 10 \in 0..a
        /\ a % 10 \in 0..9
        /\ a = 10 * (a \div 10) + (a % 10)
    BY <1>1
  <2>2. ASSUME NEW d \in 0..9, NEW t \in 0..a, a = 10 * t + d
        PROVE  d = a % 10
    BY <1>1, <2>2
  <2> QED
    BY <2>1, <2>2
<1>4. a % 10 \in 0..9 /\ a % 100 \in 0..99 /\ (a % 100) % 10 = a % 10
  BY <1>1
<1> HIDE DEF a
<1>5. Locales!slavicPlural(n) =
        IF a % 100 \in 11..14 THEN "many"
        ELSE <<"many", "one", "few", "few", "few", "many", "many", "many", "many", "many">>[1 + (a % 10)]
  <2>1. a % 10 \in {0, 1, 2, 3, 4, 5, 6, 7, 8, 9}
    BY <1>4
  <2>2. a % 100 \in 11..14 => a % 10 \in 1..4 /\ (a % 10 = 1 <=> a % 100 = 11)
    BY <1>4
  <2> QED
    BY <1>4, <2>1, <2>2 DEF Locales!slavicPlural, a
<1> QED
  BY <1>2, <1>3, <1>5 DEF Locales!CountsRight, a

(* The first of three members that is there *)
LEMMA FirstOfThree ==
  ASSUME NEW texts, DOMAIN texts = 1..3, NEW there
  PROVE  Locales!FirstOf(texts, there) =
           IF texts[1] \in there THEN texts[1]
           ELSE IF texts[2] \in there THEN texts[2]
           ELSE IF texts[3] \in there THEN texts[3]
           ELSE Locales!NotFound
<1> DEFINE found == {i \in DOMAIN texts : texts[i] \in there}
<1>1. found \subseteq 1..3 /\ \A i \in 1..3 : i \in found <=> texts[i] \in there
  OBVIOUS
<1>2. \A m \in found : (\A i \in found : m <= i) => Locales!Min(found) = m
  BY <1>1 DEF Locales!Min
<1>3. Locales!FirstOf(texts, there) = IF found = {} THEN Locales!NotFound ELSE texts[Locales!Min(found)]
  BY DEF Locales!FirstOf
<1> HIDE DEF found
<1>4. CASE 1 \in found
  BY <1>1, <1>2, <1>3, <1>4
<1>5. CASE 1 \notin found /\ 2 \in found
  BY <1>1, <1>2, <1>3, <1>5
<1>6. CASE 1 \notin found /\ 2 \notin found /\ 3 \in found
  BY <1>1, <1>2, <1>3, <1>6
<1>7. CASE 1 \notin found /\ 2 \notin found /\ 3 \notin found
  <2>1. found = {}
    BY <1>1, <1>7
  <2> QED
    BY <1>1, <1>3, <1>7, <2>1
<1> QED
  BY <1>4, <1>5, <1>6, <1>7

Messages == [locale : Locale \cup {Empty}, form : Forms]

Added(loc, form) == [locale |-> loc, form |-> form]

LEMMA NothingFound == \A text \in Messages : Locales!NotFound # text
<1> SUFFICES ASSUME NEW text \in Messages, <<>> = text
             PROVE  FALSE
  BY DEF Locales!NotFound
<1>1. DOMAIN text = {"locale", "form"}
  BY DEF Messages
<1>2. DOMAIN <<>> = {}
  OBVIOUS
<1> QED
  BY <1>1, <1>2

(* lookup goes from a locale to its language and on to the default locale. *)
LEMMA Lookup ==
  ASSUME NEW messages \in SUBSET Messages, NEW defaultLocale \in Locale, NEW locale \in Locale, NEW form \in Forms
  PROVE  Locales!lookup(messages, defaultLocale, locale, form) =
           IF Added(locale, form) \in messages THEN Added(locale, form)
           ELSE IF Added(Locales!baseLang(locale), form) \in messages THEN Added(Locales!baseLang(locale), form)
           ELSE IF Added(defaultLocale, form) \in messages THEN Added(defaultLocale, form)
           ELSE Locales!NotFound
<1> DEFINE chain == <<locale, Locales!baseLang(locale), defaultLocale>>
           texts == [i \in DOMAIN chain |-> [locale |-> chain[i], form |-> form]]
           there == {text \in messages : text.locale # Empty}
<1>1. /\ DOMAIN texts = 1..3
      /\ texts[1] = Added(locale, form)
      /\ texts[2] = Added(Locales!baseLang(locale), form)
      /\ texts[3] = Added(defaultLocale, form)
  BY DEF Added
<1>2. Locales!lookup(messages, defaultLocale, locale, form) = Locales!FirstOf(texts, there)
  BY DEF Locales!lookup, Locales!Chain
<1>3. locale # Empty /\ Locales!baseLang(locale) # Empty /\ defaultLocale # Empty
  BY EmptyAssumption DEF Locale, Locales!baseLang, Locales!Language
<1>4. \A loc : loc # Empty => (Added(loc, form) \in there <=> Added(loc, form) \in messages)
  BY DEF Added
<1> HIDE DEF texts, there
<1> QED
  BY <1>1, <1>2, <1>3, <1>4, FirstOfThree

(* TranslateN tries the form for the number, then "other", then the plain key. *)
LEMMA LookupN ==
  ASSUME NEW messages \in SUBSET Messages, NEW defaultLocale \in Locale, NEW locale \in Locale, NEW n \in Int
  PROVE  /\ Locales!pluralRule(locale, n) \in Forms
         /\ Locales!TranslateN(messages, defaultLocale, locale, n) =
              LET Found(form) == Locales!lookup(messages, defaultLocale, locale, form)
                  form1 == Locales!pluralRule(locale, n)
              IN IF Found(form1) \in messages THEN Found(form1)
                 ELSE IF Found("other") \in messages THEN Found("other")
                 ELSE IF Found("plain") \in messages THEN Found("plain")
                 ELSE Locales!NotFound
<1>1. Locales!pluralRule(locale, n) \in Forms
  BY DEF Forms, Locales!pluralRule, Locales!slavicPlural, Locales!defaultPlural
<1> DEFINE forms == <<Locales!pluralRule(locale, n), "other", "plain">>
           texts == [i \in DOMAIN forms |-> Locales!lookup(messages, defaultLocale, locale, forms[i])]
<1>2. /\ DOMAIN texts = 1..3
      /\ texts[1] = Locales!lookup(messages, defaultLocale, locale, Locales!pluralRule(locale, n))
      /\ texts[2] = Locales!lookup(messages, defaultLocale, locale, "other")
      /\ texts[3] = Locales!lookup(messages, defaultLocale, locale, "plain")
  OBVIOUS
<1>3. Locales!TranslateN(messages, defaultLocale, locale, n) = Locales!FirstOf(texts, messages)
  BY DEF Locales!TranslateN
<1> HIDE DEF texts
<1> QED
  BY <1>1, <1>2, <1>3, FirstOfThree

(* The text is in the user's language if that is complete, and there is one if *)
(* the default locale has one, whatever was added and whoever the user is.     *)
LEMMA Speaking ==
  ASSUME NEW messages \in SUBSET Messages, NEW defaultLocale \in Locale, NEW saved \in Locale \cup {Empty},
         NEW storageFails \in BOOLEAN, NEW languageCode \in Locale \cup {Empty}, NEW n \in Int
  PROVE  Locales!SpeaksRight(messages, defaultLocale, saved, storageFails, languageCode, n)
<1> DEFINE locale == Locales!attachI18n(saved, storageFails, languageCode, defaultLocale)
           base   == Locales!baseLang(locale)
           form   == Locales!pluralRule(locale, n)
           text   == Locales!TranslateN(messages, defaultLocale, locale, n)
           Found(f) == Locales!lookup(messages, defaultLocale, locale, f)
           Has(loc, f) == Added(loc, f) \in messages
<1>1. locale \in Locale
  BY DEF Locales!attachI18n
<1>2. /\ base.language = locale.language
      /\ base \in Locale
  BY <1>1, EmptyAssumption DEF Locale, Locales!baseLang, Locales!Language
<1>3. /\ form \in Forms
      /\ form = IF locale.language \in Slavic THEN Locales!slavicPlural(n) ELSE Locales!defaultPlural(n)
      /\ form \in Locales!Complete(locale.language)
  <2>1. locale # Empty
    BY <1>1, EmptyAssumption DEF Locale
  <2> QED
    BY <1>1, <2>1 DEF Forms, Locales!pluralRule, Locales!slavicPlural, Locales!defaultPlural, Locales!Complete
<1> HIDE DEF locale, base, form
<1>4. /\ Found(form) \in messages => text = Found(form)
      /\ Found(form) \notin messages /\ Found("other") \in messages => text = Found("other")
      /\ text # Locales!NotFound => text \in {Found(form), Found("other"), Found("plain")} \cap messages
  BY <1>1, LookupN DEF form
<1>5. "other" \in Forms /\ "plain" \in Forms
  BY DEF Forms
<1>6. \A f \in Forms :
        /\ Has(locale, f) => Found(f) = Added(locale, f)
        /\ ~Has(locale, f) /\ Has(base, f) => Found(f) = Added(base, f)
        /\ Has(defaultLocale, f) => Found(f) \in messages
        /\ Found(f) \in messages =>
             /\ Found(f).form = f
             /\ Found(f).locale \in {locale, base, defaultLocale}
  <2> SUFFICES ASSUME NEW f \in Forms
               PROVE  /\ Has(locale, f) => Found(f) = Added(locale, f)
                      /\ ~Has(locale, f) /\ Has(base, f) => Found(f) = Added(base, f)
                      /\ Has(defaultLocale, f) => Found(f) \in messages
                      /\ Found(f) \in messages =>
                           /\ Found(f).form = f
                           /\ Found(f).locale \in {locale, base, defaultLocale}
    OBVIOUS
  <2>1. Found(f) = IF Has(locale, f) THEN Added(locale, f)
                   ELSE IF Has(base, f) THEN Added(base, f)
                   ELSE IF Has(defaultLocale, f) THEN Added(defaultLocale, f)
                   ELSE Locales!NotFound
    BY <1>1, Lookup DEF base
  <2>2. Locales!NotFound \notin messages
    BY NothingFound
  <2>3. \A loc : Added(loc, f).form = f /\ Added(loc, f).locale = loc
    BY DEF Added
  <2> HIDE DEF Found
  <2> QED
    BY <2>1, <2>2, <2>3
<1>7. ASSUME \A f \in Locales!Complete(locale.language) : Has(base, f)
      PROVE  /\ text # Locales!NotFound /\ text.locale.language = locale.language
             /\ text.form = form
             /\ Has(locale, text.form) => text.locale = locale
  <2>1. Has(base, form)
    BY <1>3, <1>7
  <2>2. Found(form) = IF Has(locale, form) THEN Added(locale, form) ELSE Added(base, form)
    BY <1>3, <1>6, <2>1
  <2>3. Found(form) \in messages
    BY <2>1, <2>2
  <2>4. text = Found(form)
    BY <1>4, <2>3
  <2>5. text # Locales!NotFound
    BY <2>3, <2>4, NothingFound
  <2> HIDE DEF text, Found
  <2> QED
    BY <1>2, <2>2, <2>4, <2>5 DEF Added
<1>8. Has(defaultLocale, "other") => text # Locales!NotFound
  BY <1>4, <1>5, <1>6, NothingFound
<1>9. Has(defaultLocale, "plain") => Locales!Translate(messages, defaultLocale, locale) # Locales!NotFound
  BY <1>5, <1>6, NothingFound DEF Locales!Translate
<1>10. text # Locales!NotFound => text.locale.language \in {locale.language, defaultLocale.language}
  <2> HIDE DEF Found, text
  <2> QED
    BY <1>2, <1>3, <1>4, <1>5, <1>6
<1> HIDE DEF text
<1> QED
  BY <1>3, <1>7, <1>8, <1>9, <1>10 DEF Locales!SpeaksRight, locale, base, form, text, Added

-----------------------------------------------------------------------------
(* Filters *)

(* Who is on a list that is kept by FilterJoined and FilterLeft is a member, *)
LEMMA ListedWell ==
  ASSUME NEW history \in Seq(Filter!Statuses) \ {<<>>}
  PROVE  \A i \in 1..Len(history) : Filter!Listed(history)[i] = Filter!ChatMemberIsMember(history[i])
<1> DEFINE n == Len(history)
           In(i) == Filter!ChatMemberIsMember(history[i])
           Step(f, i) == IF i = 1 THEN In(1)
                         ELSE /\ f[i - 1] \/ Filter!FilterJoined(history[i - 1], history[i])
                              /\ ~Filter!FilterLeft(history[i - 1], history[i])
           OnList == CHOOSE f : f = [i \in 1..n |-> Step(f, i)]
           truth  == [i \in 1..n |-> In(i)]
<1>1. n \in Nat
  OBVIOUS
<1>2. Filter!Listed(history) = OnList
  BY DEF Filter!Listed
<1>3. \A i : In(i) \in BOOLEAN
  BY DEF Filter!ChatMemberIsMember
<1>4. \A f : \A i \in 1..n : (i # 1 => f[i - 1] = In(i - 1)) => Step(f, i) = In(i)
  <2> SUFFICES ASSUME NEW f, NEW i \in 1..n, i # 1, f[i - 1] = In(i - 1)
               PROVE  Step(f, i) = In(i)
    OBVIOUS
  <2>1. In(i - 1) \in BOOLEAN /\ In(i) \in BOOLEAN
    BY <1>3
  <2>2. Step(f, i) = (/\ In(i - 1) \/ Filter!FilterJoined(history[i - 1], history[i])
                      /\ ~Filter!FilterLeft(history[i - 1], history[i]))
    BY Zenon
  <2> QED
    BY <2>1, <2>2 DEF Filter!FilterJoined, Filter!FilterLeft
<1>5. truth = [i \in 1..n |-> Step(truth, i)]
  <2>1. \A i \in 1..n : i # 1 => truth[i - 1] = In(i - 1)
    BY <1>1
  <2>2. truth = [i \in 1..n |-> In(i)]
    OBVIOUS
  <2> HIDE DEF Step, In, truth
  <2>3. \A i \in 1..n : Step(truth, i) = In(i)
    BY <1>4, <2>1
  <2> QED
    BY <2>2, <2>3
<1>6. OnList = [i \in 1..n |-> Step(OnList, i)]
  <2> HIDE DEF Step, truth
  <2> QED
    BY <1>5
<1>7. \A i \in 1..n : OnList[i] = Step(OnList, i)
  <2> HIDE DEF Step, OnList
  <2> QED
    BY <1>6
<1> DEFINE wrong == {i \in 1..n : OnList[i] # In(i)}
<1>8. ASSUME wrong # {}
      PROVE  FALSE
  <2> HIDE DEF OnList, Step
  <2>1. PICK i \in wrong : \A j \in 1..n : j < i => j \notin wrong
    <3>1. wrong \subseteq 1..n
      OBVIOUS
    <3> HIDE DEF wrong
    <3> QED
      BY <1>1, <1>8, <3>1, FirstPlace
  <2>2. i # 1 => i - 1 \in 1..n /\ i - 1 < i
    BY <1>1
  <2>3. i # 1 => OnList[i - 1] = In(i - 1)
    BY <2>1, <2>2
  <2>4. Step(OnList, i) = In(i)
    BY <1>4, <2>3
  <2> QED
    BY <1>7, <2>1, <2>4
<1> HIDE DEF OnList
<1> QED
  BY <1>2, <1>8

LEMMA WritableWell ==
  ASSUME NEW history \in Seq(Filter!Statuses) \ {<<>>}, \A i \in 1..Len(history) : history[i] \in {"member", "kicked"}
  PROVE  \A i \in 1..Len(history) : Filter!Writable(history)[i] = (history[i] = "member")
<1> DEFINE n == Len(history)
           In(i) == history[i] = "member"
           Step(f, i) == IF i = 1 THEN In(1)
                         ELSE /\ f[i - 1] \/ Filter!FilterBotUnblocked(history[i - 1], history[i])
                              /\ ~Filter!FilterBotBlocked(history[i])
           OnList == CHOOSE f : f = [i \in 1..n |-> Step(f, i)]
           truth  == [i \in 1..n |-> In(i)]
<1>1. n \in Nat
  OBVIOUS
<1>2. Filter!Writable(history) = OnList
  BY DEF Filter!Writable
<1>3. \A i : In(i) \in BOOLEAN
  OBVIOUS
<1>4. \A f : \A i \in 1..n : (i # 1 => f[i - 1] = In(i - 1)) => Step(f, i) = In(i)
  <2> SUFFICES ASSUME NEW f, NEW i \in 1..n, i # 1, f[i - 1] = In(i - 1)
               PROVE  Step(f, i) = In(i)
    OBVIOUS
  <2>1. In(i - 1) \in BOOLEAN /\ In(i) \in BOOLEAN
    BY <1>3
  <2>2. Step(f, i) = (/\ In(i - 1) \/ Filter!FilterBotUnblocked(history[i - 1], history[i])
                      /\ ~Filter!FilterBotBlocked(history[i]))
    BY Zenon
  <2>3. /\ i - 1 \in 1..n
        /\ ~In(i - 1) => history[i - 1] = "kicked"
        /\ ~In(i) => history[i] = "kicked"
    BY <1>1
  <2> QED
    BY <2>1, <2>2, <2>3 DEF Filter!FilterBotUnblocked, Filter!FilterBotBlocked, Filter!ChatMemberIsMember
<1>5. truth = [i \in 1..n |-> Step(truth, i)]
  <2>1. \A i \in 1..n : i # 1 => truth[i - 1] = In(i - 1)
    BY <1>1
  <2>2. truth = [i \in 1..n |-> In(i)]
    OBVIOUS
  <2> HIDE DEF Step, In, truth
  <2>3. \A i \in 1..n : Step(truth, i) = In(i)
    BY <1>4, <2>1
  <2> QED
    BY <2>2, <2>3
<1>6. OnList = [i \in 1..n |-> Step(OnList, i)]
  <2> HIDE DEF Step, truth
  <2> QED
    BY <1>5
<1>7. \A i \in 1..n : OnList[i] = Step(OnList, i)
  <2> HIDE DEF Step, OnList
  <2> QED
    BY <1>6
<1> DEFINE wrong == {i \in 1..n : OnList[i] # In(i)}
<1>8. ASSUME wrong # {}
      PROVE  FALSE
  <2> HIDE DEF OnList, Step
  <2>1. PICK i \in wrong : \A j \in 1..n : j < i => j \notin wrong
    <3>1. wrong \subseteq 1..n
      OBVIOUS
    <3> HIDE DEF wrong
    <3> QED
      BY <1>1, <1>8, <3>1, FirstPlace
  <2>2. i # 1 => i - 1 \in 1..n /\ i - 1 < i
    BY <1>1
  <2>3. i # 1 => OnList[i - 1] = In(i - 1)
    BY <2>1, <2>2
  <2>4. Step(OnList, i) = In(i)
    BY <1>4, <2>3
  <2> QED
    BY <1>7, <2>1, <2>4
<1> HIDE DEF OnList
<1> QED
  BY <1>2, <1>8

LEMMA Following ==
  ASSUME NEW history \in Seq(Filter!Statuses) \ {<<>>}
  PROVE  Filter!FollowsMembers(history)
<1> DEFINE n == Len(history)
           Promotions == {i \in 2..n : Filter!FilterPromotedToAdmin(history[i - 1], history[i])}
<1>1. n \in Nat /\ n \in 1..n /\ n >= 1
  BY EmptySeq
<1>2. Filter!Listed(history)[n] = Filter!ChatMemberIsMember(history[n])
  BY <1>1, ListedWell
<1>3. ~(\E i \in 2..n : Filter!FilterJoined(history[i - 1], history[i]) /\ Filter!FilterLeft(history[i - 1], history[i]))
  BY DEF Filter!FilterJoined, Filter!FilterLeft
<1>4. ASSUME Filter!chatMemberIsAdmin(history[n]), ~Filter!chatMemberIsAdmin(history[1])
      PROVE  Promotions # {}
  <2> DEFINE admin == {i \in 1..n : Filter!chatMemberIsAdmin(history[i])}
  <2>1. PICK i \in admin : \A j \in 1..n : j < i => j \notin admin
    <3>1. admin \subseteq 1..n /\ n \in admin
      BY <1>1, <1>4
    <3> HIDE DEF admin
    <3> QED
      BY <1>1, <3>1, FirstPlace
  <2>2. i \in 2..n /\ i - 1 \in 1..n /\ i - 1 < i
    BY <1>1, <1>4
  <2> QED
    BY <2>1, <2>2 DEF Filter!FilterPromotedToAdmin
<1>5. ASSUME Filter!Range(history) \subseteq {"member", "kicked"}
      PROVE  Filter!Writable(history)[n] = (history[n] = "member")
  <2>1. \A i \in 1..n : history[i] \in {"member", "kicked"}
    BY <1>5 DEF Filter!Range
  <2> QED
    BY <1>1, <2>1, WritableWell
<1> QED
  BY <1>2, <1>3, <1>4, <1>5 DEF Filter!FollowsMembers

LEMMA Places ==
  ASSUME NEW s \in Seq(Word), NEW mark, NEW i \in 1..Len(s), s[i] = mark, \A j \in 1..Len(s) : j < i => s[j] # mark
  PROVE  Filter!Index(s, mark) = i
<1> DEFINE I == {j \in 1..Len(s) : s[j] = mark}
<1>1. i \in I /\ \A j \in I : i <= j
  OBVIOUS
<1>2. Filter!Min(I) = i
  <2>1. \A j \in I : (\A k \in I : j <= k) => j = i
    BY <1>1
  <2> HIDE DEF I
  <2> QED
    BY <1>1, <2>1 DEF Filter!Min
<1> QED
  BY <1>1, <1>2 DEF Filter!Index, Filter!SelectInSeq

(* What strings.Cut gives of a text that was put together, and of one without *)
(* the mark                                                                   *)
LEMMA Cut ==
  ASSUME NEW a \in Seq(Word), NEW b \in Seq(Word), NEW mark \in Word, \A i \in 1..Len(a) : a[i] # mark
  PROVE  /\ Filter!Before(a \o (<<mark>> \o b), mark) = a
         /\ Filter!After(a \o (<<mark>> \o b), mark) = b
<1> DEFINE m == <<mark>>
           s == a \o (m \o b)
           n == Len(a)
<1>1. m \in Seq(Word) /\ Len(m) = 1 /\ m[1] = mark
  OBVIOUS
<1>2. /\ m \o b \in Seq(Word) /\ Len(m \o b) = 1 + Len(b)
      /\ \A i \in 1..1 + Len(b) : (m \o b)[i] = IF i <= 1 THEN mark ELSE b[i - 1]
  <2> HIDE DEF m
  <2>1. \A i \in 1..1 + Len(b) : i <= 1 => i = 1
    OBVIOUS
  <2>2. /\ m \o b \in Seq(Word) /\ Len(m \o b) = Len(m) + Len(b)
        /\ \A i \in 1..Len(m) + Len(b) : (m \o b)[i] = IF i <= Len(m) THEN m[i] ELSE b[i - Len(m)]
    BY <1>1, ConcatProperties
  <2> QED
    BY <1>1, <2>1, <2>2
<1>3. n \in Nat /\ Len(b) \in Nat
  OBVIOUS
<1>4. /\ s \in Seq(Word) /\ Len(s) = n + 1 + Len(b)
      /\ \A i \in 1..n : s[i] = a[i]
      /\ s[n + 1] = mark
      /\ \A i \in 1..Len(b) : s[n + 1 + i] = b[i]
  <2> DEFINE t == m \o b
  <2> HIDE DEF t
  <2>1. /\ s \in Seq(Word) /\ Len(s) = n + Len(t)
        /\ \A i \in 1..n + Len(t) : s[i] = IF i <= n THEN a[i] ELSE t[i - n]
    BY <1>2, ConcatProperties DEF t
  <2>2. Len(t) = 1 + Len(b) /\ t[1] = mark /\ \A i \in 1..Len(b) : t[1 + i] = b[i]
    BY <1>2, <1>3 DEF t
  <2> HIDE DEF s, n
  <2> QED
    BY <1>3, <2>1, <2>2
<1> HIDE DEF s, m, n
<1>5. Filter!Index(s, mark) = n + 1
  <2>1. n + 1 \in 1..Len(s)
    BY <1>3, <1>4
  <2>2. \A j \in 1..Len(s) : j < n + 1 => s[j] # mark
    BY <1>3, <1>4 DEF n
  <2>3. s \in Seq(Word) /\ s[n + 1] = mark
    BY <1>4
  <2> DEFINE i == n + 1
  <2> HIDE DEF i
  <2>4. i \in 1..Len(s) /\ s[i] = mark /\ \A j \in 1..Len(s) : j < i => s[j] # mark
    BY <2>1, <2>2, <2>3 DEF i
  <2>5. Filter!Index(s, mark) = i
    BY <2>3, <2>4, Places
  <2> QED
    BY <2>5 DEF i
<1>6. mark \in Filter!Range(s)
  <2>1. n + 1 \in DOMAIN s
    BY <1>3, <1>4
  <2> QED
    BY <1>4, <2>1 DEF Filter!Range
<1>7. SubSeq(s, 1, n) = a
  <2>1. \A i \in 1..n : s[i] \in Word
    BY <1>4 DEF n
  <2>2. /\ SubSeq(s, 1, n) \in Seq(Word)
        /\ Len(SubSeq(s, 1, n)) = IF 1 <= n THEN n - 1 + 1 ELSE 0
        /\ \A i \in 1..n - 1 + 1 : SubSeq(s, 1, n)[i] = s[1 + i - 1]
    BY <1>3, <2>1, SubSeqProperties
  <2>3. Len(SubSeq(s, 1, n)) = Len(a) /\ \A i \in 1..Len(a) : SubSeq(s, 1, n)[i] = a[i]
    BY <1>3, <1>4, <2>2 DEF n
  <2> QED
    BY <2>2, <2>3, SeqEqual
<1>8. SubSeq(s, n + 1 + 1, Len(s)) = b
  <2> DEFINE r == SubSeq(s, n + 2, n + 1 + Len(b))
  <2>1. \A i \in n + 2..n + 1 + Len(b) : s[i] \in Word
    BY <1>3, <1>4
  <2>2. /\ r \in Seq(Word)
        /\ Len(r) = IF n + 2 <= n + 1 + Len(b) THEN n + 1 + Len(b) - (n + 2) + 1 ELSE 0
        /\ \A i \in 1..n + 1 + Len(b) - (n + 2) + 1 : r[i] = s[n + 2 + i - 1]
    BY <1>3, <2>1, SubSeqProperties
  <2> HIDE DEF r
  <2>3. Len(r) = Len(b)
    BY <1>3, <2>2
  <2>4. \A i \in 1..Len(b) : r[i] = b[i]
    <3>1. \A i \in 1..Len(b) : n + 2 + i - 1 = n + 1 + i /\ i \in 1..n + 1 + Len(b) - (n + 2) + 1
      BY <1>3
    <3> QED
      BY <1>4, <2>2, <3>1
  <2>5. r = b
    BY <2>2, <2>3, <2>4, SeqEqual
  <2>6. n + 1 + 1 = n + 2
    BY <1>3
  <2> QED
    BY <1>4, <2>5, <2>6 DEF r
<1>9. Filter!Before(s, mark) = a /\ Filter!After(s, mark) = b
  <2>1. Filter!Index(s, mark) - 1 = n /\ Filter!Index(s, mark) + 1 = n + 1 + 1
    BY <1>3, <1>5
  <2> QED
    BY <1>6, <1>7, <1>8, <2>1, Zenon DEF Filter!Before, Filter!After
<1> QED
  BY <1>9 DEF s, m

LEMMA Uncut ==
  ASSUME NEW a \in Seq(Word), NEW mark, \A i \in 1..Len(a) : a[i] # mark
  PROVE  Filter!Before(a, mark) = a /\ Filter!After(a, mark) = <<>>
<1>1. mark \notin Filter!Range(a)
  BY DEF Filter!Range
<1> QED
  BY <1>1 DEF Filter!Before, Filter!After

LEMMA Single ==
  ASSUME NEW x \in Word
  PROVE  <<x>> \in Seq(Word) /\ Len(<<x>>) = 1 /\ <<x>>[1] = x /\ DOMAIN <<x>> = 1..1
OBVIOUS

LEMMA Prefixed ==
  ASSUME NEW T, NEW t \in Seq(T), NEW mark \in T
  PROVE  /\ <<mark>> \o t \in Seq(T)
         /\ <<mark>> \o t # <<>>
         /\ Head(<<mark>> \o t) = mark
         /\ Tail(<<mark>> \o t) = t
<1> DEFINE m == <<mark>>
           s == m \o t
<1>1. m \in Seq(T) /\ Len(m) = 1 /\ m[1] = mark
  OBVIOUS
<1>2. Len(t) \in Nat
  OBVIOUS
<1>3. /\ s \in Seq(T) /\ Len(s) = Len(m) + Len(t)
      /\ \A i \in 1..Len(m) + Len(t) : s[i] = IF i <= Len(m) THEN m[i] ELSE t[i - Len(m)]
  <2> HIDE DEF m
  <2> QED
    BY <1>1, ConcatProperties
<1> HIDE DEF m, s
<1>4. s # <<>>
  BY <1>1, <1>2, <1>3, EmptySeq
<1>5. /\ Tail(s) \in Seq(T) /\ Len(Tail(s)) = Len(s) - 1
      /\ \A i \in 1..Len(Tail(s)) : Tail(s)[i] = s[i + 1]
  BY <1>3, <1>4, HeadTailProperties
<1>6. Len(Tail(s)) = Len(t) /\ \A i \in 1..Len(t) : Tail(s)[i] = t[i]
  <2>1. \A i \in 1..Len(t) : i + 1 \in 1..Len(m) + Len(t) /\ ~(i + 1 <= Len(m)) /\ i + 1 - Len(m) = i
    BY <1>1, <1>2
  <2>2. Len(Tail(s)) = Len(t)
    BY <1>1, <1>2, <1>3, <1>5
  <2> QED
    BY <1>3, <1>5, <2>1, <2>2
<1>7. Tail(s) = t
  BY <1>5, <1>6, SeqEqual
<1>8. Head(s) = mark
  <2>1. Head(s) = s[1]
    BY <1>3, <1>4
  <2>2. 1 \in 1..Len(m) + Len(t) /\ 1 <= Len(m)
    BY <1>1, <1>2
  <2> QED
    BY <1>1, <1>3, <2>1, <2>2
<1> QED
  BY <1>3, <1>4, <1>7, <1>8 DEF s, m

LEMMA NotIn ==
  ASSUME NEW s \in Seq(Word), NEW t \in Seq(Word), NEW mark,
         \A i \in 1..Len(s) : s[i] # mark, \A i \in 1..Len(t) : t[i] # mark
  PROVE  /\ s \o t \in Seq(Word)
         /\ \A i \in 1..Len(s \o t) : (s \o t)[i] # mark
<1> DEFINE u == s \o t
<1>1. /\ u \in Seq(Word) /\ Len(u) = Len(s) + Len(t)
      /\ \A i \in 1..Len(s) + Len(t) : u[i] = IF i <= Len(s) THEN s[i] ELSE t[i - Len(s)]
  BY ConcatProperties
<1>2. Len(s) \in Nat /\ Len(t) \in Nat
  OBVIOUS
<1> HIDE DEF u
<1>3. \A i \in 1..Len(u) : IF i <= Len(s) THEN i \in 1..Len(s) ELSE i - Len(s) \in 1..Len(t)
  BY <1>1, <1>2
<1>4. \A i \in 1..Len(u) : u[i] # mark
  BY <1>1, <1>3
<1> QED
  BY <1>1, <1>4 DEF u

LEMMA OneOnly == \A i \in 1..1 : i = 1
OBVIOUS

LEMMA NoneAtAll == \A i \in 1..0 : FALSE
OBVIOUS

LEMMA MentionPart ==
  ASSUME NEW mention \in Seq(Word), \A i \in 1..Len(mention) : mention[i] # " "
  PROVE  \A i \in 1..Len(<<"@">> \o mention) : (<<"@">> \o mention)[i] # " "
<1> DEFINE m == <<"@">>
<1>1. m \in Seq(Word) /\ Len(m) = 1 /\ m[1] = "@"
  <2>1. "@" \in Word
    BY DEF Word
  <2> QED
    BY <2>1, Single
<1>2. \A i \in 1..Len(m) : m[i] # " "
  <2> HIDE DEF m
  <2> QED
    BY <1>1, OneOnly
<1> HIDE DEF m
<1>3. \A i \in 1..Len(m \o mention) : (m \o mention)[i] # " "
  BY <1>1, <1>2, NotIn
<1> QED
  BY <1>3 DEF m

LEMMA Associates ==
  ASSUME NEW a \in Seq(Word), NEW b \in Seq(Word), NEW c \in Seq(Word)
  PROVE  (a \o b) \o c = a \o (b \o c)
BY ConcatAssociative

(* A command, its mention and its arguments come back from its text. *)
LEMMA Parsing ==
  ASSUME NEW command \in Seq(Word \ {"@", " "}) \ {<<>>}, NEW mention \in Seq(Word \ {" "}), NEW args \in Seq(Word)
  PROVE  Filter!ParseCommand(<<"/">> \o command \o (IF mention = <<>> THEN <<>> ELSE <<"@">> \o mention)
                                    \o (IF args = <<>> THEN <<>> ELSE <<" ">> \o args)) =
           [command |-> command, mention |-> mention, args |-> Filter!TrimSpace(args)]
<1> DEFINE at   == IF mention = <<>> THEN <<>> ELSE <<"@">> \o mention
           rest == IF args = <<>> THEN <<>> ELSE <<" ">> \o args
           slash == <<"/">>
           name == command \o at
           text == <<"/">> \o command \o (IF mention = <<>> THEN <<>> ELSE <<"@">> \o mention)
                          \o (IF args = <<>> THEN <<>> ELSE <<" ">> \o args)
<1>1. "/" \in Word /\ "@" \in Word /\ " " \in Word
  BY DEF Word
<1>2. command \in Seq(Word) /\ mention \in Seq(Word) /\ command # <<>>
  <2>1. Word \ {"@", " "} \subseteq Word /\ Word \ {" "} \subseteq Word
    OBVIOUS
  <2>2. command \in Seq(Word)
    BY <2>1, SeqMonotonic
  <2>3. mention \in Seq(Word)
    BY <2>1, SeqMonotonic
  <2> QED
    BY <2>2, <2>3
<1>3. /\ \A i \in 1..Len(command) : command[i] # "@" /\ command[i] # " "
      /\ \A i \in 1..Len(mention) : mention[i] # " "
  <2>1. \A i \in 1..Len(command) : command[i] \in Word \ {"@", " "}
    BY ElementOfSeq
  <2>2. \A i \in 1..Len(mention) : mention[i] \in Word \ {" "}
    BY ElementOfSeq
  <2> QED
    BY <2>1, <2>2
<1>4. at \in Seq(Word) /\ rest \in Seq(Word) /\ slash \in Seq(Word)
  <2>1. <<>> \in Seq(Word)
    BY EmptySeq
  <2>2. <<"@">> \o mention \in Seq(Word)
    BY <1>1, <1>2, Prefixed
  <2>3. <<" ">> \o args \in Seq(Word)
    BY <1>1, Prefixed
  <2>4. slash \in Seq(Word)
    BY <1>1, Single
  <2> QED
    BY <2>1, <2>2, <2>3, <2>4
<1>5. \A i \in 1..Len(at) : at[i] # " "
  <2>1. mention # <<>> => \A i \in 1..Len(<<"@">> \o mention) : (<<"@">> \o mention)[i] # " "
    BY <1>1, <1>2, <1>3, MentionPart
  <2>2. mention = <<>> => Len(at) = 0
    OBVIOUS
  <2>3. mention # <<>> => at = <<"@">> \o mention
    OBVIOUS
  <2> HIDE DEF at
  <2>4. Len(at) = 0 => \A i \in 1..Len(at) : at[i] # " "
    BY NoneAtAll
  <2> QED
    BY <2>1, <2>2, <2>3, <2>4
<1> HIDE DEF at, rest, slash
<1>6. name \in Seq(Word) /\ \A i \in 1..Len(name) : name[i] # " "
  BY <1>2, <1>3, <1>4, <1>5, NotIn
<1>7. text = slash \o (name \o rest)
  <2>1. text = ((slash \o command) \o at) \o rest
    BY DEF at, rest, slash
  <2>2. (slash \o command) \o at = slash \o name
    <3> HIDE DEF slash, at
    <3>1. slash \in Seq(Word) /\ command \in Seq(Word) /\ at \in Seq(Word)
      BY <1>2, <1>4
    <3> QED
      BY <3>1, Associates
  <2> HIDE DEF name
  <2>3. (slash \o name) \o rest = slash \o (name \o rest)
    BY <1>4, <1>6, Associates
  <2> QED
    BY <2>1, <2>2, <2>3
<1>8. Filter!Before(name, "@") = command /\ Filter!After(name, "@") = mention
  <2>1. CASE mention = <<>>
    <3>1. name = command
      BY <1>2, <2>1, ConcatEmptySeq DEF at
    <3> QED
      BY <1>2, <1>3, <2>1, <3>1, Uncut
  <2>2. CASE mention # <<>>
    <3>1. name = command \o (<<"@">> \o mention)
      BY <2>2 DEF at
    <3>2. \A i \in 1..Len(command) : command[i] # "@"
      BY <1>3
    <3> HIDE DEF name
    <3> QED
      BY <1>1, <1>2, <3>1, <3>2, Cut
  <2> QED
    BY <2>1, <2>2
<1> HIDE DEF name
<1>9. name \o rest \in Seq(Word)
  <2> HIDE DEF rest, slash
  <2>1. name \in Seq(Word) /\ rest \in Seq(Word)
    BY <1>4, <1>6
  <2> QED
    BY <2>1, ConcatProperties, ZenonT(30)
<1>10. text # <<>> /\ Head(text) = "/" /\ Tail(text) = name \o rest
  <2> DEFINE t == name \o rest
  <2>1. t \in Seq(Word) /\ "/" \in Word
    BY <1>9 DEF Word
  <2>2. text = <<"/">> \o t
    BY <1>7 DEF slash
  <2> HIDE DEF t, text, rest
  <2>3. <<"/">> \o t # <<>> /\ Head(<<"/">> \o t) = "/" /\ Tail(<<"/">> \o t) = t
    BY <2>1, Prefixed
  <2>4. text # <<>> /\ Head(text) = "/" /\ Tail(text) = t
    BY <2>2, <2>3, Zenon
  <2> QED
    BY <2>4 DEF t
<1>11. /\ Filter!Before(name \o rest, " ") = name
       /\ Filter!TrimSpace(Filter!After(name \o rest, " ")) = Filter!TrimSpace(args)
  <2>1. CASE args = <<>>
    <3>1. name \o rest = name
      BY <1>6, <2>1, ConcatEmptySeq DEF rest
    <3> QED
      BY <1>6, <2>1, <3>1, Uncut
  <2>2. CASE args # <<>>
    <3>1. name \o rest = name \o (<<" ">> \o args)
      BY <2>2 DEF rest
    <3> QED
      BY <1>1, <1>6, <3>1, Cut
  <2> QED
    BY <2>1, <2>2
<1> QED
  BY <1>2, <1>8, <1>10, <1>11 DEF Filter!ParseCommand

(* The bots that answer are the one that is mentioned, or all of them. *)
LEMMA Commanding ==
  ASSUME NEW command \in Seq(Word \ {"@", " "}) \ {<<>>}, NEW mention \in Seq(Word \ {" "}), NEW args \in Seq(Word),
         NEW name \in Seq(Word), NEW botUsernames \in SUBSET Seq(Word)
  PROVE  Filter!CommandsRight(command, mention, args, name, botUsernames)
<1> DEFINE text == <<"/">> \o command \o (IF mention = <<>> THEN <<>> ELSE <<"@">> \o mention)
                     \o (IF args = <<>> THEN <<>> ELSE <<" ">> \o args)
           parsed == [command |-> command, mention |-> mention, args |-> Filter!TrimSpace(args)]
<1>1. Filter!ParseCommand(text) = parsed
  <2> HIDE DEF text, parsed
  <2> QED
    BY Parsing DEF text, parsed
<1> HIDE DEF text
<1>2. parsed # Filter!NoCommand
  BY DEF Filter!NoCommand
<1>3. \A named, bot : Filter!FilterCommand(text, named, bot) <=>
        Filter!EqualFold(command, named) /\ (mention = <<>> \/ Filter!EqualFold(mention, bot))
  <2> HIDE DEF parsed
  <2>1. parsed.command = command /\ parsed.mention = mention
    BY DEF parsed
  <2> QED
    BY <1>1, <1>2, <2>1, Zenon DEF Filter!FilterCommand
<1>4. \A bot \in botUsernames : Filter!EqualFold(mention, bot) <=> Filter!EqualFold(bot, mention)
  <2> SUFFICES ASSUME NEW bot \in botUsernames
               PROVE  Filter!EqualFold(mention, bot) <=> Filter!EqualFold(bot, mention)
    OBVIOUS
  <2>1. DOMAIN mention = 1..Len(mention) /\ DOMAIN bot = 1..Len(bot)
    BY LenProperties
  <2> QED
    BY <2>1, Zenon DEF Filter!EqualFold
<1>5. {bot \in botUsernames : Filter!FilterCommand(text, name, bot)} =
        IF ~Filter!EqualFold(command, name) THEN {}
        ELSE IF mention = <<>> THEN botUsernames
        ELSE {bot \in botUsernames : Filter!EqualFold(bot, mention)}
  BY <1>3, <1>4
<1>6. \A bot \in botUsernames :
        Filter!FilterCommandStartDeepLink(text, bot) <=>
          Filter!FilterCommand(text, <<"start">>, bot) /\ Filter!TrimSpace(args) # <<>>
  <2>1. parsed.args = Filter!TrimSpace(args)
    OBVIOUS
  <2> HIDE DEF parsed
  <2> QED
    BY <1>1, <2>1, Zenon DEF Filter!FilterCommandStartDeepLink
<1> QED
  BY <1>1, <1>5, <1>6 DEF Filter!CommandsRight, text

-----------------------------------------------------------------------------
(* Recursive functions: one is what its equations say if what they say can   *)
(* be, and two that are by the same equations agree.                           *)

(* A function on m..n that is given at some numbers, and at others, p, what   *)
(* g[p] makes of its value at a lesser one, step[p], exists.                  *)
Recursion(m, n, done, out, step, g, f) ==
  f = [p \in m..n |-> IF p \in done THEN out[p] ELSE g[p][f[step[p]]]]

LEMMA RecursionExists ==
  ASSUME NEW m \in Nat, NEW n \in Nat, m <= n, NEW S, NEW done, NEW out, NEW step, NEW g,
         \A p \in m..n : p \in done => out[p] \in S,
         \A p \in m..n : p \notin done => step[p] \in m..p - 1 /\ g[p] \in [S -> S]
  PROVE  \E f \in [m..n -> S] : Recursion(m, n, done, out, step, g, f)
<1> DEFINE Value(f, p) == IF p \in done THEN out[p] ELSE g[p][f[step[p]]]
           Defined(k)  == \E f \in [m..k -> S] : f = [p \in m..k |-> Value(f, p)]
           bad == {k \in m..n : ~Defined(k)}
<1>1. ASSUME bad # {}
      PROVE  FALSE
  <2>1. PICK k \in bad : \A j \in bad : k <= j
    <3>1. bad \subseteq Nat
      OBVIOUS
    <3> HIDE DEF bad
    <3> QED
      BY <1>1, <3>1, LeastNumber
  <2>2. k \in m..n /\ ~Defined(k)
    BY <2>1
  <2>3. CASE k = m
    <3> DEFINE f == [p \in m..m |-> out[p]]
    <3>1. m \in m..n /\ ~(step[m] \in m..m - 1)
      OBVIOUS
    <3>2. m \in done
      BY <3>1
    <3>3. \A p \in m..m : p \in done /\ out[p] \in S
      <4>1. \A p \in m..m : p = m
        OBVIOUS
      <4> QED
        BY <3>1, <3>2, <4>1
    <3>4. \A p \in m..m : f[p] = Value(f, p)
      BY <3>3
    <3>5. f \in [m..m -> S] /\ f = [p \in m..m |-> f[p]]
      BY <3>3
    <3>6. f = [p \in m..m |-> Value(f, p)]
      <4> HIDE DEF Value, f
      <4> QED
        BY <3>4, <3>5
    <3>7. Defined(m)
      <4> HIDE DEF Value, f
      <4> QED
        BY <3>5, <3>6
    <3> QED
      BY <2>2, <2>3, <3>7
  <2>4. CASE k # m
    <3>1. k - 1 \in m..n /\ ~(k <= k - 1) /\ k \in Int /\ \A p \in m..k : p # k => p \in m..k - 1
      BY <2>2, <2>4
    <3>2. Defined(k - 1)
      BY <2>1, <3>1
    <3>3. PICK f \in [m..k - 1 -> S] : f = [p \in m..k - 1 |-> Value(f, p)]
      BY <3>2
    <3> DEFINE h == [p \in m..k |-> IF p = k THEN Value(f, k) ELSE f[p]]
    <3>4. \A p \in m..k : p \notin done => step[p] \in m..k - 1 /\ step[p] \in m..k /\ step[p] # k
      BY <2>2, <3>1
    <3>5. \A p \in m..k : p \notin done => h[step[p]] = f[step[p]]
      BY <3>4
    <3>6. \A p \in m..k : Value(h, p) = Value(f, p)
      <4> HIDE DEF h
      <4> QED
        BY <3>5
    <3>7. Value(f, k) \in S
      <4>1. CASE k \in done
        BY <2>2, <4>1
      <4>2. CASE k \notin done
        <5>1. k \in m..k
          BY <3>1, <2>2
        <5>2. f[step[k]] \in S /\ g[k] \in [S -> S]
          BY <2>2, <3>4, <4>2, <5>1
        <5> QED
          BY <4>2, <5>2
      <4> QED
        BY <4>1, <4>2
    <3>8. \A p \in m..k : h[p] = IF p = k THEN Value(f, k) ELSE f[p]
      OBVIOUS
    <3>9. h \in [m..k -> S] /\ h = [p \in m..k |-> h[p]]
      <4>1. \A p \in m..k : (IF p = k THEN Value(f, k) ELSE f[p]) \in S
        <5> HIDE DEF Value
        <5> QED
          BY <3>1, <3>7
      <4> HIDE DEF Value
      <4> QED
        BY <4>1
    <3>10. \A p \in m..k : p # k => f[p] = Value(f, p)
      <4> HIDE DEF Value
      <4> QED
        BY <3>3, <3>1
    <3>11. \A p \in m..k : h[p] = Value(h, p)
      <4> HIDE DEF Value, h
      <4> QED
        BY <3>6, <3>8, <3>10
    <3>12. h = [p \in m..k |-> Value(h, p)]
      <4> HIDE DEF Value, h
      <4> QED
        BY <3>9, <3>11
    <3>13. Defined(k)
      <4> HIDE DEF Value, h
      <4> QED
        BY <3>9, <3>12
    <3> QED
      BY <2>2, <3>13
  <2> QED
    BY <2>3, <2>4
<1>2. Defined(n)
  BY <1>1
<1> QED
  BY <1>2 DEF Recursion

Iteration(m, n, a, g, f) == f = [p \in m..n |-> IF p = m THEN a ELSE g[p][f[p - 1]]]

LEMMA IterationExists ==
  ASSUME NEW m \in Nat, NEW n \in Nat, m <= n, NEW S, NEW a \in S, NEW g,
         \A p \in m..n : p # m => g[p] \in [S -> S]
  PROVE  \E f \in [m..n -> S] : Iteration(m, n, a, g, f)
<1> DEFINE out  == [p \in m..n |-> a]
           step == [p \in m..n |-> p - 1]
<1>1. /\ \A p \in m..n : p \in {m} => out[p] \in S
      /\ \A p \in m..n : p \notin {m} => step[p] \in m..p - 1 /\ g[p] \in [S -> S]
  OBVIOUS
<1> HIDE DEF out, step
<1>2. PICK f \in [m..n -> S] : Recursion(m, n, {m}, out, step, g, f)
  BY <1>1, RecursionExists
<1>3. \A p \in m..n : (IF p \in {m} THEN out[p] ELSE g[p][f[step[p]]]) = IF p = m THEN a ELSE g[p][f[p - 1]]
  BY DEF out, step
<1>4. f = [p \in m..n |-> IF p = m THEN a ELSE g[p][f[p - 1]]]
  BY <1>2, <1>3 DEF Recursion
<1> QED
  BY <1>4 DEF Iteration

(* Two iterations that agree at first and in each step agree. *)
Alike(m, n, f, h) ==
  /\ f[m] = h[m]
  /\ \A i \in m..n : i # m /\ f[i - 1] = h[i - 1] => f[i] = h[i]

LEMMA IterationOnly ==
  ASSUME NEW m \in Nat, NEW n \in Nat, NEW f, NEW h, Alike(m, n, f, h)
  PROVE  \A i \in m..n : f[i] = h[i]
<1> DEFINE bad == {i \in m..n : f[i] # h[i]}
<1>1. ASSUME bad # {}
      PROVE  FALSE
  <2>1. PICK i \in bad : \A j \in bad : i <= j
    <3>1. bad \subseteq Nat
      OBVIOUS
    <3> HIDE DEF bad
    <3> QED
      BY <1>1, <3>1, LeastNumber
  <2>2. i # m
    BY <2>1 DEF Alike
  <2>3. i - 1 \in m..n /\ ~(i <= i - 1)
    BY <2>1, <2>2
  <2>4. f[i - 1] = h[i - 1]
    BY <2>1, <2>3
  <2> QED
    BY <2>1, <2>2, <2>4 DEF Alike
<1> QED
  BY <1>1

-----------------------------------------------------------------------------
(* Keyboards: a keyboard that has n buttons has those numbered 1..n, in        *)
(* ascending rows, after each call and when its rows are adjusted.             *)

(* The parts of FlattenSeq's result *)
IsFlattening(T, s, f) ==
  /\ f \in [1..Len(s) -> Seq(T)]
  /\ f[1] = s[1]
  /\ \A i \in 1..Len(s) : i # 1 => f[i] = f[i - 1] \o s[i]
  /\ Keyboard!FlattenSeq(s) = f[Len(s)]

LEMMA FlattenLoop ==
  ASSUME NEW T, NEW s \in Seq(Seq(T)), s # <<>>
  PROVE  \E f : IsFlattening(T, s, f)
<1> DEFINE n == Len(s)
           Step(f, i) == IF i = 1 THEN s[i] ELSE f[i - 1] \o s[i]
           flatten == CHOOSE f : f = [i \in 1..n |-> Step(f, i)]
           g == [i \in 1..n |-> [x \in Seq(T) |-> x \o s[i]]]
<1>1. n \in Nat /\ 1 <= n /\ n # 0
  OBVIOUS
<1>2. \A i \in 1..n : s[i] \in Seq(T)
  BY <1>1, ElementOfSeq
<1>3. Keyboard!FlattenSeq(s) = flatten[n]
  BY <1>1 DEF Keyboard!FlattenSeq
<1>4. \A i \in 1..n : g[i] \in [Seq(T) -> Seq(T)]
  BY <1>2, ConcatProperties
<1>5. \A i \in 1..n, x \in Seq(T) : g[i][x] = x \o s[i]
  OBVIOUS
<1> HIDE DEF n, g
<1>6. PICK f \in [1..n -> Seq(T)] : Iteration(1, n, s[1], g, f)
  <2>1. s[1] \in Seq(T)
    <3>1. 1 \in 1..n
      BY <1>1
    <3> QED
      BY <1>2, <3>1
  <2> QED
    BY <1>1, <1>4, <2>1, IterationExists
<1>7. \A i \in 1..n : (IF i = 1 THEN s[1] ELSE g[i][f[i - 1]]) = Step(f, i)
  <2> SUFFICES ASSUME NEW i \in 1..n, i # 1
               PROVE  g[i][f[i - 1]] = f[i - 1] \o s[i]
    OBVIOUS
  <2>1. f[i - 1] \in Seq(T)
    BY <1>1
  <2> QED
    BY <1>5, <2>1
<1>8. f = [i \in 1..n |-> Step(f, i)]
  <2> HIDE DEF Step
  <2> QED
    BY <1>6, <1>7 DEF Iteration
<1>9. flatten = [i \in 1..n |-> Step(flatten, i)]
  <2> HIDE DEF Step
  <2> QED
    BY <1>8
<1>10. \A i \in 1..n : flatten[i] = Step(flatten, i)
  <2> HIDE DEF Step, flatten
  <2> QED
    BY <1>9
<1>11. DOMAIN flatten = 1..n /\ flatten = [i \in 1..n |-> flatten[i]]
  <2> HIDE DEF Step, flatten
  <2> QED
    BY <1>9
<1> HIDE DEF flatten
<1> DEFINE bad == {i \in 1..n : flatten[i] \notin Seq(T)}
<1>12. ASSUME bad # {}
       PROVE  FALSE
  <2>1. PICK i \in bad : \A j \in 1..n : j < i => j \notin bad
    <3>1. bad \subseteq 1..n
      OBVIOUS
    <3> HIDE DEF bad
    <3> QED
      BY <1>1, <1>12, <3>1, FirstPlace
  <2>2. i # 1 => i - 1 \in 1..n /\ i - 1 < i
    BY <1>1
  <2>3. i # 1 => flatten[i - 1] \in Seq(T)
    BY <2>1, <2>2
  <2>4. Step(flatten, i) \in Seq(T)
    BY <1>2, <2>3, ConcatProperties
  <2> QED
    BY <1>10, <2>1, <2>4
<1>13. flatten \in [1..n -> Seq(T)]
  BY <1>11, <1>12
<1>14. 1 \in 1..n
  BY <1>1
<1> QED
  BY <1>3, <1>10, <1>13, <1>14 DEF IsFlattening, n

(* Flattened sequences are sequences of what theirs are of. *)
LEMMA FlattenSequence ==
  ASSUME NEW T
  PROVE  /\ Keyboard!FlattenSeq(<<>>) = <<>>
         /\ \A s \in Seq(Seq(T)) : Keyboard!FlattenSeq(s) \in Seq(T)
<1>1. Keyboard!FlattenSeq(<<>>) = <<>>
  BY DEF Keyboard!FlattenSeq
<1>2. ASSUME NEW s \in Seq(Seq(T)), s # <<>>
      PROVE  Keyboard!FlattenSeq(s) \in Seq(T)
  <2>1. PICK f : IsFlattening(T, s, f)
    BY <1>2, FlattenLoop
  <2>2. Len(s) \in 1..Len(s)
    BY <1>2
  <2> QED
    BY <2>1, <2>2 DEF IsFlattening
<1> QED
  BY <1>1, <1>2

(* A sequence more is flattened to its elements after the others'. *)
LEMMA FlattenAppend ==
  ASSUME NEW T, NEW s \in Seq(Seq(T)), NEW x \in Seq(T)
  PROVE  Keyboard!FlattenSeq(Append(s, x)) = Keyboard!FlattenSeq(s) \o x
<1> DEFINE t == Append(s, x)
           n == Len(s)
<1>1. n \in Nat /\ Len(t) = n + 1 /\ t \in Seq(Seq(T)) /\ t # <<>> /\ t[n + 1] = x /\ \A i \in 1..n : t[i] = s[i]
  BY AppendProperties
<1> HIDE DEF t
<1>2. PICK h : IsFlattening(T, t, h)
  BY <1>1, FlattenLoop
<1>3. CASE s = <<>>
  <2>1. n = 0
    BY <1>3
  <2>2. Keyboard!FlattenSeq(t) = x
    BY <1>1, <1>2, <2>1 DEF IsFlattening
  <2>3. Keyboard!FlattenSeq(s) = <<>>
    BY <1>3, FlattenSequence
  <2>4. <<>> \o x = x
    BY ConcatEmptySeq
  <2> QED
    BY <2>2, <2>3, <2>4 DEF t
<1>4. CASE s # <<>>
  <2>1. PICK f : IsFlattening(T, s, f)
    BY <1>4, FlattenLoop
  <2>2. n # 0
    BY <1>4
  <2> HIDE DEF n
  <2> DEFINE bad == {i \in 1..n : f[i] # h[i]}
  <2>3. ASSUME bad # {}
        PROVE  FALSE
    <3>1. PICK i \in bad : \A j \in 1..n : j < i => j \notin bad
      <4>1. bad \subseteq 1..n
        OBVIOUS
      <4> HIDE DEF bad
      <4> QED
        BY <1>1, <2>3, <4>1, FirstPlace
    <3>2. i \in 1..n /\ i \in 1..n + 1 /\ t[i] = s[i] /\ f[i] # h[i]
      BY <1>1, <3>1
    <3>3. CASE i = 1
      BY <1>1, <1>2, <2>1, <3>2, <3>3 DEF IsFlattening, n
    <3>4. CASE i # 1
      <4>1. i - 1 \in 1..n /\ i - 1 < i
        BY <1>1, <3>2, <3>4
      <4>2. f[i - 1] = h[i - 1]
        BY <3>1, <4>1
      <4>3. f[i] = f[i - 1] \o s[i]
        BY <2>1, <3>2, <3>4 DEF IsFlattening, n
      <4>4. h[i] = h[i - 1] \o t[i]
        BY <1>1, <1>2, <3>2, <3>4 DEF IsFlattening
      <4> QED
        BY <3>2, <4>2, <4>3, <4>4
    <3> QED
      BY <3>3, <3>4
  <2>4. f[n] = h[n]
    <3>1. n \in 1..n
      BY <1>1, <2>2
    <3> QED
      BY <2>3, <3>1
  <2>5. Keyboard!FlattenSeq(s) = f[n]
    BY <2>1 DEF IsFlattening, n
  <2>6. Keyboard!FlattenSeq(t) = h[n + 1] /\ h[n + 1] = h[n] \o x
    <3>1. n + 1 \in 1..Len(t) /\ n + 1 # 1 /\ (n + 1) - 1 = n
      BY <1>1, <2>2
    <3> QED
      BY <1>1, <1>2, <3>1 DEF IsFlattening
  <2> QED
    BY <2>4, <2>5, <2>6 DEF t
<1> QED
  BY <1>3, <1>4

(* The next beginning of a sequence *)
LEMMA OneLonger ==
  ASSUME NEW T, NEW s \in Seq(T), NEW k \in 0..Len(s) - 1
  PROVE  /\ SubSeq(s, 1, k) \in Seq(T) /\ Len(SubSeq(s, 1, k)) = k
         /\ k + 1 \in 1..Len(s) /\ s[k + 1] \in T
         /\ SubSeq(s, 1, k + 1) = Append(SubSeq(s, 1, k), s[k + 1])
<1>1. Len(s) \in Nat /\ k + 1 \in 1..Len(s) /\ k \in 0..Len(s) /\ 1 \in 1..Len(s) /\ k + 1 - 1 = k
  OBVIOUS
<1>2. \A i \in 1..Len(s) : s[i] \in T
  BY ElementOfSeq
<1>3. SubSeq(s, 1, k) \in Seq(T) /\ Len(SubSeq(s, 1, k)) = k
  <2>1. \A i \in 1..k : s[i] \in T
    BY <1>1, <1>2
  <2>2. Len(SubSeq(s, 1, k)) = IF 1 <= k THEN k - 1 + 1 ELSE 0
    BY <2>1, SubSeqProperties
  <2> QED
    BY <1>1, <2>1, <2>2, SubSeqProperties
<1>4. SubSeq(s, 1, k + 1) = SubSeq(s, 1, k + 1 - 1) \o <<s[k + 1]>>
  BY <1>1, SubSeqRecursiveSecond
<1>5. Append(SubSeq(s, 1, k), s[k + 1]) = SubSeq(s, 1, k) \o <<s[k + 1]>>
  BY <1>1, <1>2, <1>3, AppendIsConcat
<1> QED
  BY <1>1, <1>2, <1>3, <1>4, <1>5

LEMMA ConcatAppend ==
  ASSUME NEW T, NEW s \in Seq(T), NEW t \in Seq(T), NEW e \in T
  PROVE  s \o Append(t, e) = Append(s \o t, e)
<1>1. Append(t, e) = t \o <<e>> /\ <<e>> \in Seq(T) /\ s \o t \in Seq(T)
  BY AppendIsConcat, ConcatProperties
<1>2. Append(s \o t, e) = (s \o t) \o <<e>>
  BY <1>1, AppendIsConcat
<1>3. (s \o t) \o <<e>> = s \o (t \o <<e>>)
  BY <1>1, ConcatAssociative
<1> QED
  BY <1>1, <1>2, <1>3

(* Rows of one button each *)
LEMMA FlattenSingles ==
  ASSUME NEW T, NEW s \in Seq(Seq(T)), NEW b \in Seq(T)
  PROVE  LET singles == [i \in DOMAIN b |-> <<b[i]>>]
         IN singles \in Seq(Seq(T)) /\ Keyboard!FlattenSeq(s \o singles) = Keyboard!FlattenSeq(s) \o b
<1> DEFINE singles == [i \in DOMAIN b |-> <<b[i]>>]
           n == Len(b)
           P(k) == Keyboard!FlattenSeq(s \o SubSeq(singles, 1, k)) = Keyboard!FlattenSeq(s) \o SubSeq(b, 1, k)
<1>1. n \in Nat /\ singles \in Seq(Seq(T)) /\ Len(singles) = n /\ \A i \in 1..n : singles[i] = <<b[i]>> /\ b[i] \in T
  <2>1. \A i \in 1..n : b[i] \in T /\ <<b[i]>> \in Seq(T)
    BY ElementOfSeq
  <2>2. singles \in [1..n -> Seq(T)]
    BY <2>1
  <2>3. n \in Nat
    OBVIOUS
  <2>4. singles \in Seq(Seq(T)) /\ Len(singles) = n
    <3> HIDE DEF singles, n
    <3> QED
      BY <2>2, <2>3
  <2> QED
    BY <2>1, <2>3, <2>4
<1>2. Keyboard!FlattenSeq(s) \in Seq(T)
  BY FlattenSequence
<1> HIDE DEF singles
<1>3. P(0)
  <2>1. SubSeq(singles, 1, 0) = <<>> /\ SubSeq(b, 1, 0) = <<>>
    BY SubSeqEmpty
  <2>2. s \o <<>> = s /\ Keyboard!FlattenSeq(s) \o <<>> = Keyboard!FlattenSeq(s)
    BY <1>2, ConcatEmptySeq
  <2> QED
    BY <2>1, <2>2
<1>4. ASSUME NEW k \in 0..n - 1, P(k)
      PROVE  P(k + 1)
  <2> DEFINE u == SubSeq(singles, 1, k)
             v == SubSeq(b, 1, k)
  <2>1. u \in Seq(Seq(T)) /\ v \in Seq(T) /\ k + 1 \in 1..n
    BY <1>1, OneLonger
  <2>2. SubSeq(singles, 1, k + 1) = Append(u, <<b[k + 1]>>)
    BY <1>1, <2>1, OneLonger
  <2>3. SubSeq(b, 1, k + 1) = Append(v, b[k + 1])
    BY OneLonger
  <2>4. Keyboard!FlattenSeq(s \o u) = Keyboard!FlattenSeq(s) \o v
    BY <1>4
  <2> HIDE DEF u, v
  <2>5. b[k + 1] \in T /\ <<b[k + 1]>> \in Seq(T)
    BY <1>1, <2>1
  <2>6. s \o Append(u, <<b[k + 1]>>) = Append(s \o u, <<b[k + 1]>>) /\ s \o u \in Seq(Seq(T))
    BY <2>1, <2>5, ConcatAppend, ConcatProperties
  <2>7. Keyboard!FlattenSeq(Append(s \o u, <<b[k + 1]>>)) = Keyboard!FlattenSeq(s \o u) \o <<b[k + 1]>>
    BY <2>5, <2>6, FlattenAppend
  <2>8. Keyboard!FlattenSeq(s) \o v \in Seq(T)
    BY <1>2, <2>1, ConcatProperties
  <2>9. (Keyboard!FlattenSeq(s) \o v) \o <<b[k + 1]>> = Append(Keyboard!FlattenSeq(s) \o v, b[k + 1])
    BY <2>5, <2>8, AppendIsConcat
  <2>10. Append(Keyboard!FlattenSeq(s) \o v, b[k + 1]) = Keyboard!FlattenSeq(s) \o Append(v, b[k + 1])
    <3> DEFINE F == Keyboard!FlattenSeq(s)
               w == b[k + 1]
    <3>1. F \in Seq(T) /\ w \in T /\ v \in Seq(T)
      BY <1>2, <2>1, <2>5
    <3> HIDE DEF F, w
    <3>2. F \o Append(v, w) = Append(F \o v, w)
      BY <3>1, ConcatAppend
    <3> QED
      BY <3>2 DEF F, w
  <2> QED
    BY <2>2, <2>3, <2>4, <2>6, <2>7, <2>9, <2>10
<1> HIDE DEF P
<1>5. P(n)
  <2> DEFINE bad == {k \in 0..n : ~P(k)}
  <2>1. ASSUME bad # {}
        PROVE  FALSE
    <3>1. PICK k \in bad : \A j \in bad : k <= j
      <4>1. bad \subseteq Nat
        OBVIOUS
      <4> HIDE DEF bad
      <4> QED
        BY <2>1, <4>1, LeastNumber
    <3>2. k # 0
      BY <1>3, <3>1
    <3>3. k - 1 \in 0..n - 1 /\ k - 1 \in 0..n /\ ~(k <= k - 1) /\ (k - 1) + 1 = k
      BY <1>1, <3>1, <3>2
    <3>4. P(k - 1)
      BY <3>1, <3>3
    <3> QED
      BY <1>4, <3>1, <3>3, <3>4
  <2> QED
    BY <1>1, <2>1
<1>6. SubSeq(singles, 1, n) = singles /\ SubSeq(b, 1, n) = b
  <2>1. SubSeq(singles, 1, Len(singles)) = singles
    BY <1>1, SubSeqFull
  <2>2. SubSeq(b, 1, Len(b)) = b
    BY SubSeqFull
  <2> QED
    BY <1>1, <2>1, <2>2
<1> QED
  BY <1>1, <1>5, <1>6 DEF P, singles

Builder == [rows : Seq(Seq(Nat)), currentRow : Seq(Nat)]

(* The buttons of a builder, in the order they are in; what is true of rows *)
Buttons(kb)  == Keyboard!FlattenSeq(kb.rows) \o kb.currentRow
Ascending(s) == \A i, j \in 1..Len(s) : i < j => s[i] < s[j]
GoodRows(rows) == \A i \in 1..Len(rows) : rows[i] # <<>> /\ Ascending(rows[i])

LEMMA RangeOfSequence ==
  ASSUME NEW T, NEW s \in Seq(T)
  PROVE  \A x : x \in Keyboard!Range(s) <=> \E i \in 1..Len(s) : s[i] = x
<1>1. DOMAIN s = 1..Len(s)
  BY LenProperties
<1> QED
  BY <1>1 DEF Keyboard!Range

LEMMA RangeOfConcat ==
  ASSUME NEW T, NEW s \in Seq(T), NEW t \in Seq(T)
  PROVE  Keyboard!Range(s \o t) = Keyboard!Range(s) \cup Keyboard!Range(t)
<1> DEFINE u == s \o t
<1>1. /\ u \in Seq(T) /\ Len(s) \in Nat /\ Len(t) \in Nat /\ Len(u) = Len(s) + Len(t)
      /\ \A i \in 1..Len(s) + Len(t) : u[i] = IF i <= Len(s) THEN s[i] ELSE t[i - Len(s)]
  BY ConcatProperties
<1> HIDE DEF u
<1>2. ASSUME NEW x \in Keyboard!Range(u)
      PROVE  x \in Keyboard!Range(s) \cup Keyboard!Range(t)
  <2>1. PICK i \in 1..Len(u) : u[i] = x
    BY <1>1, RangeOfSequence
  <2>2. CASE i <= Len(s)
    <3>1. i \in 1..Len(s) /\ s[i] = x
      BY <1>1, <2>1, <2>2
    <3> QED
      BY <3>1, RangeOfSequence
  <2>3. CASE ~(i <= Len(s))
    <3>1. i - Len(s) \in 1..Len(t) /\ t[i - Len(s)] = x
      BY <1>1, <2>1, <2>3
    <3> QED
      BY <3>1, RangeOfSequence
  <2> QED
    BY <2>2, <2>3
<1>3. ASSUME NEW x \in Keyboard!Range(s)
      PROVE  x \in Keyboard!Range(u)
  <2>1. PICK i \in 1..Len(s) : s[i] = x
    BY RangeOfSequence
  <2>2. i \in 1..Len(u) /\ u[i] = x
    BY <1>1, <2>1
  <2> QED
    BY <1>1, <2>2, RangeOfSequence
<1>4. ASSUME NEW x \in Keyboard!Range(t)
      PROVE  x \in Keyboard!Range(u)
  <2>1. PICK i \in 1..Len(t) : t[i] = x
    BY RangeOfSequence
  <2>2. i + Len(s) \in 1..Len(u) /\ ~(i + Len(s) <= Len(s)) /\ (i + Len(s)) - Len(s) = i
    BY <1>1, <2>1
  <2>3. u[i + Len(s)] = x
    BY <1>1, <2>1, <2>2
  <2> QED
    BY <1>1, <2>2, <2>3, RangeOfSequence
<1> QED
  BY <1>2, <1>3, <1>4 DEF u

LEMMA RowAppended ==
  ASSUME NEW rows \in Seq(Seq(Nat)), NEW row \in Seq(Nat), row # <<>>, Ascending(row), GoodRows(rows)
  PROVE  Append(rows, row) \in Seq(Seq(Nat)) /\ GoodRows(Append(rows, row))
<1> DEFINE t == Append(rows, row)
<1>1. /\ t \in Seq(Seq(Nat)) /\ Len(rows) \in Nat /\ Len(t) = Len(rows) + 1
      /\ \A i \in 1..Len(rows) : t[i] = rows[i]
      /\ t[Len(rows) + 1] = row
  BY AppendProperties
<1> HIDE DEF t
<1>2. ASSUME NEW i \in 1..Len(t)
      PROVE  t[i] # <<>> /\ Ascending(t[i])
  <2>1. CASE i \in 1..Len(rows)
    BY <1>1, <2>1 DEF GoodRows
  <2>2. CASE i = Len(rows) + 1
    BY <1>1, <2>2
  <2> QED
    BY <1>1, <2>1, <2>2
<1>3. GoodRows(t)
  BY <1>2 DEF GoodRows
<1> QED
  BY <1>1, <1>3 DEF t

LEMMA FinishedRow ==
  ASSUME NEW kb \in Builder, GoodRows(kb.rows), Ascending(kb.currentRow)
  PROVE  LET f == Keyboard!finishRow(kb)
         IN /\ f \in Builder /\ GoodRows(f.rows) /\ f.currentRow = <<>>
            /\ Keyboard!FlattenSeq(f.rows) = Buttons(kb) /\ Buttons(f) = Buttons(kb)
<1> DEFINE f == Keyboard!finishRow(kb)
           F == Keyboard!FlattenSeq(kb.rows)
<1>1. kb.rows \in Seq(Seq(Nat)) /\ kb.currentRow \in Seq(Nat)
  BY DEF Builder
<1>2. F \in Seq(Nat)
  BY <1>1, FlattenSequence
<1>3. CASE kb.currentRow = <<>>
  <2>1. f = kb
    BY <1>3 DEF Keyboard!finishRow
  <2>2. F \o <<>> = F
    BY <1>2, ConcatEmptySeq
  <2> QED
    BY <1>3, <2>1, <2>2 DEF Buttons
<1>4. CASE kb.currentRow # <<>>
  <2>1. f = [rows |-> Append(kb.rows, kb.currentRow), currentRow |-> <<>>]
    BY <1>4 DEF Keyboard!finishRow
  <2>2. Append(kb.rows, kb.currentRow) \in Seq(Seq(Nat)) /\ GoodRows(Append(kb.rows, kb.currentRow))
    BY <1>1, <1>4, RowAppended
  <2>3. Keyboard!FlattenSeq(Append(kb.rows, kb.currentRow)) = F \o kb.currentRow
    BY <1>1, FlattenAppend
  <2>4. f.rows = Append(kb.rows, kb.currentRow) /\ f.currentRow = <<>>
    BY <2>1
  <2>5. <<>> \in Seq(Nat)
    OBVIOUS
  <2>6. f \in Builder
    <3> DEFINE r == Append(kb.rows, kb.currentRow)
    <3>1. f = [rows |-> r, currentRow |-> <<>>] /\ r \in Seq(Seq(Nat))
      BY <2>1, <2>2
    <3> HIDE DEF r, f
    <3> QED
      BY <2>5, <3>1 DEF Builder
  <2>7. Keyboard!FlattenSeq(f.rows) = Buttons(kb)
    BY <2>3, <2>4 DEF Buttons
  <2>8. Buttons(kb) \o <<>> = Buttons(kb)
    <3>1. Buttons(kb) \in Seq(Nat)
      BY <1>1, <1>2, ConcatProperties DEF Buttons
    <3> QED
      BY <3>1, ConcatEmptySeq
  <2>9. Buttons(f) = Buttons(kb)
    <3>1. Buttons(f) = Keyboard!FlattenSeq(f.rows) \o f.currentRow
      BY DEF Buttons
    <3> HIDE DEF f
    <3> QED
      BY <2>4, <2>7, <2>8, <3>1
  <2>10. GoodRows(f.rows) /\ f.currentRow = <<>>
    BY <2>2, <2>4
  <2> QED
    BY <2>6, <2>7, <2>9, <2>10
<1> QED
  BY <1>3, <1>4

(* Buttons are numbered as they come. *)
Numbered(first, n) == [i \in 1..n |-> first + i - 1]

(* The buttons of one call *)
LEMMA NextButtons ==
  ASSUME NEW m \in Nat, NEW n \in Nat
  PROVE  LET b == Numbered(m + 1, n)
         IN /\ b \in Seq(Nat) /\ Len(b) = n /\ DOMAIN b = 1..n /\ (b = <<>> <=> n = 0)
            /\ Ascending(b) /\ \A i \in 1..n : b[i] = m + i
            /\ Keyboard!Range(b) = m + 1..m + n
<1> DEFINE b == Numbered(m + 1, n)
<1>1. \A i \in 1..n : b[i] = m + i /\ m + i \in Nat
  BY DEF Numbered
<1>2. b \in [1..n -> Nat]
  <2>1. \A i \in 1..n : m + 1 + i - 1 \in Nat
    OBVIOUS
  <2> QED
    BY <2>1 DEF Numbered
<1> HIDE DEF b
<1>3. b \in Seq(Nat) /\ Len(b) = n /\ DOMAIN b = 1..n
  BY <1>2
<1>4. b = <<>> <=> n = 0
  BY <1>3
<1>5. Ascending(b)
  BY <1>1, <1>3 DEF Ascending
<1>6. \A x : x \in Keyboard!Range(b) <=> x \in m + 1..m + n
  <2>1. ASSUME NEW x \in Keyboard!Range(b)
        PROVE  x \in m + 1..m + n
    <3>1. PICK i \in 1..n : b[i] = x
      BY <1>3, RangeOfSequence
    <3> QED
      BY <1>1, <3>1
  <2>2. ASSUME NEW x \in m + 1..m + n
        PROVE  x \in Keyboard!Range(b)
    <3>1. x - m \in 1..n /\ m + (x - m) = x
      OBVIOUS
    <3>2. b[x - m] = x
      BY <1>1, <3>1
    <3> QED
      BY <1>3, <3>1, <3>2, RangeOfSequence
  <2> QED
    BY <2>1, <2>2
<1> QED
  BY <1>1, <1>3, <1>4, <1>5, <1>6 DEF b

LEMMA AscendingOn ==
  ASSUME NEW m \in Nat, NEW n \in Nat, NEW a \in Seq(Nat), Ascending(a), \A x \in Keyboard!Range(a) : x <= m
  PROVE  Ascending(a \o Numbered(m + 1, n))
<1> DEFINE b == Numbered(m + 1, n)
           u == a \o b
<1>1. b \in Seq(Nat) /\ Len(b) = n /\ Ascending(b) /\ \A i \in 1..n : b[i] = m + i
  BY NextButtons
<1> HIDE DEF b
<1>2. /\ u \in Seq(Nat) /\ Len(a) \in Nat /\ Len(u) = Len(a) + n
      /\ \A i \in 1..Len(a) + n : u[i] = IF i <= Len(a) THEN a[i] ELSE b[i - Len(a)]
  <2>1. /\ u \in Seq(Nat) /\ Len(u) = Len(a) + Len(b)
        /\ \A i \in 1..Len(a) + Len(b) : u[i] = IF i <= Len(a) THEN a[i] ELSE b[i - Len(a)]
    BY <1>1, ConcatProperties
  <2> HIDE DEF u
  <2> QED
    BY <1>1, <2>1, LenProperties
<1> HIDE DEF u
<1>3. ASSUME NEW i \in 1..Len(u), NEW j \in 1..Len(u), i < j
      PROVE  u[i] < u[j]
  <2>1. CASE j <= Len(a)
    <3>1. i \in 1..Len(a) /\ j \in 1..Len(a) /\ u[i] = a[i] /\ u[j] = a[j]
      BY <1>2, <1>3, <2>1
    <3> QED
      BY <1>3, <3>1 DEF Ascending
  <2>2. CASE i <= Len(a) /\ ~(j <= Len(a))
    <3>1. i \in 1..Len(a) /\ j - Len(a) \in 1..n /\ u[i] = a[i] /\ u[j] = b[j - Len(a)]
      BY <1>2, <2>2
    <3>2. a[i] <= m /\ a[i] \in Nat
      BY <3>1, RangeOfSequence, ElementOfSeq
    <3>3. u[j] = m + (j - Len(a))
      BY <1>1, <3>1
    <3> QED
      BY <3>1, <3>2, <3>3
  <2>3. CASE ~(i <= Len(a))
    <3>1. /\ i - Len(a) \in 1..n /\ j - Len(a) \in 1..n /\ i - Len(a) < j - Len(a)
          /\ u[i] = b[i - Len(a)] /\ u[j] = b[j - Len(a)]
      BY <1>2, <1>3, <2>3
    <3> QED
      BY <1>1, <3>1
  <2> QED
    BY <2>1, <2>2, <2>3
<1>4. Ascending(u)
  BY <1>3 DEF Ascending
<1> QED
  BY <1>4 DEF u, b

(* What a builder of the buttons 1..m is like *)
Holds(kb, m) ==
  /\ kb \in Builder /\ GoodRows(kb.rows) /\ Ascending(kb.currentRow)
  /\ Buttons(kb) \in Seq(Nat) /\ Len(Buttons(kb)) = m /\ Keyboard!Range(Buttons(kb)) = 1..m

LEMMA Extended ==
  ASSUME NEW m \in Nat, NEW n \in Nat, NEW a \in Seq(Nat), Len(a) = m, Keyboard!Range(a) = 1..m
  PROVE  LET b == Numbered(m + 1, n)
         IN /\ a \o b \in Seq(Nat) /\ Len(a \o b) = m + n /\ Keyboard!Range(a \o b) = 1..m + n
            /\ Ascending(a) => Ascending(a \o b)
<1> DEFINE b == Numbered(m + 1, n)
<1>1. b \in Seq(Nat) /\ Len(b) = n /\ Keyboard!Range(b) = m + 1..m + n
  BY NextButtons
<1>2. Ascending(a) => Ascending(a \o b)
  BY AscendingOn
<1> HIDE DEF b
<1>3. Keyboard!Range(a \o b) = 1..m + n
  <2>1. Keyboard!Range(a \o b) = Keyboard!Range(a) \cup Keyboard!Range(b)
    BY <1>1, RangeOfConcat
  <2> QED
    BY <1>1, <2>1
<1>4. a \o b \in Seq(Nat) /\ Len(a \o b) = m + n
  BY <1>1, ConcatProperties
<1> QED
  BY <1>2, <1>3, <1>4 DEF b

LEMMA BuilderOf ==
  ASSUME NEW r \in Seq(Seq(Nat)), NEW c \in Seq(Nat)
  PROVE  [rows |-> r, currentRow |-> c] \in Builder
BY DEF Builder

LEMMA BuilderWith ==
  ASSUME NEW kb \in Builder, NEW r, NEW c
  PROVE  /\ [kb EXCEPT !.rows = r] = [rows |-> r, currentRow |-> kb.currentRow]
         /\ [kb EXCEPT !.currentRow = c] = [rows |-> kb.rows, currentRow |-> c]
BY DEF Builder

(* What the builder's calls do to the keyboard of 1..m *)
LEMMA RowStep ==
  ASSUME NEW m \in Nat, NEW n \in Nat, NEW kb, Holds(kb, m)
  PROVE  LET k == Keyboard!Row(kb, Numbered(m + 1, n))
         IN /\ Holds(k, m + n) /\ k.currentRow = <<>>
            /\ Ascending(Buttons(kb)) => Ascending(Buttons(k))
<1> DEFINE b == Numbered(m + 1, n)
           f == Keyboard!finishRow(kb)
           k == Keyboard!Row(kb, b)
<1>1. b \in Seq(Nat) /\ (b = <<>> <=> n = 0) /\ Ascending(b)
  BY NextButtons
<1>2. kb \in Builder /\ GoodRows(kb.rows) /\ Ascending(kb.currentRow) /\ Buttons(kb) \in Seq(Nat)
  BY DEF Holds
<1>3. /\ f \in Builder /\ GoodRows(f.rows) /\ f.currentRow = <<>>
      /\ Keyboard!FlattenSeq(f.rows) = Buttons(kb) /\ Buttons(f) = Buttons(kb)
  BY <1>2, FinishedRow
<1>4. f.rows \in Seq(Seq(Nat))
  BY <1>3 DEF Builder
<1>5. Ascending(<<>>)
  BY DEF Ascending
<1> HIDE DEF f, b
<1>6. CASE n = 0
  <2>1. k = f
    BY <1>1, <1>6 DEF Keyboard!Row, f
  <2>2. Holds(f, m)
    BY <1>3, <1>5 DEF Holds
  <2>3. m + n = m
    BY <1>6
  <2> QED
    BY <1>3, <2>1, <2>2, <2>3 DEF b
<1>7. CASE n # 0
  <2>1. k = [f EXCEPT !.rows = Append(f.rows, b)]
    BY <1>1, <1>7 DEF Keyboard!Row, f
  <2>2. k = [rows |-> Append(f.rows, b), currentRow |-> <<>>]
    BY <1>3, <2>1 DEF Builder
  <2>3. k.rows = Append(f.rows, b) /\ k.currentRow = <<>>
    BY <2>2
  <2>4. Append(f.rows, b) \in Seq(Seq(Nat)) /\ GoodRows(Append(f.rows, b))
    BY <1>1, <1>3, <1>4, <1>7, RowAppended
  <2>5. k \in Builder
    <3>1. <<>> \in Seq(Nat)
      OBVIOUS
    <3> HIDE DEF k
    <3> QED
      BY <2>2, <2>4, <3>1, BuilderOf
  <2>6. Buttons(k) = Buttons(kb) \o b
    <3>1. Keyboard!FlattenSeq(Append(f.rows, b)) = Buttons(kb) \o b
      BY <1>1, <1>3, <1>4, FlattenAppend
    <3>2. (Buttons(kb) \o b) \o <<>> = Buttons(kb) \o b
      <4>1. Buttons(kb) \o b \in Seq(Nat)
        BY <1>1, <1>2, ConcatProperties
      <4> QED
        BY <4>1, ConcatEmptySeq
    <3>3. Buttons(k) = Keyboard!FlattenSeq(k.rows) \o k.currentRow
      BY DEF Buttons
    <3> HIDE DEF k
    <3> QED
      BY <2>3, <3>1, <3>2, <3>3
  <2>7. /\ Buttons(kb) \o b \in Seq(Nat) /\ Len(Buttons(kb) \o b) = m + n
        /\ Keyboard!Range(Buttons(kb) \o b) = 1..m + n
        /\ Ascending(Buttons(kb)) => Ascending(Buttons(kb) \o b)
    <3>1. Len(Buttons(kb)) = m /\ Keyboard!Range(Buttons(kb)) = 1..m
      BY DEF Holds
    <3> QED
      BY <1>2, <3>1, Extended DEF b
  <2> HIDE DEF k
  <2>8. Holds(k, m + n)
    BY <1>5, <2>3, <2>4, <2>5, <2>6, <2>7 DEF Holds
  <2> QED
    BY <2>3, <2>6, <2>7, <2>8 DEF k, b
<1> QED
  BY <1>6, <1>7

LEMMA InsertStep ==
  ASSUME NEW m \in Nat, NEW kb, Holds(kb, m)
  PROVE  LET k == Keyboard!Insert(kb, m + 1)
         IN Holds(k, m + 1) /\ (Ascending(Buttons(kb)) => Ascending(Buttons(k)))
<1> DEFINE b == Numbered(m + 1, 1)
           c == kb.currentRow
           k == Keyboard!Insert(kb, m + 1)
           F == Keyboard!FlattenSeq(kb.rows)
<1>1. b \in Seq(Nat) /\ b = <<m + 1>>
  <2>1. b \in Seq(Nat) /\ Len(b) = 1 /\ b[1] = m + 1
    <3>1. 1 \in 1..1
      OBVIOUS
    <3> QED
      BY <3>1, NextButtons
  <2>2. Len(<<m + 1>>) = 1 /\ <<m + 1>> \in Seq(Nat) /\ <<m + 1>>[1] = m + 1
    OBVIOUS
  <2> HIDE DEF b
  <2>3. \A i \in 1..Len(b) : b[i] = <<m + 1>>[i]
    BY <2>1, <2>2, OneOnly
  <2> QED
    BY <2>1, <2>2, <2>3, SeqEqual
<1>2. /\ kb \in Builder /\ GoodRows(kb.rows) /\ Ascending(c) /\ Buttons(kb) \in Seq(Nat) /\ Len(Buttons(kb)) = m
      /\ Keyboard!Range(Buttons(kb)) = 1..m
  BY DEF Holds
<1>3. kb.rows \in Seq(Seq(Nat)) /\ c \in Seq(Nat)
  BY <1>2 DEF Builder
<1>4. F \in Seq(Nat) /\ Buttons(kb) = F \o c
  BY <1>3, FlattenSequence DEF Buttons
<1>5. k = [rows |-> kb.rows, currentRow |-> c \o b]
  <2>1. Append(c, m + 1) = c \o <<m + 1>>
    <3>1. m + 1 \in Nat
      OBVIOUS
    <3> HIDE DEF c
    <3> QED
      BY <1>3, <3>1, AppendIsConcat
  <2>2. k = [rows |-> kb.rows, currentRow |-> Append(c, m + 1)]
    <3>1. k = [kb EXCEPT !.currentRow = Append(c, m + 1)]
      BY DEF Keyboard!Insert
    <3> HIDE DEF k, c
    <3> QED
      BY <1>2, <3>1, BuilderWith
  <2> HIDE DEF k, b, c
  <2> QED
    BY <1>1, <2>1, <2>2
<1>6. Ascending(c \o b)
  <2>1. \A x \in Keyboard!Range(c) : x <= m
    <3>1. Keyboard!Range(F \o c) = Keyboard!Range(F) \cup Keyboard!Range(c)
      BY <1>3, <1>4, RangeOfConcat
    <3> QED
      BY <1>2, <1>4, <3>1
  <2> QED
    BY <1>2, <1>3, <2>1, AscendingOn
<1>7. /\ Buttons(kb) \o b \in Seq(Nat) /\ Len(Buttons(kb) \o b) = m + 1
      /\ Keyboard!Range(Buttons(kb) \o b) = 1..m + 1
      /\ Ascending(Buttons(kb)) => Ascending(Buttons(kb) \o b)
  BY <1>2, Extended
<1> HIDE DEF b, c
<1>8. k.rows = kb.rows /\ k.currentRow = c \o b /\ c \o b \in Seq(Nat)
  <2>1. c \o b \in Seq(Nat)
    BY <1>1, <1>3, ConcatProperties
  <2> HIDE DEF k
  <2> QED
    BY <1>5, <2>1
<1>9. Buttons(k) = Buttons(kb) \o b
  <2>1. Buttons(k) = Keyboard!FlattenSeq(k.rows) \o k.currentRow
    BY DEF Buttons
  <2>2. (F \o c) \o b = F \o (c \o b)
    <3>1. F \in Seq(Nat) /\ c \in Seq(Nat) /\ b \in Seq(Nat)
      BY <1>1, <1>3, <1>4
    <3> HIDE DEF F
    <3> QED
      BY <3>1, ConcatAssociative
  <2> HIDE DEF k
  <2> QED
    BY <1>4, <1>8, <2>1, <2>2
<1>10. k \in Builder
  <2> HIDE DEF k
  <2> QED
    BY <1>3, <1>5, <1>8, BuilderOf
<1> HIDE DEF k
<1>11. Holds(k, m + 1)
  BY <1>2, <1>6, <1>7, <1>8, <1>9, <1>10 DEF Holds
<1> QED
  BY <1>7, <1>9, <1>11 DEF k

LEMMA AddStep ==
  ASSUME NEW m \in Nat, NEW n \in Nat, NEW kb, Holds(kb, m)
  PROVE  LET k == Keyboard!Add(kb, Numbered(m + 1, n))
         IN /\ Holds(k, m + n) /\ k.currentRow = kb.currentRow
            /\ kb.currentRow = <<>> /\ Ascending(Buttons(kb)) => Ascending(Buttons(k))
<1> DEFINE b == Numbered(m + 1, n)
           c == kb.currentRow
           k == Keyboard!Add(kb, b)
           F == Keyboard!FlattenSeq(kb.rows)
           singles == [i \in DOMAIN b |-> <<b[i]>>]
<1>1. /\ b \in Seq(Nat) /\ Len(b) = n /\ Keyboard!Range(b) = m + 1..m + n /\ DOMAIN b = 1..n
      /\ \A i \in 1..n : b[i] = m + i
  BY NextButtons
<1>2. /\ kb \in Builder /\ GoodRows(kb.rows) /\ Ascending(c) /\ Buttons(kb) \in Seq(Nat) /\ Len(Buttons(kb)) = m
      /\ Keyboard!Range(Buttons(kb)) = 1..m
  BY DEF Holds
<1>3. kb.rows \in Seq(Seq(Nat)) /\ c \in Seq(Nat)
  BY <1>2 DEF Builder
<1>4. F \in Seq(Nat) /\ Buttons(kb) = F \o c
  BY <1>3, FlattenSequence DEF Buttons
<1>5. singles \in Seq(Seq(Nat)) /\ Keyboard!FlattenSeq(kb.rows \o singles) = F \o b
  <2> HIDE DEF b
  <2> QED
    BY <1>1, <1>3, FlattenSingles
<1>6. Len(singles) = n /\ \A i \in 1..n : singles[i] = <<b[i]>>
  <2> HIDE DEF b
  <2>1. DOMAIN singles = 1..n /\ \A i \in 1..n : singles[i] = <<b[i]>>
    BY <1>1
  <2>2. DOMAIN singles = 1..Len(singles) /\ Len(singles) \in Nat
    BY <1>5, LenProperties
  <2> HIDE DEF singles
  <2> QED
    BY <2>1, <2>2
<1>7. k = [rows |-> kb.rows \o singles, currentRow |-> c]
  <2>1. k = [kb EXCEPT !.rows = kb.rows \o singles]
    <3> HIDE DEF b
    <3> QED
      BY DEF Keyboard!Add
  <2> HIDE DEF k, b, singles
  <2> QED
    BY <1>2, <2>1, BuilderWith
<1> HIDE DEF b, c, singles
<1>8. kb.rows \o singles \in Seq(Seq(Nat)) /\ GoodRows(kb.rows \o singles)
  <2> DEFINE t == kb.rows \o singles
  <2>1. /\ t \in Seq(Seq(Nat)) /\ Len(kb.rows) \in Nat /\ Len(singles) \in Nat /\ Len(t) = Len(kb.rows) + Len(singles)
        /\ \A i \in 1..Len(kb.rows) + Len(singles) : t[i] = IF i <= Len(kb.rows) THEN kb.rows[i] ELSE singles[i - Len(kb.rows)]
    BY <1>3, <1>5, ConcatProperties
  <2> HIDE DEF t
  <2>2. ASSUME NEW i \in 1..Len(t)
        PROVE  t[i] # <<>> /\ Ascending(t[i])
    <3>1. CASE i <= Len(kb.rows)
      <4>1. i \in 1..Len(kb.rows) /\ t[i] = kb.rows[i]
        BY <2>1, <3>1
      <4> QED
        BY <1>2, <4>1 DEF GoodRows
    <3>2. CASE ~(i <= Len(kb.rows))
      <4> DEFINE j == i - Len(kb.rows)
      <4>1. i \in 1..Len(kb.rows) + n /\ j \in 1..n
        BY <1>6, <2>1, <3>2
      <4>2. t[i] = singles[j]
        BY <1>6, <2>1, <3>2, <4>1
      <4> HIDE DEF j
      <4>3. t[i] = <<b[j]>>
        BY <1>6, <4>1, <4>2
      <4>4. <<b[j]>> # <<>> /\ Ascending(<<b[j]>>)
        BY DEF Ascending
      <4> QED
        BY <4>3, <4>4
    <3> QED
      BY <3>1, <3>2
  <2>3. GoodRows(t)
    BY <2>2 DEF GoodRows
  <2> QED
    BY <2>1, <2>3 DEF t
<1>9. k \in Builder /\ k.rows = kb.rows \o singles /\ k.currentRow = c
  <2>1. k \in Builder
    <3> HIDE DEF k
    <3> QED
      BY <1>3, <1>7, <1>8, BuilderOf
  <2> HIDE DEF k
  <2> QED
    BY <1>7, <2>1
<1>10. Buttons(k) = (F \o b) \o c
  <2> HIDE DEF k
  <2> QED
    BY <1>5, <1>9 DEF Buttons
<1>11. (F \o b) \o c \in Seq(Nat) /\ Len((F \o b) \o c) = m + n /\ Keyboard!Range((F \o b) \o c) = 1..m + n
  <2> HIDE DEF F
  <2>1. F \o b \in Seq(Nat) /\ Len(F \o b) = Len(F) + n
    BY <1>1, <1>4, ConcatProperties
  <2>2. (F \o b) \o c \in Seq(Nat) /\ Len((F \o b) \o c) = Len(F) + n + Len(c)
    BY <1>3, <2>1, ConcatProperties
  <2>3. Len(F) + Len(c) = m /\ Len(F) \in Nat /\ Len(c) \in Nat
    BY <1>2, <1>3, <1>4, ConcatProperties
  <2>4. Keyboard!Range((F \o b) \o c) = (Keyboard!Range(F) \cup Keyboard!Range(b)) \cup Keyboard!Range(c)
    <3>1. Keyboard!Range((F \o b) \o c) = Keyboard!Range(F \o b) \cup Keyboard!Range(c)
      <4> DEFINE fb == F \o b
      <4>1. fb \in Seq(Nat) /\ c \in Seq(Nat)
        BY <1>3, <2>1
      <4> HIDE DEF fb
      <4>2. Keyboard!Range(fb \o c) = Keyboard!Range(fb) \cup Keyboard!Range(c)
        BY <4>1, RangeOfConcat
      <4> QED
        BY <4>2 DEF fb
    <3>2. Keyboard!Range(F \o b) = Keyboard!Range(F) \cup Keyboard!Range(b)
      BY <1>1, <1>4, RangeOfConcat
    <3> QED
      BY <3>1, <3>2
  <2>5. Keyboard!Range(F) \cup Keyboard!Range(c) = 1..m
    BY <1>2, <1>3, <1>4, RangeOfConcat
  <2>6. Keyboard!Range((F \o b) \o c) = 1..m \cup m + 1..m + n
    BY <1>1, <2>4, <2>5
  <2>7. 1..m \cup m + 1..m + n = 1..m + n
    OBVIOUS
  <2>8. Len(F) + n + Len(c) = m + n
    BY <2>3
  <2> QED
    BY <2>2, <2>6, <2>7, <2>8
<1>12. ASSUME c = <<>>, Ascending(Buttons(kb))
       PROVE  Ascending(Buttons(k))
  <2>1. F \o <<>> = F /\ F \o b \in Seq(Nat) /\ (F \o b) \o <<>> = F \o b
    <3> HIDE DEF F
    <3>1. F \o b \in Seq(Nat)
      BY <1>1, <1>4, ConcatProperties
    <3> QED
      BY <1>4, <3>1, ConcatEmptySeq
  <2>2. Ascending(F) /\ Keyboard!Range(F) = 1..m
    <3> HIDE DEF F
    <3> QED
      BY <1>2, <1>4, <1>12, <2>1
  <2>3. Ascending(F \o b)
    <3>1. \A x \in Keyboard!Range(F) : x <= m
      BY <2>2
    <3> HIDE DEF F
    <3> QED
      BY <1>4, <2>2, <3>1, AscendingOn DEF b
  <2>4. Buttons(k) = F \o b
    <3> HIDE DEF F, k
    <3> QED
      BY <1>10, <1>12, <2>1
  <2> HIDE DEF F, k
  <2> QED
    BY <2>3, <2>4
<1> HIDE DEF k, F
<1>13. Holds(k, m + n)
  BY <1>2, <1>8, <1>9, <1>10, <1>11 DEF Holds
<1> QED
  BY <1>9, <1>12, <1>13 DEF k, b, c

Reached == {built \in [kb : Builder, next : Nat \ {0}] : Holds(built.kb, built.next - 1)}
Applied(built, call) == [kb |-> Keyboard!Apply(built.kb, call, built.next), next |-> built.next + call.n]

LEMMA InReached ==
  ASSUME NEW m \in Nat, NEW kb, Holds(kb, m)
  PROVE  [kb |-> kb, next |-> m + 1] \in Reached
<1>1. kb \in Builder /\ m + 1 \in Nat \ {0} /\ (m + 1) - 1 = m
  BY DEF Holds
<1> DEFINE r == [kb |-> kb, next |-> m + 1]
<1>2. r.kb = kb /\ r.next = m + 1 /\ r \in [kb : Builder, next : Nat \ {0}]
  BY <1>1
<1> HIDE DEF r
<1> QED
  BY <1>1, <1>2 DEF Reached, r

LEMMA ApplyStep ==
  ASSUME NEW built \in Reached, NEW call \in BuilderCall
  PROVE  LET then == Applied(built, call)
         IN /\ then \in Reached
            /\ \/ call.is = "Row" /\ then.kb.currentRow = <<>>
               \/ call.is = "Add" /\ then.kb.currentRow = built.kb.currentRow
               \/ call.is = "Insert"
            /\ Ascending(Buttons(built.kb)) =>
                 Ascending(Buttons(then.kb)) \/ (call.is = "Add" /\ built.kb.currentRow # <<>>)
<1> DEFINE m == built.next - 1
           n == call.n
           kb == built.kb
           k == Keyboard!Apply(kb, call, built.next)
           then == Applied(built, call)
<1>1. m \in Nat /\ built.next = m + 1 /\ Holds(kb, m)
  BY DEF Reached
<1>2. n \in Nat /\ call.is \in {"Row", "Add", "Insert"} /\ (call.is = "Insert" => n = 1)
  BY DEF BuilderCall
<1>3. then.kb = k /\ then.next = (m + n) + 1
  <2>1. then = [kb |-> k, next |-> built.next + n]
    BY DEF Applied
  <2> HIDE DEF k, then, n, m
  <2> QED
    BY <1>1, <1>2, <2>1
<1>4. then = [kb |-> k, next |-> (m + n) + 1]
  <2>1. built.next + n = (m + n) + 1
    BY <1>1, <1>2
  <2> QED
    BY <2>1 DEF Applied
<1>5. /\ call.is = "Row" => k = Keyboard!Row(kb, Numbered(built.next, n))
      /\ call.is = "Add" => k = Keyboard!Add(kb, Numbered(built.next, n))
      /\ call.is = "Insert" => k = Keyboard!Insert(kb, built.next)
  BY DEF Keyboard!Apply, Numbered
<1>6. m + n \in Nat
  BY <1>1, <1>2
<1> HIDE DEF k, then, n, kb, m
<1>7. Holds(k, m + n) => then \in Reached
  BY <1>4, <1>6, InReached
<1>8. CASE call.is = "Row"
  <2>1. k = Keyboard!Row(kb, Numbered(m + 1, n))
    BY <1>1, <1>5, <1>8
  <2>2. Holds(k, m + n) /\ k.currentRow = <<>> /\ (Ascending(Buttons(kb)) => Ascending(Buttons(k)))
    BY <1>1, <1>2, <2>1, RowStep
  <2> QED
    BY <1>3, <1>7, <1>8, <2>2 DEF then, kb
<1>9. CASE call.is = "Add"
  <2>1. k = Keyboard!Add(kb, Numbered(m + 1, n))
    BY <1>1, <1>5, <1>9
  <2>2. Holds(k, m + n) /\ k.currentRow = kb.currentRow /\ (kb.currentRow = <<>> /\ Ascending(Buttons(kb)) => Ascending(Buttons(k)))
    BY <1>1, <1>2, <2>1, AddStep
  <2> QED
    BY <1>3, <1>7, <1>9, <2>2 DEF then, kb
<1>10. CASE call.is = "Insert"
  <2>1. k = Keyboard!Insert(kb, m + 1) /\ n = 1
    BY <1>1, <1>2, <1>5, <1>10
  <2>2. Holds(k, m + n) /\ (Ascending(Buttons(kb)) => Ascending(Buttons(k)))
    BY <1>1, <2>1, InsertStep
  <2> QED
    BY <1>3, <1>7, <1>10, <2>2 DEF then, kb
<1> QED
  BY <1>2, <1>8, <1>9, <1>10

LEMMA Nothing == [kb |-> Keyboard!NewInlineKeyboard, next |-> 1] \in Reached
<1> DEFINE kb == Keyboard!NewInlineKeyboard
<1>1. kb.rows = <<>> /\ kb.currentRow = <<>> /\ kb \in Builder
  <2>1. <<>> \in Seq(Seq(Nat)) /\ <<>> \in Seq(Nat)
    OBVIOUS
  <2>2. kb = [rows |-> <<>>, currentRow |-> <<>>]
    BY DEF Keyboard!NewInlineKeyboard
  <2> HIDE DEF kb
  <2> QED
    BY <2>1, <2>2, BuilderOf
<1> HIDE DEF kb
<1>2. Buttons(kb) = <<>>
  <2>1. Keyboard!FlattenSeq(<<>>) = <<>>
    BY FlattenSequence
  <2>2. <<>> \o <<>> = <<>>
    OBVIOUS
  <2> QED
    BY <1>1, <2>1, <2>2 DEF Buttons
<1>3. Keyboard!Range(<<>>) = 1..0
  BY DEF Keyboard!Range
<1>4. Holds(kb, 0)
  <2>1. GoodRows(<<>>) /\ Ascending(<<>>) /\ <<>> \in Seq(Nat) /\ Len(<<>>) = 0
    BY DEF GoodRows, Ascending
  <2> QED
    BY <1>1, <1>2, <1>3, <2>1 DEF Holds
<1>5. [kb |-> kb, next |-> 0 + 1] \in Reached
  BY <1>4, InReached
<1>6. 0 + 1 = 1
  OBVIOUS
<1> QED
  BY <1>5, <1>6 DEF kb

(* The builders on the way to After(calls) *)
IsBuilding(calls, f) ==
  /\ f \in [0..Len(calls) -> Reached]
  /\ f[0] = [kb |-> Keyboard!NewInlineKeyboard, next |-> 1]
  /\ \A i \in 1..Len(calls) : f[i] = Applied(f[i - 1], calls[i])
  /\ Keyboard!After(calls) = f[Len(calls)]

LEMMA AfterLoop ==
  ASSUME NEW calls \in Seq(BuilderCall)
  PROVE  \E f : IsBuilding(calls, f)
<1> DEFINE n == Len(calls)
           first == [kb |-> Keyboard!NewInlineKeyboard, next |-> 1]
           Step(f, i) == IF i = 0 THEN first ELSE Applied(f[i - 1], calls[i])
           Built == CHOOSE f : f = [i \in 0..n |-> Step(f, i)]
           g == [i \in 0..n |-> [b \in Reached |-> Applied(b, calls[i])]]
<1>1. n \in Nat /\ 0 \in Nat /\ 0 <= n /\ \A i \in 1..n : calls[i] \in BuilderCall
  BY ElementOfSeq
<1>2. first \in Reached
  BY Nothing
<1>3. Keyboard!After(calls) = Built[n]
  BY DEF Keyboard!After, Applied
<1> HIDE DEF first
<1>4. ASSUME NEW p \in 0..n, p # 0
      PROVE  g[p] \in [Reached -> Reached] /\ \A b \in Reached : g[p][b] = Applied(b, calls[p])
  <2>1. \A b \in Reached : Applied(b, calls[p]) \in Reached
    BY <1>1, <1>4, ApplyStep
  <2> QED
    BY <2>1
<1> HIDE DEF g, n
<1>5. PICK f \in [0..n -> Reached] : Iteration(0, n, first, g, f)
  BY <1>1, <1>2, <1>4, IterationExists
<1>6. \A i \in 0..n : f[i] = Step(f, i)
  <2>1. \A i \in 0..n : f[i] = IF i = 0 THEN first ELSE g[i][f[i - 1]]
    BY <1>5 DEF Iteration
  <2>2. \A i \in 0..n : i # 0 => f[i - 1] \in Reached
    BY <1>1
  <2> QED
    BY <1>4, <2>1, <2>2
<1>7. f = [i \in 0..n |-> Step(f, i)]
  <2> HIDE DEF Step
  <2> QED
    BY <1>6
<1>8. \A i \in 0..n : Built[i] = Step(Built, i)
  <2>1. Built = [i \in 0..n |-> Step(Built, i)]
    <3> HIDE DEF Step
    <3> QED
      BY <1>7
  <2> HIDE DEF Step, Built
  <2> QED
    BY <2>1
<1> HIDE DEF Built
<1>9. \A i \in 0..n : f[i] = Built[i]
  <2>1. f[0] = Built[0]
    BY <1>1, <1>6, <1>8
  <2>2. \A i \in 0..n : i # 0 /\ f[i - 1] = Built[i - 1] => f[i] = Built[i]
    BY <1>6, <1>8
  <2>3. Alike(0, n, f, Built)
    BY <2>1, <2>2 DEF Alike
  <2> QED
    BY <1>1, <2>3, IterationOnly
<1>10. Keyboard!After(calls) = f[n]
  BY <1>1, <1>3, <1>9
<1>11. \A i \in 1..n : f[i] = Applied(f[i - 1], calls[i])
  BY <1>6
<1>12. f[0] = first
  BY <1>1, <1>6
<1> QED
  BY <1>10, <1>11, <1>12 DEF IsBuilding, n, first

Overtaken(calls, n) == \E i, j \in 1..n : i < j /\ calls[i].is = "Insert" /\ calls[j].is = "Add"

(* After all calls the keyboard has all buttons, ascending unless Add overtook Insert. *)
LEMMA Building ==
  ASSUME NEW calls \in Seq(BuilderCall)
  PROVE  LET built == Keyboard!After(calls)
         IN built \in Reached /\ (Overtaken(calls, Len(calls)) \/ Ascending(Buttons(built.kb)))
<1> DEFINE n == Len(calls)
<1>1. n \in Nat /\ \A i \in 1..n : calls[i] \in BuilderCall
  BY ElementOfSeq
<1>2. PICK f : IsBuilding(calls, f)
  BY AfterLoop
<1>3. /\ f \in [0..n -> Reached] /\ f[0] = [kb |-> Keyboard!NewInlineKeyboard, next |-> 1]
      /\ \A i \in 1..n : f[i] = Applied(f[i - 1], calls[i])
      /\ Keyboard!After(calls) = f[n]
  BY <1>2 DEF IsBuilding
<1> DEFINE Inserted(k) == \E j \in 1..k : calls[j].is = "Insert"
           P(k) == /\ f[k].kb.currentRow # <<>> => Inserted(k)
                   /\ Overtaken(calls, k) \/ Ascending(Buttons(f[k].kb))
<1> HIDE DEF n
<1>4. P(0)
  <2>1. f[0].kb = Keyboard!NewInlineKeyboard
    BY <1>3
  <2>2. Keyboard!NewInlineKeyboard.currentRow = <<>> /\ Keyboard!NewInlineKeyboard.rows = <<>>
    BY DEF Keyboard!NewInlineKeyboard
  <2>3. Buttons(Keyboard!NewInlineKeyboard) = <<>>
    <3>1. Keyboard!FlattenSeq(<<>>) = <<>> /\ <<>> \o <<>> = <<>>
      BY FlattenSequence
    <3> QED
      BY <2>2, <3>1 DEF Buttons
  <2>4. Ascending(<<>>)
    BY DEF Ascending
  <2> QED
    BY <2>1, <2>2, <2>3, <2>4
<1>5. ASSUME NEW k \in 1..n, P(k - 1)
      PROVE  P(k)
  <2> DEFINE old == f[k - 1]
             call == calls[k]
  <2>1. old \in Reached /\ call \in BuilderCall /\ f[k] = Applied(old, call)
    BY <1>1, <1>3
  <2>2. /\ \/ call.is = "Row" /\ f[k].kb.currentRow = <<>>
           \/ call.is = "Add" /\ f[k].kb.currentRow = old.kb.currentRow
           \/ call.is = "Insert"
        /\ Ascending(Buttons(old.kb)) => Ascending(Buttons(f[k].kb)) \/ (call.is = "Add" /\ old.kb.currentRow # <<>>)
    <3> HIDE DEF old, call
    <3> QED
      BY <2>1, ApplyStep
  <2>3. Inserted(k - 1) => Inserted(k)
    BY <1>1
  <2>4. call.is = "Insert" => Inserted(k)
    BY <1>1
  <2>5. Overtaken(calls, k - 1) => Overtaken(calls, k)
    BY <1>1 DEF Overtaken
  <2>6. Inserted(k - 1) /\ call.is = "Add" => Overtaken(calls, k)
    BY <1>1 DEF Overtaken
  <2>7. (old.kb.currentRow # <<>> => Inserted(k - 1)) /\ (Overtaken(calls, k - 1) \/ Ascending(Buttons(old.kb)))
    BY <1>5
  <2> HIDE DEF old, call, Inserted
  <2> QED
    BY <2>2, <2>3, <2>4, <2>5, <2>6, <2>7
<1> HIDE DEF P
<1> DEFINE bad == {k \in 0..n : ~P(k)}
<1>6. ASSUME bad # {}
      PROVE  FALSE
  <2>1. PICK k \in bad : \A j \in bad : k <= j
    <3>1. bad \subseteq Nat
      OBVIOUS
    <3> HIDE DEF bad
    <3> QED
      BY <1>6, <3>1, LeastNumber
  <2>2. k # 0
    BY <1>4, <2>1
  <2>3. k \in 1..n /\ k - 1 \in 0..n /\ ~(k <= k - 1)
    BY <1>1, <2>1, <2>2
  <2>4. P(k - 1)
    BY <2>1, <2>3
  <2> QED
    BY <1>5, <2>1, <2>3, <2>4
<1>7. P(n) /\ n \in 0..n
  BY <1>1, <1>6
<1> QED
  BY <1>3, <1>7 DEF P, n

Taking == [rows : Seq(Seq(Nat)), items : Seq(Nat)]

(* One turn of the loop of adjustRows *)
Fits(so, sizes, i) ==
  IF Keyboard!size(sizes, i) < Len(so.items) THEN Keyboard!size(sizes, i) ELSE Len(so.items)
Turned(so, sizes, i) ==
  IF so.items = <<>> THEN so
  ELSE [rows  |-> Append(so.rows, SubSeq(so.items, 1, Fits(so, sizes, i))),
        items |-> SubSeq(so.items, Fits(so, sizes, i) + 1, Len(so.items))]

LEMMA Size ==
  ASSUME NEW sizes \in Seq(Int), NEW i \in Nat \ {0}
  PROVE  /\ Keyboard!size(sizes, i) \in Nat \ {0}
         /\ Keyboard!size(sizes, i) =
              IF sizes = <<>> THEN 1
              ELSE LET s == IF i < Len(sizes) THEN sizes[i] ELSE Keyboard!Last(sizes)
                   IN IF s > 0 THEN s ELSE 1
<1>1. CASE sizes = <<>>
  BY <1>1 DEF Keyboard!size
<1>2. CASE sizes # <<>>
  <2>1. Len(sizes) \in Nat \ {0}
    BY <1>2
  <2> DEFINE j == IF i > Len(sizes) THEN Len(sizes) ELSE i
             s == IF i < Len(sizes) THEN sizes[i] ELSE Keyboard!Last(sizes)
  <2>2. j \in 1..Len(sizes)
    BY <2>1
  <2>3. sizes[j] \in Int
    <3> HIDE DEF j
    <3> QED
      BY <2>2, ElementOfSeq
  <2>4. sizes[j] = s
    <3>1. Keyboard!Last(sizes) = sizes[Len(sizes)]
      BY DEF Keyboard!Last
    <3>2. CASE i < Len(sizes)
      <4>1. j = i
        BY <2>1, <3>2
      <4> QED
        BY <3>2, <4>1
    <3>3. CASE ~(i < Len(sizes))
      <4>1. j = Len(sizes)
        BY <2>1, <3>3
      <4> QED
        BY <3>1, <3>3, <4>1
    <3> QED
      BY <3>2, <3>3
  <2>5. Keyboard!size(sizes, i) = IF sizes[j] > 0 THEN sizes[j] ELSE 1
    BY <1>2 DEF Keyboard!size
  <2> HIDE DEF j
  <2> QED
    BY <1>2, <2>3, <2>4, <2>5
<1> QED
  BY <1>1, <1>2

LEMMA TurnStep ==
  ASSUME NEW so \in Taking, NEW sizes \in Seq(Int), NEW i \in Nat \ {0}, so.items # <<>>
  PROVE  LET n    == Fits(so, sizes, i)
             then == Turned(so, sizes, i)
         IN /\ then \in Taking
            /\ n \in 1..Len(so.items) /\ n <= Keyboard!size(sizes, i)
            /\ Len(then.items) = Len(so.items) - n
            /\ then.items # <<>> => n = Keyboard!size(sizes, i)
            /\ Len(then.rows) = Len(so.rows) + 1
            /\ \A j \in 1..Len(so.rows) : then.rows[j] = so.rows[j]
            /\ Len(then.rows[Len(then.rows)]) = n
            /\ Keyboard!FlattenSeq(then.rows) \o then.items = Keyboard!FlattenSeq(so.rows) \o so.items
<1> DEFINE n    == Fits(so, sizes, i)
           len  == Len(so.items)
           row  == SubSeq(so.items, 1, n)
           rest == SubSeq(so.items, n + 1, len)
           then == Turned(so, sizes, i)
           F    == Keyboard!FlattenSeq(so.rows)
<1>1. so.rows \in Seq(Seq(Nat)) /\ so.items \in Seq(Nat)
  BY DEF Taking
<1>2. len \in Nat \ {0}
  BY <1>1
<1>3. Keyboard!size(sizes, i) \in Nat \ {0}
  BY Size
<1>4. n \in 1..len /\ n <= Keyboard!size(sizes, i) /\ (n < len => n = Keyboard!size(sizes, i))
  BY <1>2, <1>3 DEF Fits
<1>5. then = [rows |-> Append(so.rows, row), items |-> rest]
  BY DEF Turned
<1> HIDE DEF n, then
<1>6. row \in Seq(Nat) /\ Len(row) = n
  <2>1. \A j \in 1..n : so.items[j] \in Nat
    <3>1. \A j \in 1..n : j \in 1..len
      BY <1>2, <1>4
    <3> QED
      BY <1>1, <3>1, ElementOfSeq
  <2>2. 1 \in Int /\ n \in Int /\ 1 <= n
    BY <1>4
  <2>3. row \in Seq(Nat) /\ Len(row) = IF 1 <= n THEN n - 1 + 1 ELSE 0
    BY <2>1, <2>2, SubSeqProperties
  <2> HIDE DEF row
  <2> QED
    BY <2>2, <2>3
<1>7. rest \in Seq(Nat) /\ Len(rest) = len - n
  <2>1. n + 1 \in Int /\ len \in Int
    BY <1>2, <1>4
  <2>2. \A j \in n + 1..len : so.items[j] \in Nat
    <3>1. \A j \in n + 1..len : j \in 1..len
      BY <1>2, <1>4
    <3> QED
      BY <1>1, <3>1, ElementOfSeq
  <2>3. rest \in Seq(Nat) /\ Len(rest) = IF n + 1 <= len THEN len - (n + 1) + 1 ELSE 0
    BY <2>1, <2>2, SubSeqProperties
  <2> HIDE DEF rest
  <2> QED
    BY <1>2, <1>4, <2>3
<1>8. row \o rest = so.items
  <2>1. 1 \in 1..len + 1 /\ n \in 1 - 1..len /\ len \in n..len
    BY <1>2, <1>4
  <2>2. row \o rest = SubSeq(so.items, 1, len)
    BY <1>1, <2>1, ConcatAdjacentSubSeq
  <2> QED
    BY <1>1, <2>2, SubSeqFull
<1> HIDE DEF row, rest
<1>9. /\ Append(so.rows, row) \in Seq(Seq(Nat)) /\ Len(Append(so.rows, row)) = Len(so.rows) + 1
      /\ \A j \in 1..Len(so.rows) : Append(so.rows, row)[j] = so.rows[j]
      /\ Append(so.rows, row)[Len(so.rows) + 1] = row
  BY <1>1, <1>6, AppendProperties
<1>10. then.rows = Append(so.rows, row) /\ then.items = rest
  BY <1>5
<1>11. then \in Taking
  <2> DEFINE r == Append(so.rows, row)
  <2>1. r \in Seq(Seq(Nat)) /\ then = [rows |-> r, items |-> rest]
    BY <1>5, <1>9
  <2> HIDE DEF r
  <2> QED
    BY <1>7, <2>1 DEF Taking
<1>12. Keyboard!FlattenSeq(Append(so.rows, row)) = F \o row /\ F \in Seq(Nat)
  BY <1>1, <1>6, FlattenAppend, FlattenSequence
<1>13. (F \o row) \o rest = F \o (row \o rest)
  <2>1. F \in Seq(Nat) /\ row \in Seq(Nat) /\ rest \in Seq(Nat)
    BY <1>6, <1>7, <1>12
  <2> HIDE DEF F
  <2> QED
    BY <2>1, ConcatAssociative
<1>14. Keyboard!FlattenSeq(then.rows) \o then.items = F \o so.items
  <2> HIDE DEF F
  <2> QED
    BY <1>8, <1>10, <1>12, <1>13
<1>15. rest # <<>> => n = Keyboard!size(sizes, i)
  <2>1. rest # <<>> => Len(rest) # 0
    BY <1>7
  <2> QED
    BY <1>2, <1>4, <1>7, <2>1
<1>16. Len(then.rows) = Len(so.rows) + 1 /\ Len(then.rows[Len(then.rows)]) = n
  BY <1>6, <1>9, <1>10
<1> QED
  BY <1>4, <1>7, <1>9, <1>10, <1>11, <1>14, <1>15, <1>16 DEF then, n, F

(* The turns of the loop of adjustRows *)
IsAdjusting(items, sizes, f) ==
  /\ f \in [0..Len(items) -> Taking]
  /\ f[0] = [rows |-> <<>>, items |-> items]
  /\ \A i \in 1..Len(items) : f[i] = Turned(f[i - 1], sizes, i)
  /\ Keyboard!adjustRows(items, sizes) = f[Len(items)].rows

LEMMA AdjustLoop ==
  ASSUME NEW items \in Seq(Nat), NEW sizes \in Seq(Int)
  PROVE  \E f : IsAdjusting(items, sizes, f)
<1> DEFINE n == Len(items)
           first == [rows |-> <<>>, items |-> items]
           Step(f, i) == IF i = 0 THEN first ELSE Turned(f[i - 1], sizes, i)
           Turn == CHOOSE f : f = [i \in 0..n |-> Step(f, i)]
           g == [i \in 0..n |-> [so \in Taking |-> Turned(so, sizes, i)]]
<1>1. n \in Nat /\ 0 \in Nat /\ 0 <= n
  OBVIOUS
<1>2. first \in Taking
  <2>1. <<>> \in Seq(Seq(Nat))
    OBVIOUS
  <2> QED
    BY <2>1 DEF Taking
<1>3. Keyboard!adjustRows(items, sizes) = Turn[n].rows
  BY DEF Keyboard!adjustRows, Turned, Fits
<1> HIDE DEF first
<1>4. ASSUME NEW p \in 0..n, p # 0
      PROVE  g[p] \in [Taking -> Taking] /\ \A so \in Taking : g[p][so] = Turned(so, sizes, p)
  <2>1. ASSUME NEW so \in Taking
        PROVE  Turned(so, sizes, p) \in Taking
    <3>1. p \in Nat \ {0}
      BY <1>4
    <3>2. CASE so.items = <<>>
      BY <3>2 DEF Turned
    <3>3. CASE so.items # <<>>
      BY <3>1, <3>3, TurnStep
    <3> QED
      BY <3>2, <3>3
  <2> QED
    BY <2>1
<1> HIDE DEF g, n
<1>5. PICK f \in [0..n -> Taking] : Iteration(0, n, first, g, f)
  BY <1>1, <1>2, <1>4, IterationExists
<1>6. \A i \in 0..n : f[i] = Step(f, i)
  <2>1. \A i \in 0..n : f[i] = IF i = 0 THEN first ELSE g[i][f[i - 1]]
    BY <1>5 DEF Iteration
  <2>2. \A i \in 0..n : i # 0 => f[i - 1] \in Taking
    BY <1>1
  <2> QED
    BY <1>4, <2>1, <2>2
<1>7. f = [i \in 0..n |-> Step(f, i)]
  <2> HIDE DEF Step
  <2> QED
    BY <1>6
<1>8. \A i \in 0..n : Turn[i] = Step(Turn, i)
  <2>1. Turn = [i \in 0..n |-> Step(Turn, i)]
    <3> HIDE DEF Step
    <3> QED
      BY <1>7
  <2> HIDE DEF Step, Turn
  <2> QED
    BY <2>1
<1> HIDE DEF Turn
<1>9. \A i \in 0..n : f[i] = Turn[i]
  <2>1. f[0] = Turn[0]
    BY <1>1, <1>6, <1>8
  <2>2. \A i \in 0..n : i # 0 /\ f[i - 1] = Turn[i - 1] => f[i] = Turn[i]
    BY <1>6, <1>8
  <2>3. Alike(0, n, f, Turn)
    BY <2>1, <2>2 DEF Alike
  <2> QED
    BY <1>1, <2>3, IterationOnly
<1>10. Keyboard!adjustRows(items, sizes) = f[n].rows
  BY <1>1, <1>3, <1>9
<1>11. \A i \in 1..n : f[i] = Turned(f[i - 1], sizes, i)
  BY <1>6
<1>12. f[0] = first
  BY <1>1, <1>6
<1> QED
  BY <1>10, <1>11, <1>12 DEF IsAdjusting, n, first

(* Adjusted rows have the items in their order and, but for the last, the     *)
(* sizes asked for.                                                           *)
LEMMA Adjusting ==
  ASSUME NEW items \in Seq(Nat), NEW sizes \in Seq(Int)
  PROVE  LET rows == Keyboard!adjustRows(items, sizes)
         IN /\ rows \in Seq(Seq(Nat)) /\ Keyboard!FlattenSeq(rows) = items
            /\ \A i \in 1..Len(rows) : rows[i] # <<>>
            /\ \A i \in 1..Len(rows) - 1 : Len(rows[i]) = Keyboard!size(sizes, i)
<1> DEFINE n == Len(items)
<1>1. n \in Nat
  OBVIOUS
<1>2. PICK f : IsAdjusting(items, sizes, f)
  BY AdjustLoop
<1>3. /\ f \in [0..n -> Taking] /\ f[0] = [rows |-> <<>>, items |-> items]
      /\ \A i \in 1..n : f[i] = Turned(f[i - 1], sizes, i)
      /\ Keyboard!adjustRows(items, sizes) = f[n].rows
  BY <1>2 DEF IsAdjusting
<1> DEFINE Sized(rows, k) == \A j \in 1..k : Len(rows[j]) = Keyboard!size(sizes, j)
           P(k) == /\ Keyboard!FlattenSeq(f[k].rows) \o f[k].items = items
                   /\ \A j \in 1..Len(f[k].rows) : f[k].rows[j] # <<>>
                   /\ Sized(f[k].rows, Len(f[k].rows) - 1)
                   /\ f[k].items # <<>> => /\ Len(f[k].rows) = k /\ Len(f[k].items) <= n - k
                                           /\ Sized(f[k].rows, k)
<1> HIDE DEF n
<1>4. P(0)
  <2>1. f[0].rows = <<>> /\ f[0].items = items
    BY <1>3
  <2>2. Keyboard!FlattenSeq(<<>>) = <<>> /\ <<>> \o items = items
    BY FlattenSequence, ConcatEmptySeq
  <2>3. Len(items) <= n - 0 /\ Len(<<>>) = 0
    BY <1>1 DEF n
  <2>4. \A k \in {-1, 0} : \A j \in 1..k : FALSE
    OBVIOUS
  <2> QED
    BY <2>1, <2>2, <2>3, <2>4
<1>5. ASSUME NEW k \in 1..n, P(k - 1)
      PROVE  P(k)
  <2> DEFINE so == f[k - 1]
             then == f[k]
             F == Keyboard!FlattenSeq(so.rows)
             G == Keyboard!FlattenSeq(then.rows)
  <2>1. so \in Taking /\ k \in Nat \ {0} /\ then = Turned(so, sizes, k) /\ (k - 1) + 1 = k
    BY <1>1, <1>3
  <2>2. /\ F \o so.items = items
        /\ \A j \in 1..Len(so.rows) : so.rows[j] # <<>>
        /\ Sized(so.rows, Len(so.rows) - 1)
        /\ so.items # <<>> => Len(so.rows) = k - 1 /\ Len(so.items) <= n - (k - 1) /\ Sized(so.rows, k - 1)
    BY <1>5
  <2> DEFINE Q == /\ G \o then.items = items
                  /\ \A j \in 1..Len(then.rows) : then.rows[j] # <<>>
                  /\ Sized(then.rows, Len(then.rows) - 1)
                  /\ then.items # <<>> => Len(then.rows) = k /\ Len(then.items) <= n - k /\ Sized(then.rows, k)
  <2>3. CASE so.items = <<>>
    <3>1. then = so
      BY <2>1, <2>3 DEF Turned
    <3> HIDE DEF so, then, Sized
    <3>2. Q
      BY <2>2, <2>3, <3>1
    <3> QED
      BY <3>2 DEF so, then, Sized
  <2>4. CASE so.items # <<>>
    <3> DEFINE m == Fits(so, sizes, k)
    <3> HIDE DEF so, then
    <3>1. /\ then \in Taking
          /\ m \in 1..Len(so.items) /\ m <= Keyboard!size(sizes, k)
          /\ Len(then.items) = Len(so.items) - m
          /\ then.items # <<>> => m = Keyboard!size(sizes, k)
          /\ Len(then.rows) = Len(so.rows) + 1
          /\ \A j \in 1..Len(so.rows) : then.rows[j] = so.rows[j]
          /\ Len(then.rows[Len(then.rows)]) = m
          /\ G \o then.items = F \o so.items
      BY <2>1, <2>4, TurnStep
    <3> HIDE DEF m, F, G
    <3>2. Len(so.rows) = k - 1 /\ Len(then.rows) = k /\ Len(so.items) <= n - (k - 1) /\ Len(so.items) \in Nat
      <4>1. so.items \in Seq(Nat)
        BY <2>1 DEF Taking
      <4>2. Len(so.rows) = k - 1 /\ Len(so.items) <= n - (k - 1)
        BY <2>2, <2>4
      <4> HIDE DEF Sized
      <4> QED
        BY <2>1, <3>1, <4>1, <4>2
    <3>3. \A j \in 1..k - 1 : then.rows[j] = so.rows[j] /\ Len(so.rows[j]) = Keyboard!size(sizes, j)
      BY <2>2, <2>4, <3>1, <3>2
    <3>4. \A j \in 1..k : j \in 1..k - 1 \/ j = k
      BY <2>1
    <3>5. \A j \in 1..k : then.rows[j] # <<>>
      <4>1. then.rows[k] # <<>>
        <5>1. Len(then.rows[k]) = m /\ m # 0
          BY <3>1, <3>2
        <5> QED
          BY <5>1
      <4>2. \A j \in 1..k - 1 : then.rows[j] # <<>>
        BY <2>2, <3>2, <3>3
      <4> QED
        BY <3>4, <4>1, <4>2
    <3>6. Sized(then.rows, k - 1)
      BY <3>3
    <3>7. ASSUME then.items # <<>>
          PROVE  Len(then.items) <= n - k /\ Sized(then.rows, k)
      <4>1. Len(then.items) <= n - k
        BY <1>1, <2>1, <3>1, <3>2
      <4>2. Len(then.rows[k]) = Keyboard!size(sizes, k)
        BY <3>1, <3>2, <3>7
      <4> QED
        BY <3>3, <3>4, <4>1, <4>2
    <3> HIDE DEF Sized
    <3>8. Q
      BY <2>2, <3>1, <3>2, <3>5, <3>6, <3>7
    <3> QED
      BY <3>8 DEF so, then, Sized, F, G
  <2> QED
    BY <2>3, <2>4
<1> HIDE DEF P
<1> DEFINE bad == {k \in 0..n : ~P(k)}
<1>6. ASSUME bad # {}
      PROVE  FALSE
  <2>1. PICK k \in bad : \A j \in bad : k <= j
    <3>1. bad \subseteq Nat
      OBVIOUS
    <3> HIDE DEF bad
    <3> QED
      BY <1>6, <3>1, LeastNumber
  <2>2. k # 0
    BY <1>4, <2>1
  <2>3. k \in 1..n /\ k - 1 \in 0..n /\ ~(k <= k - 1)
    BY <1>1, <2>1, <2>2
  <2>4. P(k - 1)
    BY <2>1, <2>3
  <2> QED
    BY <1>5, <2>1, <2>3, <2>4
<1>7. P(n) /\ f[n] \in Taking
  <2>1. n \in 0..n
    BY <1>1
  <2>2. P(n)
    BY <1>6, <2>1
  <2> QED
    BY <1>3, <2>1, <2>2
<1>8. f[n].rows \in Seq(Seq(Nat)) /\ f[n].items \in Seq(Nat)
  BY <1>7 DEF Taking
<1>9. f[n].items = <<>>
  <2>1. f[n].items # <<>> => Len(f[n].items) <= n - n
    BY <1>7 DEF P
  <2> QED
    BY <1>1, <1>8, <2>1
<1>10. Keyboard!FlattenSeq(f[n].rows) = items
  <2>1. Keyboard!FlattenSeq(f[n].rows) \o f[n].items = items
    BY <1>7 DEF P
  <2> DEFINE G == Keyboard!FlattenSeq(f[n].rows)
  <2>2. G \in Seq(Nat)
    BY <1>8, FlattenSequence
  <2>3. G \o <<>> = G
    <3> HIDE DEF G
    <3> QED
      BY <2>2, ConcatEmptySeq
  <2> QED
    BY <1>9, <2>1, <2>3
<1>11. /\ \A j \in 1..Len(f[n].rows) : f[n].rows[j] # <<>>
       /\ \A j \in 1..Len(f[n].rows) - 1 : Len(f[n].rows[j]) = Keyboard!size(sizes, j)
  BY <1>7 DEF P
<1> QED
  BY <1>3, <1>8, <1>10, <1>11

(* Keyboards have all their buttons, and adjusted ones in their order. *)
LEMMA Keeping ==
  ASSUME NEW calls \in Seq(BuilderCall), NEW sizes \in Seq(Int)
  PROVE  Keyboard!KeepsButtons(calls, sizes)
<1> DEFINE built    == Keyboard!After(calls)
           kb       == built.kb
           m        == built.next - 1
           rows     == Keyboard!Build(kb)
           adjusted == Keyboard!Build(Keyboard!Adjust(kb, sizes))
           all      == Buttons(kb)
<1>1. built \in Reached /\ (Overtaken(calls, Len(calls)) \/ Ascending(all))
  BY Building
<1>2. m \in Nat /\ Holds(kb, m)
  BY <1>1 DEF Reached
<1> HIDE DEF built
<1>3. /\ kb \in Builder /\ GoodRows(kb.rows) /\ Ascending(kb.currentRow)
      /\ all \in Seq(Nat) /\ Len(all) = m /\ Keyboard!Range(all) = 1..m
  BY <1>2 DEF Holds
<1>4. GoodRows(rows) /\ Keyboard!FlattenSeq(rows) = all
  BY <1>3, FinishedRow DEF Keyboard!Build
<1>5. adjusted = Keyboard!adjustRows(all, sizes)
  BY DEF Keyboard!Build, Keyboard!Adjust, Keyboard!finishRow, Buttons
<1>6. /\ adjusted \in Seq(Seq(Nat)) /\ Keyboard!FlattenSeq(adjusted) = all
      /\ \A i \in 1..Len(adjusted) : adjusted[i] # <<>>
      /\ \A i \in 1..Len(adjusted) - 1 : Len(adjusted[i]) = Keyboard!size(sizes, i)
  BY <1>3, <1>5, Adjusting
<1> HIDE DEF rows, adjusted, m, all
<1>7. \A rs \in {rows, adjusted} :
        /\ Len(Keyboard!FlattenSeq(rs)) = m
        /\ Keyboard!Range(Keyboard!FlattenSeq(rs)) = 1..m
        /\ \A i \in 1..Len(rs) : rs[i] # <<>>
  BY <1>3, <1>4, <1>6 DEF GoodRows
<1>8. \A i \in 1..Len(rows) : Ascending(rows[i])
  BY <1>4 DEF GoodRows
<1>9. \/ \E i, j \in 1..Len(calls) : i < j /\ calls[i].is = "Insert" /\ calls[j].is = "Add"
      \/ Ascending(Keyboard!FlattenSeq(rows))
  BY <1>1, <1>4 DEF Overtaken
<1>10. Keyboard!FlattenSeq(adjusted) = Keyboard!FlattenSeq(kb.rows) \o kb.currentRow
  BY <1>6 DEF all, Buttons
<1>11. \A i \in 1..Len(adjusted) - 1 :
         Len(adjusted[i]) = IF sizes = <<>> THEN 1
                            ELSE LET s == IF i < Len(sizes) THEN sizes[i] ELSE Keyboard!Last(sizes)
                                 IN IF s > 0 THEN s ELSE 1
  <2> SUFFICES ASSUME NEW i \in 1..Len(adjusted) - 1
               PROVE  Len(adjusted[i]) = IF sizes = <<>> THEN 1
                                         ELSE LET s == IF i < Len(sizes) THEN sizes[i] ELSE Keyboard!Last(sizes)
                                              IN IF s > 0 THEN s ELSE 1
    OBVIOUS
  <2>1. Len(adjusted[i]) = Keyboard!size(sizes, i) /\ i \in Nat \ {0}
    BY <1>6
  <2> QED
    BY <2>1, Size
<1> QED
  BY <1>7, <1>8, <1>9, <1>10, <1>11 DEF Keyboard!KeepsButtons, rows, adjusted, m, built, Ascending

-----------------------------------------------------------------------------
(* Numbers in a button's data *)

DigitOf(c) == CHOOSE d \in 0..9 : Callback!Digits[d + 1] = c
DigitSet   == {"0", "1", "2", "3", "4", "5", "6", "7", "8", "9"}

LEMMA DigitAt ==
  ASSUME NEW d \in 0..9
  PROVE  Callback!Digits[d + 1] =
           CASE d = 0 -> "0" [] d = 1 -> "1" [] d = 2 -> "2" [] d = 3 -> "3" [] d = 4 -> "4"
             [] d = 5 -> "5" [] d = 6 -> "6" [] d = 7 -> "7" [] d = 8 -> "8" [] d = 9 -> "9"
BY DEF Callback!Digits

(* Digits are told apart. *)
LEMMA DigitFacts ==
  /\ \A d \in 0..9 : Callback!Digits[d + 1] \in DigitSet /\ DigitOf(Callback!Digits[d + 1]) = d
  /\ \A c \in DigitSet : DigitOf(c) \in 0..9
  /\ \A c : c \in Callback!Range(Callback!Digits) <=> c \in DigitSet
  /\ DigitSet \subseteq Char
<1>1. \A d \in 0..9 : Callback!Digits[d + 1] \in DigitSet
  BY DigitAt DEF DigitSet
<1>2. \A d, e \in 0..9 : Callback!Digits[d + 1] = Callback!Digits[e + 1] => d = e
  BY DigitAt
<1>3. ASSUME NEW d \in 0..9
      PROVE  DigitOf(Callback!Digits[d + 1]) = d
  BY <1>2 DEF DigitOf
<1>4. \A c \in DigitSet : \E d \in 0..9 : Callback!Digits[d + 1] = c
  BY DigitAt DEF DigitSet
<1>5. \A c \in DigitSet : DigitOf(c) \in 0..9
  BY <1>4 DEF DigitOf
<1>6. \A c : c \in Callback!Range(Callback!Digits) <=> \E i \in 1..10 : Callback!Digits[i] = c
  <2>1. DOMAIN Callback!Digits = 1..10
    BY DEF Callback!Digits
  <2> QED
    BY <2>1 DEF Callback!Range
<1>7. \A c : (\E i \in 1..10 : Callback!Digits[i] = c) <=> (\E d \in 0..9 : Callback!Digits[d + 1] = c)
  <2>1. \A i \in 1..10 : i - 1 \in 0..9 /\ (i - 1) + 1 = i
    OBVIOUS
  <2>2. \A d \in 0..9 : d + 1 \in 1..10
    OBVIOUS
  <2> QED
    BY <2>1, <2>2
<1>8. \A c : c \in Callback!Range(Callback!Digits) <=> c \in DigitSet
  BY <1>1, <1>4, <1>6, <1>7
<1>9. DigitSet \subseteq Char
  BY <1>8 DEF Char
<1> QED
  BY <1>1, <1>3, <1>5, <1>8, <1>9

(* The values of a numeral's beginnings *)
IsValuing(s, f) ==
  /\ f \in [0..Len(s) -> Nat]
  /\ f[0] = 0
  /\ \A i \in 1..Len(s) : f[i] = 10 * f[i - 1] + DigitOf(s[i])
  /\ Callback!ValueOf(s) = f[Len(s)]

LEMMA ValueLoop ==
  ASSUME NEW s \in Seq(DigitSet)
  PROVE  \E f : IsValuing(s, f)
<1> DEFINE n == Len(s)
           Step(f, i) == IF i = 0 THEN 0 ELSE 10 * f[i - 1] + DigitOf(s[i])
           Value == CHOOSE f : f = [i \in 0..n |-> Step(f, i)]
           g == [i \in 0..n |-> [v \in Nat |-> 10 * v + DigitOf(s[i])]]
<1>1. n \in Nat /\ 0 \in Nat /\ 0 <= n /\ \A i \in 1..n : DigitOf(s[i]) \in Nat
  <2>1. \A i \in 1..n : s[i] \in DigitSet
    BY ElementOfSeq
  <2> QED
    BY <2>1, DigitFacts
<1>2. Callback!ValueOf(s) = Value[n]
  BY DEF Callback!ValueOf, DigitOf
<1>3. ASSUME NEW p \in 0..n, p # 0
      PROVE  g[p] \in [Nat -> Nat] /\ \A v \in Nat : g[p][v] = 10 * v + DigitOf(s[p])
  <2>1. p \in 1..n /\ DigitOf(s[p]) \in Nat
    BY <1>1, <1>3
  <2>2. \A v \in Nat : 10 * v + DigitOf(s[p]) \in Nat
    BY <2>1
  <2> QED
    BY <2>2
<1> HIDE DEF g, n
<1>4. PICK f \in [0..n -> Nat] : Iteration(0, n, 0, g, f)
  BY <1>1, <1>3, IterationExists
<1>5. \A i \in 0..n : f[i] = Step(f, i)
  <2>1. \A i \in 0..n : f[i] = IF i = 0 THEN 0 ELSE g[i][f[i - 1]]
    BY <1>4 DEF Iteration
  <2>2. \A i \in 0..n : i # 0 => f[i - 1] \in Nat
    BY <1>1
  <2> QED
    BY <1>3, <2>1, <2>2
<1>6. f = [i \in 0..n |-> Step(f, i)]
  <2> HIDE DEF Step
  <2> QED
    BY <1>5
<1>7. \A i \in 0..n : Value[i] = Step(Value, i)
  <2>1. Value = [i \in 0..n |-> Step(Value, i)]
    <3> HIDE DEF Step
    <3> QED
      BY <1>6
  <2> HIDE DEF Step, Value
  <2> QED
    BY <2>1
<1> HIDE DEF Value
<1>8. \A i \in 0..n : f[i] = Value[i]
  <2>1. f[0] = Value[0]
    BY <1>1, <1>5, <1>7
  <2>2. \A i \in 0..n : i # 0 /\ f[i - 1] = Value[i - 1] => f[i] = Value[i]
    BY <1>5, <1>7
  <2>3. Alike(0, n, f, Value)
    BY <2>1, <2>2 DEF Alike
  <2> QED
    BY <1>1, <2>3, IterationOnly
<1>9. Callback!ValueOf(s) = f[n]
  BY <1>1, <1>2, <1>8
<1>10. \A i \in 1..n : f[i] = 10 * f[i - 1] + DigitOf(s[i])
  <2>1. \A i \in 1..n : i \in 0..n /\ i # 0
    OBVIOUS
  <2> QED
    BY <1>5, <2>1
<1>11. f[0] = 0
  BY <1>1, <1>5
<1> QED
  BY <1>9, <1>10, <1>11 DEF IsValuing, n

(* A digit more *)
LEMMA ValueAppend ==
  ASSUME NEW s \in Seq(DigitSet), NEW c \in DigitSet
  PROVE  /\ Callback!ValueOf(s) \in Nat
         /\ Callback!ValueOf(Append(s, c)) = 10 * Callback!ValueOf(s) + DigitOf(c)
<1> DEFINE t == Append(s, c)
           n == Len(s)
<1>1. n \in Nat /\ Len(t) = n + 1 /\ t \in Seq(DigitSet) /\ t[n + 1] = c /\ \A i \in 1..n : t[i] = s[i]
  BY AppendProperties
<1> HIDE DEF t
<1>2. PICK f : IsValuing(s, f)
  BY ValueLoop
<1>3. PICK h : IsValuing(t, h)
  BY <1>1, ValueLoop
<1>4. f \in [0..n -> Nat] /\ f[0] = 0 /\ (\A i \in 1..n : f[i] = 10 * f[i - 1] + DigitOf(s[i])) /\ Callback!ValueOf(s) = f[n]
  BY <1>2 DEF IsValuing
<1>5. h[0] = 0 /\ (\A i \in 1..n + 1 : h[i] = 10 * h[i - 1] + DigitOf(t[i])) /\ Callback!ValueOf(t) = h[n + 1]
  BY <1>1, <1>3 DEF IsValuing
<1> HIDE DEF n
<1>6. \A i \in 0..n : f[i] = h[i]
  <2>1. ASSUME NEW i \in 0..n, i # 0, f[i - 1] = h[i - 1]
        PROVE  f[i] = h[i]
    <3>1. i \in 1..n /\ i \in 1..n + 1 /\ t[i] = s[i]
      BY <1>1, <2>1
    <3> QED
      BY <1>4, <1>5, <2>1, <3>1
  <2>2. Alike(0, n, f, h)
    BY <1>4, <1>5, <2>1 DEF Alike
  <2> QED
    BY <1>1, <2>2, IterationOnly
<1>7. h[n + 1] = 10 * h[n] + DigitOf(c) /\ h[n] = f[n] /\ f[n] \in Nat
  <2>1. n + 1 \in 1..n + 1 /\ (n + 1) - 1 = n /\ n \in 0..n
    BY <1>1
  <2> QED
    BY <1>1, <1>4, <1>5, <1>6, <2>1
<1> QED
  BY <1>4, <1>5, <1>7 DEF t

LEMMA ValueOfDigit ==
  ASSUME NEW c \in DigitSet
  PROVE  <<c>> \in Seq(DigitSet) /\ Callback!ValueOf(<<c>>) = DigitOf(c)
<1>1. <<>> \in Seq(DigitSet) /\ <<c>> = Append(<<>>, c)
  OBVIOUS
<1>2. Callback!ValueOf(<<>>) = 0
  <2>1. PICK f : IsValuing(<<>>, f)
    BY <1>1, ValueLoop
  <2>2. Len(<<>>) = 0
    OBVIOUS
  <2> QED
    BY <2>1, <2>2 DEF IsValuing
<1>3. DigitOf(c) \in 0..9
  BY DigitFacts
<1>4. <<c>> \in Seq(DigitSet)
  OBVIOUS
<1>5. Callback!ValueOf(Append(<<>>, c)) = 10 * Callback!ValueOf(<<>>) + DigitOf(c)
  BY <1>1, ValueAppend
<1>6. Callback!ValueOf(<<c>>) = 10 * 0 + DigitOf(c)
  BY <1>1, <1>2, <1>5
<1> QED
  BY <1>3, <1>4, <1>6

(* Numerals come back as the numbers they were made of. *)
LEMMA Formatting ==
  ASSUME NEW n \in Nat
  PROVE  LET s == Callback!FormatUint(n) IN s \in Seq(DigitSet) /\ s # <<>> /\ Callback!ValueOf(s) = n
<1> DEFINE Last(k) == Callback!Digits[(k % 10) + 1]
           Step(f, k) == IF k < 10 THEN <<Callback!Digits[k + 1]>> ELSE Append(f[k \div 10], Last(k))
           Format == CHOOSE f : f = [k \in 0..n |-> Step(f, k)]
           S == Seq(DigitSet)
           out == [k \in 0..9 |-> <<Callback!Digits[k + 1]>>]
           step == [k \in 0..n |-> k \div 10]
           g == [k \in 0..n |-> [s \in S |-> Append(s, Last(k))]]
<1>1. \A k \in Nat : k % 10 \in 0..9 /\ k \div 10 \in Nat /\ k = 10 * (k \div 10) + (k % 10)
  OBVIOUS
<1>2. \A k \in Nat : Last(k) \in DigitSet /\ DigitOf(Last(k)) = (k % 10)
  BY <1>1, DigitFacts
<1>3. \A k \in 0..9 : Callback!Digits[k + 1] \in DigitSet /\ DigitOf(Callback!Digits[k + 1]) = k
  BY DigitFacts
<1> HIDE DEF Last
<1>4. \A p \in 0..n : p \in 0..9 => out[p] \in S
  <2>1. \A p \in 0..9 : out[p] \in S
    BY <1>3
  <2> QED
    BY <2>1
<1>5. ASSUME NEW p \in 0..n, p \notin 0..9
      PROVE  step[p] \in 0..p - 1 /\ g[p] \in [S -> S] /\ \A s \in S : g[p][s] = Append(s, Last(p))
  <2>1. step[p] \in 0..p - 1
    BY <1>1, <1>5
  <2>2. Last(p) \in DigitSet
    BY <1>2
  <2>3. \A s \in S : Append(s, Last(p)) \in S
    BY <2>2, AppendProperties
  <2> HIDE DEF S
  <2> QED
    BY <2>1, <2>3
<1> HIDE DEF out, step, g, S
<1>6. PICK f \in [0..n -> S] : Recursion(0, n, 0..9, out, step, g, f)
  <2>1. 0 \in Nat /\ 0 <= n
    OBVIOUS
  <2> QED
    BY <1>4, <1>5, <2>1, RecursionExists
<1>7. \A k \in 0..n : f[k] = Step(f, k)
  <2>1. \A k \in 0..n : f[k] = IF k \in 0..9 THEN out[k] ELSE g[k][f[step[k]]]
    BY <1>6 DEF Recursion
  <2>2. ASSUME NEW k \in 0..n, k < 10
        PROVE  f[k] = Step(f, k)
    <3>1. k \in 0..9
      BY <2>2
    <3>2. out[k] = <<Callback!Digits[k + 1]>>
      BY <3>1 DEF out
    <3> QED
      BY <2>1, <2>2, <3>1, <3>2
  <2>3. ASSUME NEW k \in 0..n, ~(k < 10)
        PROVE  f[k] = Step(f, k)
    <3>1. k \notin 0..9
      BY <2>3
    <3>2. step[k] = k \div 10 /\ step[k] \in 0..n
      BY <1>5, <3>1 DEF step
    <3>3. g[k][f[step[k]]] = Append(f[step[k]], Last(k))
      BY <1>5, <3>1, <3>2
    <3> QED
      BY <2>1, <2>3, <3>1, <3>2, <3>3
  <2> QED
    BY <2>2, <2>3
<1>8. f = [k \in 0..n |-> Step(f, k)]
  <2> HIDE DEF Step
  <2> QED
    BY <1>7
<1>9. \A k \in 0..n : Format[k] = Step(Format, k)
  <2>1. Format = [k \in 0..n |-> Step(Format, k)]
    <3> HIDE DEF Step
    <3> QED
      BY <1>8
  <2> HIDE DEF Step, Format
  <2> QED
    BY <2>1
<1> HIDE DEF Format
<1> DEFINE P(k) == Format[k] \in Seq(DigitSet) /\ Format[k] # <<>> /\ Callback!ValueOf(Format[k]) = k
           bad == {k \in 0..n : ~P(k)}
<1>10. ASSUME bad # {}
       PROVE  FALSE
  <2>1. PICK k \in bad : \A j \in bad : k <= j
    <3>1. bad \subseteq Nat
      OBVIOUS
    <3> HIDE DEF bad
    <3> QED
      BY <1>10, <3>1, LeastNumber
  <2>2. k \in 0..n /\ Format[k] = Step(Format, k) /\ ~P(k)
    BY <1>9, <2>1
  <2>3. CASE k < 10
    <3> DEFINE c == Callback!Digits[k + 1]
    <3>1. c \in DigitSet /\ DigitOf(c) = k
      BY <1>3, <2>2, <2>3
    <3>2. Format[k] = <<c>>
      BY <2>2, <2>3
    <3> HIDE DEF c
    <3>3. <<c>> \in Seq(DigitSet) /\ Callback!ValueOf(<<c>>) = k /\ <<c>> # <<>>
      BY <3>1, ValueOfDigit
    <3> QED
      BY <2>2, <3>2, <3>3
  <2>4. CASE ~(k < 10)
    <3> DEFINE j == k \div 10
               t == Format[j]
    <3>1. k \in Nat /\ k % 10 \in 0..9 /\ j \in Nat /\ k = 10 * j + (k % 10)
      BY <1>1, <2>2
    <3>2. Format[k] = Append(t, Last(k)) /\ Last(k) \in DigitSet /\ DigitOf(Last(k)) = (k % 10)
      BY <1>2, <2>2, <2>4
    <3> HIDE DEF j
    <3>3. j \in 0..n /\ ~(k <= j)
      BY <2>2, <2>4, <3>1
    <3>4. P(j)
      BY <2>1, <3>3
    <3>5. t \in Seq(DigitSet) /\ Callback!ValueOf(t) = j
      BY <3>4
    <3> HIDE DEF t
    <3>6. Append(t, Last(k)) \in Seq(DigitSet) /\ Append(t, Last(k)) # <<>>
      BY <3>2, <3>5, AppendProperties
    <3>7. Callback!ValueOf(Append(t, Last(k))) = 10 * j + (k % 10)
      BY <3>2, <3>5, ValueAppend
    <3> QED
      BY <2>2, <3>1, <3>2, <3>6, <3>7
  <2> QED
    BY <2>3, <2>4
<1>11. P(n)
  <2>1. n \in 0..n
    OBVIOUS
  <2> QED
    BY <1>10, <2>1
<1>12. Callback!FormatUint(n) = Format[n]
  BY DEF Callback!FormatUint, Format, Last
<1> QED
  BY <1>11, <1>12

(* A number comes back from what is written for it. *)
LEMMA Parsed ==
  ASSUME NEW n \in Int
  PROVE  LET s == Callback!FormatInt(n)
         IN /\ s \in Seq(Char) /\ s # <<>>
            /\ \A i \in 1..Len(s) : s[i] \in DigitSet \cup {"-"}
            /\ Callback!ParsesInt(s) /\ Callback!ParseInt(s) = n
<1> DEFINE s == Callback!FormatInt(n)
<1>1. DigitSet \subseteq Char /\ "-" \in Char
  BY DigitFacts DEF Char
<1>2. CASE n < 0
  <2> DEFINE t == Callback!FormatUint(-n)
  <2>1. t \in Seq(DigitSet) /\ t # <<>> /\ Callback!ValueOf(t) = -n
    BY <1>2, Formatting
  <2>2. s = <<"-">> \o t
    BY <1>2 DEF Callback!FormatInt
  <2> HIDE DEF t, s
  <2> DEFINE D == DigitSet \cup {"-"}
  <2>3. t \in Seq(D) /\ "-" \in D
    <3>1. DigitSet \subseteq D
      OBVIOUS
    <3> HIDE DEF D
    <3> QED
      BY <2>1, <3>1, SeqMonotonic DEF D
  <2>4. s \in Seq(D) /\ s # <<>> /\ Head(s) = "-" /\ Tail(s) = t
    <3> HIDE DEF D
    <3> QED
      BY <2>2, <2>3, Prefixed
  <2>5. s \in Seq(Char)
    <3>1. D \subseteq Char
      BY <1>1
    <3> HIDE DEF D
    <3> QED
      BY <2>4, <3>1, SeqMonotonic
  <2>6. \A i \in 1..Len(s) : s[i] \in D
    <3> HIDE DEF D
    <3> QED
      BY <2>4, ElementOfSeq
  <2>7. Callback!Unsigned(s) = t
    BY <2>4 DEF Callback!Unsigned
  <2>8. \A i \in 1..Len(t) : t[i] \in Callback!Range(Callback!Digits)
    BY <2>1, ElementOfSeq, DigitFacts
  <2>9. Callback!ParsesInt(s)
    BY <2>1, <2>7, <2>8 DEF Callback!ParsesInt, Callback!IsNumeral
  <2>10. Callback!ParseInt(s) = n
    <3>1. Callback!ParseInt(s) = -Callback!ValueOf(t)
      BY <2>4, <2>7 DEF Callback!ParseInt
    <3> QED
      BY <2>1, <3>1
  <2> QED
    BY <2>4, <2>5, <2>6, <2>9, <2>10 DEF s
<1>3. CASE ~(n < 0)
  <2> DEFINE t == Callback!FormatUint(n)
  <2>1. t \in Seq(DigitSet) /\ t # <<>> /\ Callback!ValueOf(t) = n
    BY <1>3, Formatting
  <2>2. s = t
    BY <1>3 DEF Callback!FormatInt
  <2> HIDE DEF t, s
  <2>3. t \in Seq(Char)
    BY <1>1, <2>1, SeqMonotonic
  <2>4. \A i \in 1..Len(t) : t[i] \in DigitSet
    BY <2>1, ElementOfSeq
  <2>5. Head(t) \in DigitSet
    BY <2>1, HeadTailProperties
  <2>6. Head(t) # "-" /\ Head(t) # "+"
    BY <2>5 DEF DigitSet
  <2>7. Callback!Unsigned(t) = t
    BY <2>6 DEF Callback!Unsigned
  <2>8. Callback!ParsesInt(t)
    BY <2>1, <2>4, <2>7, DigitFacts DEF Callback!ParsesInt, Callback!IsNumeral
  <2>9. Callback!ParseInt(t) = n
    BY <2>1, <2>6, <2>7 DEF Callback!ParseInt
  <2> QED
    BY <2>1, <2>2, <2>3, <2>4, <2>8, <2>9 DEF s
<1> QED
  BY <1>2, <1>3

(* Numerals are digits but for a sign. *)
LEMMA Numeral ==
  ASSUME NEW s \in Seq(Char), Callback!ParsesInt(s)
  PROVE  s # <<>> /\ \A i \in 1..Len(s) : s[i] \in DigitSet \cup {"-", "+"} /\ (i = Len(s) => s[i] \in DigitSet)
<1> DEFINE t == Callback!Unsigned(s)
<1>1. t # <<>> /\ \A i \in 1..Len(t) : t[i] \in DigitSet
  BY DigitFacts DEF Callback!ParsesInt, Callback!IsNumeral
<1>2. CASE s # <<>> /\ Head(s) \in {"-", "+"}
  <2>1. t = Tail(s)
    BY <1>2 DEF Callback!Unsigned
  <2> HIDE DEF t
  <2>2. /\ Tail(s) \in Seq(Char) /\ Len(Tail(s)) = Len(s) - 1 /\ Len(s) \in Nat \ {0} /\ Head(s) = s[1]
        /\ \A i \in 1..Len(Tail(s)) : Tail(s)[i] = s[i + 1]
    BY <1>2, HeadTailProperties, EmptySeq
  <2>3. Len(t) # 0
    BY <1>1, <2>1, <2>2
  <2>4. ASSUME NEW i \in 1..Len(s), i # 1
        PROVE  s[i] \in DigitSet
    <3>1. i - 1 \in 1..Len(t) /\ (i - 1) + 1 = i
      BY <2>1, <2>2, <2>4
    <3> QED
      BY <1>1, <2>1, <2>2, <3>1
  <2>5. Len(s) # 1
    BY <2>1, <2>2, <2>3
  <2> QED
    BY <1>2, <2>2, <2>4, <2>5
<1>3. CASE ~(s # <<>> /\ Head(s) \in {"-", "+"})
  <2>1. t = s
    BY <1>3 DEF Callback!Unsigned
  <2> HIDE DEF t
  <2> QED
    BY <1>1, <2>1
<1> QED
  BY <1>2, <1>3

(* What fits in a field is not changed there. *)
LEMMA Kept ==
  ASSUME NEW n \in -MaxInt - 1..MaxInt
  PROVE  Callback!SetInt(n) = n
<1>1. MaxInt \in Nat
  BY MaxIntAssumption
<1> DEFINE x == n + MaxInt + 1
           w == 2 * MaxInt + 2
<1>2. x \in 0..w - 1 /\ w \in Nat \ {0}
  BY <1>1
<1> HIDE DEF x, w
<1>3. x % w = x
  BY <1>2
<1>4. Callback!SetInt(n) = (x % w) - MaxInt - 1
  BY DEF Callback!SetInt, x, w
<1>5. x - MaxInt - 1 = n
  BY <1>1 DEF x
<1> QED
  BY <1>3, <1>4, <1>5

-----------------------------------------------------------------------------
(* Data: what Join has put together, Split takes apart. *)

Strings == Seq(Char)
SplitMore(parts, c) ==
  IF c = Callback!Sep THEN Append(parts, <<>>) ELSE [parts EXCEPT ![Len(parts)] = Append(@, c)]

(* What one more character does to the parts *)
LEMMA SplitStep ==
  ASSUME NEW a \in Seq(Strings), NEW b \in Strings, NEW c \in Char
  PROVE  SplitMore(Append(a, b), c) =
           IF c = Callback!Sep THEN Append(Append(a, b), <<>>) ELSE Append(a, Append(b, c))
<1>1. CASE c = Callback!Sep
  BY <1>1 DEF SplitMore
<1>2. CASE c # Callback!Sep
  <2> DEFINE p == Append(a, b)
             q == [p EXCEPT ![Len(p)] = Append(b, c)]
             r == Append(a, Append(b, c))
  <2>1. /\ p \in Seq(Strings) /\ Len(a) \in Nat /\ Len(p) = Len(a) + 1 /\ p[Len(a) + 1] = b
        /\ \A i \in 1..Len(a) : p[i] = a[i]
    BY AppendProperties
  <2>2. Append(b, c) \in Strings
    BY AppendProperties DEF Strings
  <2>3. SplitMore(p, c) = q
    <3> HIDE DEF p
    <3>1. SplitMore(p, c) = [p EXCEPT ![Len(p)] = Append(p[Len(p)], c)]
      BY <1>2 DEF SplitMore
    <3> QED
      BY <2>1, <3>1
  <2>4. /\ r \in Seq(Strings) /\ Len(r) = Len(a) + 1 /\ r[Len(a) + 1] = Append(b, c)
        /\ \A i \in 1..Len(a) : r[i] = a[i]
    <3> DEFINE bc == Append(b, c)
    <3>1. bc \in Strings
      BY <2>2
    <3> HIDE DEF bc
    <3> QED
      BY <3>1, AppendProperties DEF bc
  <2> HIDE DEF p
  <2>5. /\ q \in Seq(Strings) /\ Len(q) = Len(p)
        /\ \A i \in 1..Len(p) : q[i] = IF i = Len(p) THEN Append(b, c) ELSE p[i]
    <3> DEFINE bc == Append(b, c)
    <3>1. bc \in Strings /\ Len(p) \in 1..Len(p)
      BY <2>1, <2>2
    <3> HIDE DEF bc
    <3> QED
      BY <2>1, <3>1, ExceptSeq DEF bc
  <2> HIDE DEF q, r
  <2>6. \A i \in 1..Len(q) : q[i] = r[i]
    <3> SUFFICES ASSUME NEW i \in 1..Len(q)
                 PROVE  q[i] = r[i]
      OBVIOUS
    <3>1. CASE i = Len(a) + 1
      BY <2>1, <2>4, <2>5, <3>1
    <3>2. CASE i # Len(a) + 1
      <4>1. i \in 1..Len(a)
        BY <2>1, <2>5, <3>2
      <4> QED
        BY <2>1, <2>4, <2>5, <3>2, <4>1
    <3> QED
      BY <3>1, <3>2
  <2>7. q = r
    BY <2>1, <2>4, <2>5, <2>6, SeqEqual
  <2> QED
    BY <1>2, <2>3, <2>7 DEF p, r
<1> QED
  BY <1>1, <1>2

Parted == Seq(Strings) \ {<<>>}

LEMMA SplitMoreParted ==
  ASSUME NEW parts \in Parted, NEW c \in Char
  PROVE  SplitMore(parts, c) \in Parted
<1>1. PICK a \in Seq(Strings), b \in Strings : parts = Append(a, b)
  BY SequenceEmptyOrAppend DEF Parted
<1>2. Append(b, c) \in Strings /\ <<>> \in Strings
  BY AppendProperties DEF Strings
<1>3. SplitMore(parts, c) = IF c = Callback!Sep THEN Append(parts, <<>>) ELSE Append(a, Append(b, c))
  BY <1>1, SplitStep
<1>4. Append(parts, <<>>) \in Parted
  BY <1>2, AppendProperties DEF Parted
<1>5. Append(a, Append(b, c)) \in Parted
  <2> DEFINE bc == Append(b, c)
  <2>1. bc \in Strings
    BY <1>2
  <2> HIDE DEF bc
  <2> QED
    BY <2>1, AppendProperties DEF Parted, bc
<1> QED
  BY <1>3, <1>4, <1>5

(* The parts of a string's beginnings *)
IsSplitting(s, f) ==
  /\ f \in [0..Len(s) -> Parted]
  /\ f[0] = << <<>> >>
  /\ \A i \in 1..Len(s) : f[i] = SplitMore(f[i - 1], s[i])
  /\ Callback!Split(s) = f[Len(s)]

LEMMA SplitLoop ==
  ASSUME NEW s \in Strings
  PROVE  \E f : IsSplitting(s, f)
<1> DEFINE n == Len(s)
           first == << <<>> >>
           Step(f, i) == IF i = 0 THEN first ELSE SplitMore(f[i - 1], s[i])
           Parts == CHOOSE f : f = [i \in 0..n |-> Step(f, i)]
           g == [i \in 0..n |-> [v \in Parted |-> SplitMore(v, s[i])]]
<1>1. n \in Nat /\ 0 \in Nat /\ 0 <= n /\ \A i \in 1..n : s[i] \in Char
  BY ElementOfSeq DEF Strings
<1>2. first \in Parted
  BY DEF Parted, Strings
<1>3. Callback!Split(s) = Parts[n]
  BY DEF Callback!Split, SplitMore
<1> HIDE DEF first
<1>4. ASSUME NEW p \in 0..n, p # 0
      PROVE  g[p] \in [Parted -> Parted] /\ \A v \in Parted : g[p][v] = SplitMore(v, s[p])
  <2>1. p \in 1..n /\ s[p] \in Char
    BY <1>1, <1>4
  <2>2. \A v \in Parted : SplitMore(v, s[p]) \in Parted
    BY <2>1, SplitMoreParted
  <2> HIDE DEF n
  <2> QED
    BY <2>2
<1> HIDE DEF g, n
<1>5. PICK f \in [0..n -> Parted] : Iteration(0, n, first, g, f)
  BY <1>1, <1>2, <1>4, IterationExists
<1>6. \A i \in 0..n : f[i] = Step(f, i)
  <2>1. \A i \in 0..n : f[i] = IF i = 0 THEN first ELSE g[i][f[i - 1]]
    BY <1>5 DEF Iteration
  <2>2. \A i \in 0..n : i # 0 => f[i - 1] \in Parted
    BY <1>1
  <2> QED
    BY <1>4, <2>1, <2>2
<1>7. f = [i \in 0..n |-> Step(f, i)]
  <2> HIDE DEF Step
  <2> QED
    BY <1>6
<1>8. \A i \in 0..n : Parts[i] = Step(Parts, i)
  <2>1. Parts = [i \in 0..n |-> Step(Parts, i)]
    <3> HIDE DEF Step
    <3> QED
      BY <1>7
  <2> HIDE DEF Step, Parts
  <2> QED
    BY <2>1
<1> HIDE DEF Parts
<1>9. \A i \in 0..n : f[i] = Parts[i]
  <2>1. f[0] = Parts[0]
    BY <1>1, <1>6, <1>8
  <2>2. \A i \in 0..n : i # 0 /\ f[i - 1] = Parts[i - 1] => f[i] = Parts[i]
    BY <1>6, <1>8
  <2>3. Alike(0, n, f, Parts)
    BY <2>1, <2>2 DEF Alike
  <2> QED
    BY <1>1, <2>3, IterationOnly
<1>10. Callback!Split(s) = f[n]
  BY <1>1, <1>3, <1>9
<1>11. \A i \in 1..n : f[i] = SplitMore(f[i - 1], s[i])
  <2>1. \A i \in 1..n : i \in 0..n /\ i # 0
    OBVIOUS
  <2> QED
    BY <1>6, <2>1
<1>12. f[0] = first
  BY <1>1, <1>6
<1> QED
  BY <1>10, <1>11, <1>12 DEF IsSplitting, n, first

(* Split goes on with the next character where it was. *)
LEMMA SplitAppend ==
  ASSUME NEW s \in Strings, NEW c \in Char
  PROVE  Callback!Split(s) \in Parted /\ Callback!Split(Append(s, c)) = SplitMore(Callback!Split(s), c)
<1> DEFINE t == Append(s, c)
           n == Len(s)
<1>1. n \in Nat /\ Len(t) = n + 1 /\ t \in Strings /\ t[n + 1] = c /\ \A i \in 1..n : t[i] = s[i]
  BY AppendProperties DEF Strings
<1> HIDE DEF t
<1>2. PICK f : IsSplitting(s, f)
  BY SplitLoop
<1>3. PICK h : IsSplitting(t, h)
  BY <1>1, SplitLoop
<1>4. /\ f \in [0..n -> Parted] /\ f[0] = << <<>> >> /\ (\A i \in 1..n : f[i] = SplitMore(f[i - 1], s[i]))
      /\ Callback!Split(s) = f[n]
  BY <1>2 DEF IsSplitting
<1>5. h[0] = << <<>> >> /\ (\A i \in 1..n + 1 : h[i] = SplitMore(h[i - 1], t[i])) /\ Callback!Split(t) = h[n + 1]
  BY <1>1, <1>3 DEF IsSplitting
<1> HIDE DEF n
<1>6. \A i \in 0..n : f[i] = h[i]
  <2>1. ASSUME NEW i \in 0..n, i # 0, f[i - 1] = h[i - 1]
        PROVE  f[i] = h[i]
    <3>1. i \in 1..n /\ i \in 1..n + 1 /\ t[i] = s[i]
      BY <1>1, <2>1
    <3> QED
      BY <1>4, <1>5, <2>1, <3>1
  <2>2. Alike(0, n, f, h)
    BY <1>4, <1>5, <2>1 DEF Alike
  <2> QED
    BY <1>1, <2>2, IterationOnly
<1>7. h[n + 1] = SplitMore(h[n], c) /\ h[n] = f[n] /\ f[n] \in Parted
  <2>1. n + 1 \in 1..n + 1 /\ (n + 1) - 1 = n /\ n \in 0..n
    BY <1>1
  <2> QED
    BY <1>1, <1>4, <1>5, <1>6, <2>1
<1> QED
  BY <1>4, <1>5, <1>7 DEF t

LEMMA SplitNothing == Callback!Split(<<>>) = << <<>> >>
<1>1. <<>> \in Strings /\ Len(<<>>) = 0
  BY DEF Strings
<1>2. PICK f : IsSplitting(<<>>, f)
  BY <1>1, SplitLoop
<1> QED
  BY <1>1, <1>2 DEF IsSplitting

(* Prefixes, place by place *)
LEMMA PrefixAt ==
  ASSUME NEW s \in Strings, NEW p \in Strings
  PROVE  Callback!HasPrefix(s, p) <=> Len(p) <= Len(s) /\ \A i \in 1..Len(p) : s[i] = p[i]
<1> DEFINE l == Len(p)
           q == SubSeq(s, 1, l)
<1>1. Len(s) \in Nat /\ l \in Nat
  BY DEF Strings
<1>2. CASE l <= Len(s)
  <2>1. \A i \in 1..l : s[i] \in Char
    <3>1. \A i \in 1..l : i \in 1..Len(s)
      BY <1>1, <1>2
    <3> HIDE DEF l
    <3> QED
      BY <3>1, ElementOfSeq DEF Strings
  <2>2. q \in Strings /\ Len(q) = l /\ \A i \in 1..l : q[i] = s[i]
    <3> HIDE DEF l
    <3>1. 1 \in Int /\ l \in Int
      BY <1>1
    <3>2. q \in Seq(Char) /\ Len(q) = (IF 1 <= l THEN l - 1 + 1 ELSE 0) /\ \A i \in 1..l - 1 + 1 : q[i] = s[1 + i - 1]
      BY <2>1, <3>1, SubSeqProperties
    <3>3. l - 1 + 1 = l /\ (IF 1 <= l THEN l - 1 + 1 ELSE 0) = l /\ \A i \in 1..l : 1 + i - 1 = i
      BY <1>1
    <3> QED
      BY <3>2, <3>3 DEF Strings
  <2> HIDE DEF q
  <2>3. (\A i \in 1..l : s[i] = p[i]) => q = p
    <3> SUFFICES ASSUME \A i \in 1..l : s[i] = p[i]
                 PROVE  q = p
      OBVIOUS
    <3>1. \A i \in 1..Len(q) : q[i] = p[i]
      BY <2>2
    <3> QED
      BY <2>2, <3>1, SeqEqual DEF Strings
  <2>4. q = p => \A i \in 1..l : s[i] = p[i]
    BY <2>2
  <2> QED
    BY <1>2, <2>3, <2>4 DEF Callback!HasPrefix, q
<1>3. CASE ~(l <= Len(s))
  BY <1>3 DEF Callback!HasPrefix
<1> QED
  BY <1>2, <1>3

(* Taps for a prefix: filters of at most one prefix without separators take one. *)
Free(s)     == \A i \in 1..Len(s) : s[i] # Callback!Sep
Owned(s, p) == s = p \/ Callback!HasPrefix(s, Append(p, Callback!Sep))

LEMMA Separator == Callback!Sep \in Char /\ Callback!Sep = ":"
BY DEF Char, Callback!Sep

LEMMA MarkedAt ==
  ASSUME NEW s \in Strings, NEW p \in Strings, Callback!HasPrefix(s, Append(p, Callback!Sep))
  PROVE  /\ Len(p) \in Nat /\ Len(p) + 1 \in 1..Len(s) /\ s[Len(p) + 1] = Callback!Sep
         /\ \A i \in 1..Len(p) : s[i] = p[i]
<1> DEFINE m == Append(p, Callback!Sep)
<1>1. m \in Strings /\ Len(m) = Len(p) + 1 /\ Len(p) \in Nat /\ m[Len(p) + 1] = Callback!Sep /\ \A i \in 1..Len(p) : m[i] = p[i]
  <2>1. p \in Seq(Char)
    BY DEF Strings
  <2> QED
    BY <2>1, Separator, AppendProperties DEF Strings
<1>2. Callback!HasPrefix(s, m)
  OBVIOUS
<1> HIDE DEF m
<1>3. Len(m) <= Len(s) /\ \A i \in 1..Len(m) : s[i] = m[i]
  BY <1>1, <1>2, PrefixAt
<1>4. Len(s) \in Nat
  BY DEF Strings
<1> QED
  BY <1>1, <1>3, <1>4

(* No data is for two prefixes without separators. *)
LEMMA OneOwner ==
  ASSUME NEW s \in Strings, NEW p \in Strings, NEW q \in Strings, Free(p), Free(q), Owned(s, p), Owned(s, q)
  PROVE  p = q
<1>1. CASE s = p /\ s = q
  BY <1>1
<1>2. ASSUME NEW a \in Strings, NEW b \in Strings, Free(a), s = a, Callback!HasPrefix(s, Append(b, Callback!Sep))
      PROVE  FALSE
  BY <1>2, MarkedAt DEF Free
<1>3. CASE Callback!HasPrefix(s, Append(p, Callback!Sep)) /\ Callback!HasPrefix(s, Append(q, Callback!Sep))
  <2>1. /\ Len(p) \in Nat /\ Len(p) + 1 \in 1..Len(s) /\ s[Len(p) + 1] = Callback!Sep
        /\ \A i \in 1..Len(p) : s[i] = p[i]
    BY <1>3, MarkedAt
  <2>2. /\ Len(q) \in Nat /\ Len(q) + 1 \in 1..Len(s) /\ s[Len(q) + 1] = Callback!Sep
        /\ \A i \in 1..Len(q) : s[i] = q[i]
    BY <1>3, MarkedAt
  <2>3. ~(Len(p) < Len(q))
    <3> SUFFICES ASSUME Len(p) < Len(q)
                 PROVE  FALSE
      OBVIOUS
    <3>1. Len(p) + 1 \in 1..Len(q)
      BY <2>1, <2>2
    <3> QED
      BY <2>1, <2>2, <3>1 DEF Free
  <2>4. ~(Len(q) < Len(p))
    <3> SUFFICES ASSUME Len(q) < Len(p)
                 PROVE  FALSE
      OBVIOUS
    <3>1. Len(q) + 1 \in 1..Len(p)
      BY <2>1, <2>2
    <3> QED
      BY <2>1, <2>2, <3>1 DEF Free
  <2>5. Len(p) = Len(q) /\ \A i \in 1..Len(p) : p[i] = q[i]
    BY <2>1, <2>2, <2>3, <2>4
  <2> QED
    BY <2>5, SeqEqual DEF Strings
<1> QED
  BY <1>1, <1>2, <1>3 DEF Owned

-----------------------------------------------------------------------------
(* Paginations *)

(* What pages' data and the indicator's begin with and are *)
Nav(p)       == p \o <<Callback!Sep, "p", "g", Callback!Sep>>
Indicator(p) == p \o <<Callback!Sep, "p", "g", "c", "u", "r">>

LEMMA NavAt ==
  ASSUME NEW p \in Strings
  PROVE  /\ Len(p) \in Nat /\ Nav(p) \in Strings /\ Len(Nav(p)) = Len(p) + 4
         /\ \A i \in 1..Len(p) : Nav(p)[i] = p[i]
         /\ Nav(p)[Len(p) + 1] = Callback!Sep /\ Nav(p)[Len(p) + 4] = Callback!Sep
<1> DEFINE m == <<Callback!Sep, "p", "g", Callback!Sep>>
<1>1. m \in Seq(Char) /\ Len(m) = 4 /\ m[1] = Callback!Sep /\ m[4] = Callback!Sep
  BY DEF Char
<1>2. p \in Seq(Char) /\ Len(p) \in Nat
  BY DEF Strings
<1> HIDE DEF m
<1>3. /\ p \o m \in Seq(Char) /\ Len(p \o m) = Len(p) + Len(m)
      /\ \A i \in 1..Len(p) + Len(m) : (p \o m)[i] = IF i <= Len(p) THEN p[i] ELSE m[i - Len(p)]
  BY <1>1, <1>2, ConcatProperties
<1>4. Nav(p) = p \o m
  BY DEF Nav, m
<1> QED
  BY <1>1, <1>2, <1>3, <1>4 DEF Strings

LEMMA IndicatorAt ==
  ASSUME NEW p \in Strings
  PROVE  /\ Indicator(p) \in Strings /\ Indicator(p)[Len(Indicator(p))] = "r"
         /\ Owned(Indicator(p), p)
<1> DEFINE m == <<Callback!Sep, "p", "g", "c", "u", "r">>
           s == Append(p, Callback!Sep)
<1>1. m \in Seq(Char) /\ Len(m) = 6 /\ m[1] = Callback!Sep /\ m[6] = "r"
  BY DEF Char
<1>2. p \in Seq(Char) /\ Len(p) \in Nat
  BY DEF Strings
<1> HIDE DEF m
<1>3. /\ p \o m \in Seq(Char) /\ Len(p \o m) = Len(p) + Len(m)
      /\ \A i \in 1..Len(p) + Len(m) : (p \o m)[i] = IF i <= Len(p) THEN p[i] ELSE m[i - Len(p)]
  BY <1>1, <1>2, ConcatProperties
<1>4. Indicator(p) = p \o m
  BY DEF Indicator, m
<1> DEFINE t == p \o m
<1>5. t \in Strings /\ Len(t) = Len(p) + 6 /\ t[Len(p) + 6] = "r" /\ t[Len(p) + 1] = Callback!Sep /\ \A i \in 1..Len(p) : t[i] = p[i]
  BY <1>1, <1>2, <1>3 DEF Strings
<1>6. s \in Strings /\ Len(s) = Len(p) + 1 /\ s[Len(p) + 1] = Callback!Sep /\ \A i \in 1..Len(p) : s[i] = p[i]
  BY <1>2, Separator, AppendProperties DEF Strings
<1> HIDE DEF t, s
<1>7. Callback!HasPrefix(t, s)
  <2>1. Len(s) <= Len(t)
    BY <1>2, <1>5, <1>6
  <2>2. \A i \in 1..Len(s) : i \in 1..Len(p) \/ i = Len(p) + 1
    BY <1>2, <1>6
  <2>3. \A i \in 1..Len(s) : t[i] = s[i]
    BY <1>5, <1>6, <2>2
  <2> QED
    BY <1>5, <1>6, <2>1, <2>3, PrefixAt
<1> QED
  BY <1>4, <1>5, <1>7 DEF Owned, t, s

LEMMA NavOwned ==
  ASSUME NEW s \in Strings, NEW p \in Strings, Callback!HasPrefix(s, Nav(p))
  PROVE  Owned(s, p)
<1> DEFINE m == Append(p, Callback!Sep)
<1>1. m \in Strings /\ Len(m) = Len(p) + 1 /\ m[Len(p) + 1] = Callback!Sep /\ \A i \in 1..Len(p) : m[i] = p[i]
  <2>1. p \in Seq(Char)
    BY DEF Strings
  <2> QED
    BY <2>1, Separator, AppendProperties DEF Strings
<1> DEFINE n == Nav(p)
<1>2. /\ n \in Strings /\ Len(n) = Len(p) + 4 /\ Len(p) \in Nat
      /\ n[Len(p) + 1] = Callback!Sep /\ \A i \in 1..Len(p) : n[i] = p[i]
  BY NavAt
<1>3. Callback!HasPrefix(s, n)
  OBVIOUS
<1> HIDE DEF m, n
<1>4. Len(n) <= Len(s) /\ \A i \in 1..Len(n) : s[i] = n[i]
  BY <1>2, <1>3, PrefixAt
<1>5. Len(s) \in Nat
  BY DEF Strings
<1>6. \A i \in 1..Len(m) : i \in 1..Len(n) /\ (i \in 1..Len(p) \/ i = Len(p) + 1)
  BY <1>1, <1>2
<1>7. Len(m) <= Len(s) /\ \A i \in 1..Len(m) : s[i] = m[i]
  BY <1>1, <1>2, <1>4, <1>5, <1>6
<1>8. Callback!HasPrefix(s, m)
  BY <1>1, <1>7, PrefixAt
<1> QED
  BY <1>8 DEF Owned, m

(* The part after a pagination's prefix *)
LEMMA RestAt ==
  ASSUME NEW s \in Strings, NEW k \in Nat, k <= Len(s)
  PROVE  LET r == SubSeq(s, k + 1, Len(s))
         IN r \in Strings /\ Len(r) = Len(s) - k /\ \A i \in 1..Len(r) : r[i] = s[k + i]
<1> DEFINE l == Len(s)
           a == k + 1
           r == SubSeq(s, a, l)
<1>1. l \in Nat /\ a \in Int /\ l \in Int /\ k <= l
  BY DEF Strings
<1>2. \A i \in a..l : s[i] \in Char
  <2>1. \A i \in a..l : i \in 1..Len(s)
    BY <1>1
  <2> HIDE DEF a, l
  <2> QED
    BY <2>1, ElementOfSeq DEF Strings
<1> HIDE DEF a, l
<1>3. r \in Seq(Char) /\ Len(r) = (IF a <= l THEN l - a + 1 ELSE 0) /\ \A i \in 1..l - a + 1 : r[i] = s[a + i - 1]
  BY <1>1, <1>2, SubSeqProperties
<1>4. l - a + 1 = l - k /\ (IF a <= l THEN l - a + 1 ELSE 0) = l - k /\ \A i \in 1..l - k : a + i - 1 = k + i
  BY <1>1 DEF a
<1> HIDE DEF r
<1>5. r \in Strings /\ Len(r) = l - k /\ \A i \in 1..Len(r) : r[i] = s[k + i]
  BY <1>3, <1>4 DEF Strings
<1> QED
  BY <1>5 DEF r, a, l

(* What is known of data that leads to a page *)
LEMMA PageMarks ==
  ASSUME NEW s \in Strings, NEW p \in Strings, Callback!Page(p, s) # 0
  PROVE  /\ Callback!HasPrefix(s, Nav(p))
         /\ Len(p) \in Nat /\ Len(p) + 4 < Len(s) /\ s[Len(p) + 4] = Callback!Sep /\ s[Len(s)] \in DigitSet
         /\ \A i \in 1..Len(p) : s[i] = p[i]
         /\ \A i \in Len(p) + 5..Len(s) : s[i] # Callback!Sep
<1> DEFINE n == Nav(p)
           l == Len(n)
           r == SubSeq(s, l + 1, Len(s))
<1>1. Callback!HasPrefix(s, n) /\ Callback!ParsesInt(r)
  BY DEF Callback!Page, Nav
<1>2. /\ n \in Strings /\ l = Len(p) + 4 /\ Len(p) \in Nat
      /\ n[Len(p) + 4] = Callback!Sep /\ \A i \in 1..Len(p) : n[i] = p[i]
  BY NavAt
<1> HIDE DEF n
<1>3. l <= Len(s) /\ \A i \in 1..l : s[i] = n[i]
  BY <1>1, <1>2, PrefixAt
<1>4. r \in Strings /\ Len(r) = Len(s) - l /\ \A i \in 1..Len(r) : r[i] = s[l + i]
  <2>1. l \in Nat
    BY <1>2
  <2> HIDE DEF l
  <2> QED
    BY <1>3, <2>1, RestAt
<1> HIDE DEF r, l
<1>5. r # <<>> /\ \A i \in 1..Len(r) : r[i] \in DigitSet \cup {"-", "+"} /\ (i = Len(r) => r[i] \in DigitSet)
  BY <1>1, <1>4, Numeral DEF Strings
<1>6. Len(r) \in Nat \ {0} /\ Len(s) \in Nat
  BY <1>4, <1>5, EmptySeq DEF Strings
<1>7. s[Len(s)] \in DigitSet
  <2>1. Len(r) \in 1..Len(r) /\ l + Len(r) = Len(s)
    BY <1>2, <1>4, <1>6
  <2> QED
    BY <1>4, <1>5, <2>1
<1>8. \A i \in l + 1..Len(s) : s[i] # Callback!Sep
  <2>1. \A c \in DigitSet \cup {"-", "+"} : c # Callback!Sep
    BY DEF DigitSet, Callback!Sep
  <2>2. \A i \in l + 1..Len(s) : i - l \in 1..Len(r) /\ l + (i - l) = i
    BY <1>2, <1>4, <1>6
  <2> QED
    BY <1>4, <1>5, <2>1, <2>2
<1>9. l < Len(s) /\ l + 1 = Len(p) + 5
  BY <1>2, <1>4, <1>6
<1>10. s[Len(p) + 4] = Callback!Sep /\ \A i \in 1..Len(p) : s[i] = p[i]
  <2>1. Len(p) + 4 \in 1..l /\ \A i \in 1..Len(p) : i \in 1..l
    BY <1>2
  <2> QED
    BY <1>2, <1>3, <2>1
<1> QED
  BY <1>1, <1>2, <1>7, <1>8, <1>9, <1>10 DEF n

(* A tap is for one pagination. *)
LEMMA OnePager ==
  ASSUME NEW s \in Strings, NEW p \in Strings, NEW q \in Strings, Callback!Page(p, s) # 0, Callback!Page(q, s) # 0
  PROVE  p = q
<1>1. /\ Len(p) \in Nat /\ Len(p) + 4 < Len(s) /\ s[Len(p) + 4] = Callback!Sep
      /\ \A i \in 1..Len(p) : s[i] = p[i]
      /\ \A i \in Len(p) + 5..Len(s) : s[i] # Callback!Sep
  BY PageMarks
<1>2. /\ Len(q) \in Nat /\ Len(q) + 4 < Len(s) /\ s[Len(q) + 4] = Callback!Sep
      /\ \A i \in 1..Len(q) : s[i] = q[i]
      /\ \A i \in Len(q) + 5..Len(s) : s[i] # Callback!Sep
  BY PageMarks
<1>3. Len(s) \in Nat
  BY DEF Strings
<1>4. ~(Len(p) < Len(q))
  <2> SUFFICES ASSUME Len(p) < Len(q)
               PROVE  FALSE
    OBVIOUS
  <2>1. Len(q) + 4 \in Len(p) + 5..Len(s)
    BY <1>1, <1>2, <1>3
  <2> QED
    BY <1>1, <1>2, <2>1
<1>5. ~(Len(q) < Len(p))
  <2> SUFFICES ASSUME Len(q) < Len(p)
               PROVE  FALSE
    OBVIOUS
  <2>1. Len(p) + 4 \in Len(q) + 5..Len(s)
    BY <1>1, <1>2, <1>3
  <2> QED
    BY <1>1, <1>2, <2>1
<1>6. Len(p) = Len(q)
  BY <1>1, <1>2, <1>4, <1>5
<1>7. \A i \in 1..Len(p) : p[i] = q[i]
  BY <1>1, <1>2, <1>6
<1> QED
  BY <1>6, <1>7, SeqEqual DEF Strings

(* The indicator leads nowhere. *)
LEMMA NoPager ==
  ASSUME NEW p \in Strings, NEW q \in Strings
  PROVE  Callback!Page(q, Indicator(p)) = 0
<1> DEFINE s == Indicator(p)
<1>1. s \in Strings /\ s[Len(s)] = "r"
  BY IndicatorAt
<1> HIDE DEF s
<1>2. Callback!Page(q, s) # 0 => s[Len(s)] \in DigitSet
  BY <1>1, PageMarks
<1>3. "r" \notin DigitSet
  BY DEF DigitSet
<1> QED
  BY <1>1, <1>2, <1>3 DEF s

(* The data for a page leads there. *)
LEMMA Leading ==
  ASSUME NEW p \in Strings, NEW k \in Nat \ {0}
  PROVE  LET d == Callback!data(p, k)
         IN d \in Strings /\ Callback!HasPrefix(d, Nav(p)) /\ Callback!Page(p, d) = k
<1> DEFINE n == Nav(p)
           l == Len(n)
           f == Callback!FormatInt(k)
           d == n \o f
           r == SubSeq(d, l + 1, Len(d))
<1>1. f \in Strings /\ Callback!ParsesInt(f) /\ Callback!ParseInt(f) = k
  BY Parsed DEF Strings
<1>2. n \in Strings /\ l \in Nat
  BY NavAt
<1>3. Callback!data(p, k) = d
  BY DEF Callback!data, Nav
<1> HIDE DEF n, f
<1>4. /\ d \in Strings /\ Len(d) = l + Len(f) /\ Len(f) \in Nat
      /\ \A i \in 1..l + Len(f) : d[i] = IF i <= l THEN n[i] ELSE f[i - l]
  BY <1>1, <1>2, ConcatProperties DEF Strings
<1> HIDE DEF d
<1>5. l <= Len(d) /\ \A i \in 1..l : d[i] = n[i]
  BY <1>2, <1>4
<1>6. Callback!HasPrefix(d, n)
  BY <1>2, <1>4, <1>5, PrefixAt
<1>7. r \in Strings /\ Len(r) = Len(d) - l /\ \A i \in 1..Len(r) : r[i] = d[l + i]
  <2> HIDE DEF l
  <2> QED
    BY <1>2, <1>4, <1>5, RestAt
<1> HIDE DEF r, l
<1>8. r = f
  <2>1. Len(r) = Len(f)
    BY <1>2, <1>4, <1>7
  <2>2. \A i \in 1..Len(f) : l + i \in 1..l + Len(f) /\ ~(l + i <= l) /\ (l + i) - l = i
    BY <1>2, <1>4
  <2>3. \A i \in 1..Len(r) : r[i] = f[i]
    BY <1>4, <1>7, <2>1, <2>2
  <2> QED
    BY <1>1, <1>7, <2>1, <2>3, SeqEqual DEF Strings
<1>9. Callback!Page(p, d) = k
  <2>1. Callback!Page(p, d) = IF Callback!HasPrefix(d, n) /\ Callback!ParsesInt(r) /\ Callback!ParseInt(r) >= 1 THEN Callback!ParseInt(r) ELSE 0
    BY DEF Callback!Page, Nav, n, r, l
  <2> QED
    BY <1>1, <1>6, <1>8, <2>1
<1> QED
  BY <1>3, <1>4, <1>6, <1>9 DEF n

(* Buttons of a pagination's row that lead to different pages, those of T *)
IsPiece(p, s, T) ==
  /\ s \in Seq(Strings)
  /\ \A i \in 1..Len(s) : s[i] = Indicator(p) \/ \E k \in Nat \ {0} : s[i] = Callback!data(p, k)
  /\ \A k : k \in T <=> \E i \in 1..Len(s) : Callback!Page(p, s[i]) = k
  /\ \A i, j \in 1..Len(s) : Callback!Page(p, s[i]) = Callback!Page(p, s[j]) => i = j

LEMMA NoPiece ==
  ASSUME NEW p
  PROVE  IsPiece(p, <<>>, {})
<1>1. <<>> \in Seq(Strings) /\ Len(<<>>) = 0
  BY EmptySeq
<1>2. \A i \in 1..0 : FALSE
  OBVIOUS
<1> QED
  BY <1>1, <1>2 DEF IsPiece

LEMMA OnePiece ==
  ASSUME NEW p, NEW s \in Strings, NEW k, Callback!Page(p, s) = k,
         s = Indicator(p) \/ \E n \in Nat \ {0} : s = Callback!data(p, n)
  PROVE  IsPiece(p, <<s>>, {k})
<1> DEFINE r == <<s>>
<1>1. r \in Seq(Strings) /\ Len(r) = 1 /\ r[1] = s
  OBVIOUS
<1> HIDE DEF r
<1>2. \A i \in 1..Len(r) : i = 1 /\ r[i] = s
  BY <1>1
<1>3. 1 \in 1..Len(r)
  BY <1>1
<1>4. \A i \in 1..Len(r) : r[i] = Indicator(p) \/ \E n \in Nat \ {0} : r[i] = Callback!data(p, n)
  BY <1>2
<1>5. \A j : j \in {k} <=> \E i \in 1..Len(r) : Callback!Page(p, r[i]) = j
  BY <1>2, <1>3
<1>6. \A i, j \in 1..Len(r) : i = j
  BY <1>2
<1> QED
  BY <1>1, <1>4, <1>5, <1>6 DEF IsPiece, r

LEMMA ButtonPiece ==
  ASSUME NEW p \in Strings, NEW shown \in BOOLEAN, NEW k, shown => k \in Nat \ {0}
  PROVE  IsPiece(p, IF shown THEN <<Callback!data(p, k)>> ELSE <<>>, IF shown THEN {k} ELSE {})
<1>1. CASE shown
  <2> DEFINE d == Callback!data(p, k)
  <2>1. d \in Strings /\ Callback!Page(p, d) = k
    BY <1>1, Leading
  <2>2. \E n \in Nat \ {0} : d = Callback!data(p, n)
    BY <1>1
  <2> HIDE DEF d
  <2>3. IsPiece(p, <<d>>, {k})
    BY <2>1, <2>2, OnePiece
  <2> QED
    BY <1>1, <2>3 DEF d
<1>2. CASE ~shown
  BY <1>2, NoPiece
<1> QED
  BY <1>1, <1>2

LEMMA IndicatorPiece ==
  ASSUME NEW p \in Strings
  PROVE  IsPiece(p, <<Indicator(p)>>, {0})
<1> DEFINE s == Indicator(p)
<1>1. s \in Strings /\ Callback!Page(p, s) = 0 /\ s = Indicator(p)
  BY IndicatorAt, NoPager
<1> HIDE DEF s
<1> QED
  BY <1>1, OnePiece

(* Pieces that lead to different pages make one. *)
LEMMA TwoPieces ==
  ASSUME NEW p, NEW s, NEW t, NEW T, NEW U, IsPiece(p, s, T), IsPiece(p, t, U), \A k \in T : k \notin U
  PROVE  IsPiece(p, s \o t, T \cup U)
<1> DEFINE r == s \o t
           Target(x) == Callback!Page(p, x)
           Is(x) == x = Indicator(p) \/ \E k \in Nat \ {0} : x = Callback!data(p, k)
<1>1. /\ s \in Seq(Strings) /\ (\A i \in 1..Len(s) : Is(s[i]))
      /\ (\A k : k \in T <=> \E i \in 1..Len(s) : Target(s[i]) = k)
      /\ \A i, j \in 1..Len(s) : Target(s[i]) = Target(s[j]) => i = j
  BY DEF IsPiece
<1>2. /\ t \in Seq(Strings) /\ (\A i \in 1..Len(t) : Is(t[i]))
      /\ (\A k : k \in U <=> \E i \in 1..Len(t) : Target(t[i]) = k)
      /\ \A i, j \in 1..Len(t) : Target(t[i]) = Target(t[j]) => i = j
  BY DEF IsPiece
<1> HIDE DEF Target, Is
<1> DEFINE n == Len(s)
           l == Len(t)
<1>3. /\ r \in Seq(Strings) /\ Len(r) = n + l /\ n \in Nat /\ l \in Nat
      /\ \A i \in 1..n + l : r[i] = IF i <= n THEN s[i] ELSE t[i - n]
  BY <1>1, <1>2, ConcatProperties
<1> HIDE DEF r, n, l
<1>4. \A i \in 1..n + l : IF i <= n THEN i \in 1..n ELSE i - n \in 1..l
  BY <1>3
<1>5. (\A i \in 1..n : i \in 1..n + l /\ r[i] = s[i]) /\ (\A i \in 1..l : n + i \in 1..n + l /\ r[n + i] = t[i])
  <2>1. \A i \in 1..n : i \in 1..n + l /\ i <= n
    BY <1>3
  <2>2. \A i \in 1..l : n + i \in 1..n + l /\ ~(n + i <= n) /\ (n + i) - n = i
    BY <1>3
  <2> QED
    BY <1>3, <2>1, <2>2
<1>6. \A i \in 1..n + l : Is(r[i])
  BY <1>1, <1>2, <1>3, <1>4 DEF n, l
<1>7. ASSUME NEW k
      PROVE  k \in T \cup U <=> \E i \in 1..n + l : Target(r[i]) = k
  <2>1. ASSUME k \in T
        PROVE  \E i \in 1..n + l : Target(r[i]) = k
    <3>1. PICK i \in 1..n : Target(s[i]) = k
      BY <1>1, <2>1 DEF n
    <3> QED
      BY <1>5, <3>1
  <2>2. ASSUME k \in U
        PROVE  \E i \in 1..n + l : Target(r[i]) = k
    <3>1. PICK i \in 1..l : Target(t[i]) = k
      BY <1>2, <2>2 DEF l
    <3> QED
      BY <1>5, <3>1
  <2>3. ASSUME NEW i \in 1..n + l, Target(r[i]) = k
        PROVE  k \in T \cup U
    <3>1. CASE i <= n
      <4>1. i \in 1..n /\ Target(s[i]) = k
        BY <1>3, <1>4, <2>3, <3>1
      <4> QED
        BY <1>1, <4>1 DEF n
    <3>2. CASE ~(i <= n)
      <4>1. i - n \in 1..l /\ Target(t[i - n]) = k
        BY <1>3, <1>4, <2>3, <3>2
      <4> QED
        BY <1>2, <4>1 DEF l
    <3> QED
      BY <3>1, <3>2
  <2> QED
    BY <2>1, <2>2, <2>3
<1>8. \A i \in 1..n : Target(s[i]) \in T /\ Target(s[i]) \notin U
  BY <1>1 DEF n
<1>9. \A i \in 1..l : Target(t[i]) \in U
  BY <1>2 DEF l
<1>10. ASSUME NEW i \in 1..n + l, NEW j \in 1..n + l, Target(r[i]) = Target(r[j])
       PROVE  i = j
  <2>1. CASE i <= n /\ j <= n
    <3>1. i \in 1..n /\ j \in 1..n /\ Target(s[i]) = Target(s[j])
      BY <1>3, <1>4, <1>10, <2>1
    <3> QED
      BY <1>1, <3>1 DEF n
  <2>2. CASE ~(i <= n) /\ ~(j <= n)
    <3>1. i - n \in 1..l /\ j - n \in 1..l /\ Target(t[i - n]) = Target(t[j - n])
      BY <1>3, <1>4, <1>10, <2>2
    <3>2. i - n = j - n
      BY <1>2, <3>1 DEF l
    <3> QED
      BY <1>3, <3>2
  <2>3. CASE i <= n /\ ~(j <= n)
    <3>1. i \in 1..n /\ j - n \in 1..l /\ Target(s[i]) = Target(t[j - n])
      BY <1>3, <1>4, <1>10, <2>3
    <3> QED
      BY <1>8, <1>9, <3>1
  <2>4. CASE ~(i <= n) /\ j <= n
    <3>1. j \in 1..n /\ i - n \in 1..l /\ Target(s[j]) = Target(t[i - n])
      BY <1>3, <1>4, <1>10, <2>4
    <3> QED
      BY <1>8, <1>9, <3>1
  <2> QED
    BY <2>1, <2>2, <2>3, <2>4
<1>11. /\ r \in Seq(Strings)
       /\ \A i \in 1..Len(r) : Is(r[i])
       /\ \A k : k \in T \cup U <=> \E i \in 1..Len(r) : Target(r[i]) = k
       /\ \A i, j \in 1..Len(r) : Target(r[i]) = Target(r[j]) => i = j
  BY <1>3, <1>6, <1>7, <1>10
<1> QED
  BY <1>11 DEF IsPiece, r, Target, Is

LEMMA CallbackMinMax ==
  ASSUME NEW a \in Int, NEW b \in Int
  PROVE  /\ Callback!Max({a, b}) = IF a >= b THEN a ELSE b
         /\ Callback!Min({a, b}) = IF a <= b THEN a ELSE b
<1>1. Callback!Max({a, b}) = Text!Max({a, b}) /\ Callback!Min({a, b}) = Text!Min({a, b})
  BY DEF Callback!Max, Text!Max, Callback!Min, Text!Min
<1> QED
  BY <1>1, MinMax

(* The pages a row leads to *)
Reaches(p, total) == {0} \cup (({1, p - 1, p + 1, total} \cap 1..total) \ {p})

(* A row has one button for each page it is to lead to. *)
LEMMA RowReaches ==
  ASSUME NEW prefix \in Strings, NEW page \in Int, NEW total \in Int, total >= 2
  PROVE  LET here == Callback!Max({1, Callback!Min({page, total})})
         IN IsPiece(prefix, Callback!Row(prefix, page, total), Reaches(here, total))
<1> DEFINE here == Callback!Max({1, Callback!Min({page, total})})
           p == IF page < 1 THEN 1 ELSE IF page > total THEN total ELSE page
           Button(shown, target) == IF shown THEN <<Callback!data(prefix, target)>> ELSE <<>>
           Goal(shown, target) == IF shown THEN {target} ELSE {}
<1>1. here = p
  <2>1. Callback!Min({page, total}) = IF page <= total THEN page ELSE total
    BY CallbackMinMax
  <2> DEFINE m == Callback!Min({page, total})
  <2>2. m \in Int
    BY <2>1
  <2> HIDE DEF m
  <2>3. Callback!Max({1, m}) = IF 1 >= m THEN 1 ELSE m
    BY <2>2, CallbackMinMax
  <2> QED
    BY <2>1, <2>3 DEF m
<1>2. p \in 1..total
  OBVIOUS
<1>3. Callback!Row(prefix, page, total) =
        Button(p > 2, 1) \o Button(p > 1, p - 1) \o <<Indicator(prefix)>> \o Button(p < total, p + 1) \o Button(p < total - 1, total)
  <2>1. ~(total < 2)
    OBVIOUS
  <2> QED
    BY <2>1 DEF Callback!Row, Indicator
<1> HIDE DEF p, here
<1>4. ASSUME NEW shown \in BOOLEAN, NEW target \in Int, shown => target >= 1
      PROVE  IsPiece(prefix, Button(shown, target), Goal(shown, target))
  <2>1. shown => target \in Nat \ {0}
    BY <1>4
  <2> QED
    BY <2>1, ButtonPiece
<1> DEFINE b1 == Button(p > 2, 1)
           b2 == Button(p > 1, p - 1)
           b3 == <<Indicator(prefix)>>
           b4 == Button(p < total, p + 1)
           b5 == Button(p < total - 1, total)
           g1 == Goal(p > 2, 1)
           g2 == Goal(p > 1, p - 1)
           g4 == Goal(p < total, p + 1)
           g5 == Goal(p < total - 1, total)
<1>5. IsPiece(prefix, b1, g1) /\ IsPiece(prefix, b2, g2) /\ IsPiece(prefix, b3, {0}) /\ IsPiece(prefix, b4, g4) /\ IsPiece(prefix, b5, g5)
  <2> HIDE DEF Button, Goal
  <2>1. (p > 2) \in BOOLEAN /\ (p > 1) \in BOOLEAN /\ (p < total) \in BOOLEAN /\ (p < total - 1) \in BOOLEAN
    BY <1>2
  <2>2. 1 \in Int /\ p - 1 \in Int /\ p + 1 \in Int /\ total \in Int /\ p \in Int
    BY <1>2
  <2>3. 1 >= 1 /\ (p > 1 => p - 1 >= 1) /\ p + 1 >= 1 /\ total >= 1
    BY <1>2
  <2>4. IsPiece(prefix, b1, g1)
    BY <1>4, <2>1, <2>2, <2>3
  <2>5. IsPiece(prefix, b2, g2)
    BY <1>4, <2>1, <2>2, <2>3
  <2>6. IsPiece(prefix, b4, g4)
    BY <1>4, <2>1, <2>2, <2>3
  <2>7. IsPiece(prefix, b5, g5)
    BY <1>4, <2>1, <2>2, <2>3
  <2> QED
    BY <2>4, <2>5, <2>6, <2>7, IndicatorPiece
<1>6. /\ \A k \in g1 : k \notin g2
      /\ \A k \in g1 \cup g2 : k \notin {0}
      /\ \A k \in g1 \cup g2 \cup {0} : k \notin g4
      /\ \A k \in g1 \cup g2 \cup {0} \cup g4 : k \notin g5
  BY <1>2
<1>7. g1 \cup g2 \cup {0} \cup g4 \cup g5 = Reaches(p, total)
  <2>1. ASSUME NEW k
        PROVE  k \in g1 \cup g2 \cup {0} \cup g4 \cup g5 <=> k \in Reaches(p, total)
    <3>1. k \in g1 <=> p > 2 /\ k = 1
      OBVIOUS
    <3>2. k \in g2 <=> p > 1 /\ k = p - 1
      OBVIOUS
    <3>3. k \in g4 <=> p < total /\ k = p + 1
      OBVIOUS
    <3>4. k \in g5 <=> p < total - 1 /\ k = total
      OBVIOUS
    <3> HIDE DEF g1, g2, g4, g5
    <3>5. k \in Reaches(p, total) <=> k = 0 \/ (k \in 1..total /\ k # p /\ (k = 1 \/ k = p - 1 \/ k = p + 1 \/ k = total))
      BY DEF Reaches
    <3>6. (p > 2 /\ k = 1) \/ (p > 1 /\ k = p - 1) \/ (p < total /\ k = p + 1) \/ (p < total - 1 /\ k = total)
            <=> k \in 1..total /\ k # p /\ (k = 1 \/ k = p - 1 \/ k = p + 1 \/ k = total)
      BY <1>2
    <3> QED
      BY <3>1, <3>2, <3>3, <3>4, <3>5, <3>6
  <2> HIDE DEF g1, g2, g4, g5
  <2> QED
    BY <2>1
<1> HIDE DEF Button, Goal, b1, b2, b3, b4, b5, g1, g2, g4, g5
<1>8. IsPiece(prefix, b1 \o b2, g1 \cup g2)
  BY <1>5, <1>6, TwoPieces
<1>9. IsPiece(prefix, b1 \o b2 \o b3, g1 \cup g2 \cup {0})
  BY <1>5, <1>6, <1>8, TwoPieces
<1>10. IsPiece(prefix, b1 \o b2 \o b3 \o b4, g1 \cup g2 \cup {0} \cup g4)
  BY <1>5, <1>6, <1>9, TwoPieces
<1>11. IsPiece(prefix, b1 \o b2 \o b3 \o b4 \o b5, g1 \cup g2 \cup {0} \cup g4 \cup g5)
  BY <1>5, <1>6, <1>10, TwoPieces
<1>12. Callback!Row(prefix, page, total) = b1 \o b2 \o b3 \o b4 \o b5
  BY <1>3 DEF b1, b2, b3, b4, b5
<1>13. IsPiece(prefix, Callback!Row(prefix, page, total), Reaches(here, total))
  BY <1>1, <1>7, <1>11, <1>12
<1> QED
  BY <1>13 DEF here

LEMMA FreeRange ==
  ASSUME NEW s \in Strings
  PROVE  Callback!Sep \notin Callback!Range(s) <=> Free(s)
<1>1. DOMAIN s = 1..Len(s)
  BY LenProperties DEF Strings
<1> QED
  BY <1>1 DEF Callback!Range, Free

LEMMA BothFree ==
  ASSUME NEW s \in Strings, NEW t \in Strings, Callback!Sep \notin Callback!Range(s \o t)
  PROVE  Free(s) /\ Free(t)
<1>1. \A x : Callback!Range(x) = Keyboard!Range(x)
  BY DEF Callback!Range, Keyboard!Range
<1>2. Keyboard!Range(s \o t) = Keyboard!Range(s) \cup Keyboard!Range(t)
  BY RangeOfConcat DEF Strings
<1>3. Callback!Range(s \o t) = Callback!Range(s) \cup Callback!Range(t)
  BY <1>1, <1>2
<1> QED
  BY <1>3, FreeRange

LEMMA FilterIsOwned ==
  ASSUME NEW cd, NEW s
  PROVE  Callback!Filter(cd, s) <=> Owned(s, cd.prefix)
BY DEF Callback!Filter, Owned

(* Rows of pages lead where they should, and nowhere else. *)
LEMMA Paging ==
  ASSUME NEW prefix \in Strings, NEW other \in Strings, NEW page \in Int, NEW total \in Int
  PROVE  Callback!PagesRight(prefix, other, page, total)
<1> DEFINE row == Callback!Row(prefix, page, total)
           here == Callback!Max({1, Callback!Min({page, total})})
<1>1. CASE total < 2
  BY <1>1 DEF Callback!PagesRight, Callback!Row
<1>2. CASE ~(total < 2)
  <2>1. IsPiece(prefix, row, Reaches(here, total))
    BY <1>2, RowReaches
  <2> HIDE DEF row
  <2>2. /\ row \in Seq(Strings)
        /\ \A i \in 1..Len(row) : row[i] = Indicator(prefix) \/ \E k \in Nat \ {0} : row[i] = Callback!data(prefix, k)
        /\ \A k : k \in Reaches(here, total) <=> \E i \in 1..Len(row) : Callback!Page(prefix, row[i]) = k
        /\ \A i, j \in 1..Len(row) : Callback!Page(prefix, row[i]) = Callback!Page(prefix, row[j]) => i = j
    BY <2>1 DEF IsPiece
  <2>3. DOMAIN row = 1..Len(row)
    BY <2>2, LenProperties
  <2>4. {Callback!Page(prefix, row[i]) : i \in DOMAIN row} = Reaches(here, total)
    <3> HIDE DEF here
    <3> QED
      BY <2>2, <2>3
  <2>5. \A i, j \in DOMAIN row : Callback!Page(prefix, row[i]) = Callback!Page(prefix, row[j]) => i = j
    BY <2>2, <2>3
  <2>6. ASSUME other # prefix, NEW i \in DOMAIN row
        PROVE  /\ Callback!Page(other, row[i]) = 0
               /\ Callback!Sep \in Callback!Range(prefix \o other) \/ ~Callback!Filter([prefix |-> other], row[i])
    <3> DEFINE d == row[i]
    <3>1. d \in Strings /\ Callback!Page(other, d) = 0 /\ Owned(d, prefix)
      <4>1. d = Indicator(prefix) \/ \E k \in Nat \ {0} : d = Callback!data(prefix, k)
        BY <2>2, <2>3, <2>6
      <4> HIDE DEF d
      <4>2. CASE d = Indicator(prefix)
        BY <4>2, IndicatorAt, NoPager
      <4>3. CASE \E k \in Nat \ {0} : d = Callback!data(prefix, k)
        <5>1. PICK k \in Nat \ {0} : d = Callback!data(prefix, k)
          BY <4>3
        <5>2. d \in Strings /\ Callback!HasPrefix(d, Nav(prefix)) /\ Callback!Page(prefix, d) = k
          BY <5>1, Leading
        <5>3. Callback!Page(other, d) = 0
          BY <2>6, <5>2, OnePager
        <5> QED
          BY <5>2, <5>3, NavOwned
      <4> QED
        BY <4>1, <4>2, <4>3
    <3> HIDE DEF d
    <3>2. Callback!Sep \notin Callback!Range(prefix \o other) => ~Owned(d, other)
      BY <2>6, <3>1, BothFree, OneOwner
    <3>3. Callback!Filter([prefix |-> other], d) <=> Owned(d, other)
      <4> DEFINE cd == [prefix |-> other]
      <4>1. cd.prefix = other
        OBVIOUS
      <4> HIDE DEF cd
      <4> QED
        BY <4>1, FilterIsOwned DEF cd
    <3> QED
      BY <3>1, <3>2, <3>3 DEF d
  <2> QED
    BY <1>2, <2>4, <2>5, <2>6 DEF Callback!PagesRight, row, here, Reaches
<1> QED
  BY <1>1, <1>2

-----------------------------------------------------------------------------
(* Schemas *)

LEMMA SplitLonger ==
  ASSUME NEW s \in Strings, NEW a \in Seq(Strings), NEW b \in Strings, Callback!Split(s) = Append(a, b),
         NEW c \in Char, c # Callback!Sep
  PROVE  Callback!Split(Append(s, c)) = Append(a, Append(b, c))
<1>1. Callback!Split(Append(s, c)) = SplitMore(Append(a, b), c)
  BY SplitAppend
<1> QED
  BY <1>1, SplitStep

(* Characters that are no separators are put to the last part. *)
LEMMA SplitConcat ==
  ASSUME NEW s \in Strings, NEW a \in Seq(Strings), NEW b \in Strings, Callback!Split(s) = Append(a, b),
         NEW t \in Strings, Free(t)
  PROVE  Callback!Split(s \o t) = Append(a, b \o t)
<1> DEFINE n == Len(t)
           T(k) == SubSeq(t, 1, k)
           P(k) == Callback!Split(s \o T(k)) = Append(a, b \o T(k))
           bad == {k \in 0..n : ~P(k)}
<1>1. n \in Nat /\ T(0) = <<>> /\ T(n) = t
  <2>1. n \in Nat
    BY DEF Strings
  <2>2. T(0) = <<>>
    BY SubSeqEmpty
  <2>3. T(n) = t
    BY DEF Strings
  <2> QED
    BY <2>1, <2>2, <2>3
<1>2. s \o <<>> = s /\ b \o <<>> = b
  BY ConcatEmptySeq DEF Strings
<1>3. P(0)
  BY <1>1, <1>2
<1>4. ASSUME NEW k \in 0..n - 1, P(k)
      PROVE  P(k + 1)
  <2> DEFINE u == T(k)
             c == t[k + 1]
  <2>1. u \in Strings /\ c \in Char /\ c # Callback!Sep /\ T(k + 1) = Append(u, c)
    <3>1. SubSeq(t, 1, k) \in Seq(Char) /\ k + 1 \in 1..Len(t) /\ t[k + 1] \in Char /\ SubSeq(t, 1, k + 1) = Append(SubSeq(t, 1, k), t[k + 1])
      BY OneLonger DEF Strings
    <3> QED
      BY <3>1 DEF Strings, Free
  <2>2. Callback!Split(s \o u) = Append(a, b \o u)
    BY <1>4
  <2> HIDE DEF T, c
  <2> DEFINE su == s \o u
             bu == b \o u
  <2>3. s \o Append(u, c) = Append(su, c) /\ b \o Append(u, c) = Append(bu, c) /\ su \in Strings /\ bu \in Strings
    <3> HIDE DEF u
    <3>1. s \o Append(u, c) = Append(s \o u, c)
      BY <2>1, ConcatAppend DEF Strings
    <3>2. b \o Append(u, c) = Append(b \o u, c)
      BY <2>1, ConcatAppend DEF Strings
    <3>3. s \o u \in Strings /\ b \o u \in Strings
      BY <2>1, ConcatProperties DEF Strings
    <3> QED
      BY <3>1, <3>2, <3>3
  <2> HIDE DEF su, bu, u
  <2>4. Callback!Split(su) = Append(a, bu)
    BY <2>2 DEF su, bu
  <2>5. Callback!Split(Append(su, c)) = Append(a, Append(bu, c))
    BY <2>1, <2>3, <2>4, SplitLonger
  <2> QED
    BY <2>1, <2>3, <2>5
<1>5. bad = {}
  <2> SUFFICES ASSUME bad # {}
               PROVE  FALSE
    OBVIOUS
  <2>1. PICK k \in bad : \A j \in bad : k <= j
    <3>1. bad \subseteq Nat
      OBVIOUS
    <3> HIDE DEF bad
    <3> QED
      BY <3>1, LeastNumber
  <2> HIDE DEF P
  <2>2. k \in 0..n /\ k # 0
    BY <1>3, <2>1
  <2>3. k - 1 \in 0..n - 1 /\ k - 1 \in 0..n /\ ~(k <= k - 1) /\ (k - 1) + 1 = k
    BY <1>1, <2>2
  <2>4. P(k - 1)
    BY <2>1, <2>3
  <2>5. P((k - 1) + 1)
    BY <1>4, <2>3, <2>4
  <2> QED
    BY <2>1, <2>3, <2>5
<1>6. P(n)
  <2>1. n \in 0..n
    BY <1>1
  <2> HIDE DEF P
  <2> QED
    BY <1>5, <2>1
<1> QED
  BY <1>1, <1>6

(* The beginnings of parts, joined *)
IsJoining(parts, f) ==
  /\ f \in [1..Len(parts) -> Strings]
  /\ f[1] = parts[1]
  /\ \A i \in 2..Len(parts) : f[i] = f[i - 1] \o <<Callback!Sep>> \o parts[i]
  /\ Callback!Join(parts) = f[Len(parts)]

LEMMA JoinLoop ==
  ASSUME NEW parts \in Parted
  PROVE  \E f : IsJoining(parts, f)
<1> DEFINE n == Len(parts)
           first == parts[1]
           More(v, i) == v \o <<Callback!Sep>> \o parts[i]
           Step(f, i) == IF i = 1 THEN first ELSE More(f[i - 1], i)
           Joined == CHOOSE f : f = [i \in 1..n |-> Step(f, i)]
           g == [i \in 1..n |-> [v \in Strings |-> More(v, i)]]
<1>1. parts \in Seq(Strings) /\ n \in Nat /\ 1 \in Nat /\ 1 <= n /\ n \in 1..n
  BY EmptySeq DEF Parted
<1>2. first \in Strings
  BY <1>1, ElementOfSeq
<1>3. Callback!Join(parts) = Joined[n]
  BY DEF Callback!Join
<1>4. \A i \in 1..n, v \in Strings : More(v, i) \in Strings
  <2> SUFFICES ASSUME NEW i \in 1..n, NEW v \in Strings
               PROVE  More(v, i) \in Strings
    OBVIOUS
  <2> DEFINE m == <<Callback!Sep>>
             p == parts[i]
  <2>1. m \in Seq(Char)
    BY Separator
  <2>2. p \in Seq(Char) /\ v \in Seq(Char)
    BY <1>1, ElementOfSeq DEF Strings
  <2> HIDE DEF m, p
  <2>3. v \o m \in Seq(Char)
    BY <2>1, <2>2, ConcatProperties
  <2>4. v \o m \o p \in Seq(Char)
    <3> DEFINE vm == v \o m
    <3>1. vm \in Seq(Char)
      BY <2>3
    <3> HIDE DEF vm
    <3>2. vm \o p \in Seq(Char)
      BY <2>2, <3>1, ConcatProperties
    <3> QED
      BY <3>2 DEF vm
  <2> QED
    BY <2>4 DEF m, p, Strings
<1> HIDE DEF first, More
<1>5. ASSUME NEW p \in 1..n, p # 1
      PROVE  g[p] \in [Strings -> Strings] /\ \A v \in Strings : g[p][v] = More(v, p)
  BY <1>4
<1> HIDE DEF g, n
<1>6. PICK f \in [1..n -> Strings] : Iteration(1, n, first, g, f)
  BY <1>1, <1>2, <1>5, IterationExists
<1>7. \A i \in 1..n : f[i] = Step(f, i)
  <2>1. \A i \in 1..n : f[i] = IF i = 1 THEN first ELSE g[i][f[i - 1]]
    BY <1>6 DEF Iteration
  <2>2. \A i \in 1..n : i # 1 => f[i - 1] \in Strings
    BY <1>1
  <2> QED
    BY <1>5, <2>1, <2>2
<1>8. f = [i \in 1..n |-> Step(f, i)]
  <2> HIDE DEF Step
  <2> QED
    BY <1>7
<1>9. \A i \in 1..n : Joined[i] = Step(Joined, i)
  <2>1. Joined = [i \in 1..n |-> Step(Joined, i)]
    <3> HIDE DEF Step
    <3> QED
      BY <1>8
  <2> HIDE DEF Step, Joined
  <2> QED
    BY <2>1
<1> HIDE DEF Joined
<1>10. \A i \in 1..n : f[i] = Joined[i]
  <2>1. f[1] = Joined[1]
    BY <1>1, <1>7, <1>9
  <2>2. \A i \in 1..n : i # 1 /\ f[i - 1] = Joined[i - 1] => f[i] = Joined[i]
    BY <1>7, <1>9
  <2>3. Alike(1, n, f, Joined)
    BY <2>1, <2>2 DEF Alike
  <2> QED
    BY <1>1, <2>3, IterationOnly
<1>11. Callback!Join(parts) = f[n]
  BY <1>1, <1>3, <1>10
<1>12. \A i \in 2..n : f[i] = More(f[i - 1], i)
  <2>1. \A i \in 2..n : i \in 1..n /\ i # 1
    OBVIOUS
  <2> QED
    BY <1>7, <2>1
<1>13. f[1] = first
  BY <1>1, <1>7
<1> QED
  BY <1>11, <1>12, <1>13 DEF IsJoining, n, first, More

LEMMA PrefixOfConcat ==
  ASSUME NEW s \in Strings, NEW p \in Strings, NEW t \in Strings, Callback!HasPrefix(s, p)
  PROVE  Callback!HasPrefix(s \o t, p)
<1> DEFINE u == s \o t
<1>1. /\ u \in Strings /\ Len(u) = Len(s) + Len(t) /\ Len(s) \in Nat /\ Len(t) \in Nat /\ Len(p) \in Nat
      /\ \A i \in 1..Len(s) + Len(t) : u[i] = IF i <= Len(s) THEN s[i] ELSE t[i - Len(s)]
  BY ConcatProperties DEF Strings
<1>2. Len(p) <= Len(s) /\ \A i \in 1..Len(p) : s[i] = p[i]
  BY PrefixAt
<1> HIDE DEF u
<1>3. \A i \in 1..Len(p) : i \in 1..Len(s) + Len(t) /\ i <= Len(s)
  BY <1>1, <1>2
<1>4. Len(p) <= Len(u) /\ \A i \in 1..Len(p) : u[i] = p[i]
  BY <1>1, <1>2, <1>3
<1>5. Callback!HasPrefix(u, p)
  BY <1>1, <1>4, PrefixAt
<1> QED
  BY <1>5 DEF u

(* A part without separators, after one *)
LEMMA LastPart ==
  ASSUME NEW s \in Strings, NEW a \in Seq(Strings), Callback!Split(s) = Append(a, <<>>), NEW t \in Strings, Free(t)
  PROVE  Callback!Split(s \o t) = Append(a, t)
<1> DEFINE b == <<>>
<1>1. b \in Strings /\ b \o t = t
  BY ConcatEmptySeq DEF Strings
<1>2. Callback!Split(s) = Append(a, b)
  OBVIOUS
<1> HIDE DEF b
<1>3. Callback!Split(s \o t) = Append(a, b \o t)
  BY <1>1, <1>2, SplitConcat
<1> QED
  BY <1>1, <1>3

(* A part more, after a separator *)
LEMMA JoinMore ==
  ASSUME NEW s \in Strings, NEW t \in Strings, Free(t), NEW p \in Strings, Owned(s, p)
  PROVE  LET u == s \o <<Callback!Sep>> \o t
         IN u \in Strings /\ Callback!Split(u) = Append(Callback!Split(s), t) /\ Owned(u, p)
<1> DEFINE m == Append(s, Callback!Sep)
           u == m \o t
           a == Callback!Split(s)
<1>1. a \in Seq(Strings)
  BY Separator, SplitAppend DEF Parted
<1>2. m \in Strings /\ s \o <<Callback!Sep>> = m
  <2>1. s \in Seq(Char)
    BY DEF Strings
  <2>2. Append(s, Callback!Sep) = s \o <<Callback!Sep>>
    BY <2>1, Separator, AppendIsConcat
  <2>3. Append(s, Callback!Sep) \in Seq(Char)
    BY <2>1, Separator, AppendProperties
  <2> QED
    BY <2>2, <2>3 DEF Strings
<1>3. Callback!Split(m) = Append(a, <<>>)
  <2>1. Callback!Split(m) = SplitMore(a, Callback!Sep)
    BY Separator, SplitAppend
  <2> QED
    BY <2>1 DEF SplitMore
<1> HIDE DEF a
<1>4. Owned(u, p)
  <2>1. CASE s = p
    <3>1. Callback!HasPrefix(m, m)
      <4>1. Len(m) <= Len(m)
        BY <1>2 DEF Strings
      <4> HIDE DEF m
      <4> QED
        BY <1>2, <4>1, PrefixAt
    <3> HIDE DEF m
    <3>2. Callback!HasPrefix(u, m)
      BY <1>2, <3>1, PrefixOfConcat
    <3> QED
      BY <2>1, <3>2 DEF Owned, m
  <2>2. CASE Callback!HasPrefix(s, Append(p, Callback!Sep))
    <3> DEFINE q == Append(p, Callback!Sep)
               sep == <<Callback!Sep>>
    <3>1. q \in Strings /\ sep \in Strings
      <4>1. p \in Seq(Char)
        BY DEF Strings
      <4> QED
        BY <4>1, Separator, AppendProperties DEF Strings
    <3>2. Callback!HasPrefix(s, q)
      BY <2>2
    <3>3. m = s \o sep
      BY <1>2
    <3> HIDE DEF m, q, sep
    <3>4. Callback!HasPrefix(m, q)
      BY <3>1, <3>2, <3>3, PrefixOfConcat
    <3>5. Callback!HasPrefix(u, q)
      BY <1>2, <3>1, <3>4, PrefixOfConcat
    <3> QED
      BY <3>5 DEF Owned, q
  <2> QED
    BY <2>1, <2>2 DEF Owned
<1> HIDE DEF m
<1>5. Callback!Split(u) = Append(a, t)
  BY <1>1, <1>2, <1>3, LastPart
<1>6. u \in Strings
  BY <1>2, ConcatProperties DEF Strings
<1>7. s \o <<Callback!Sep>> \o t = u
  BY <1>2
<1> QED
  BY <1>4, <1>5, <1>6, <1>7 DEF a

(* Parts that were joined are split again. *)
LEMMA Rejoined ==
  ASSUME NEW parts \in Parted, \A i \in 1..Len(parts) : Free(parts[i])
  PROVE  LET s == Callback!Join(parts)
         IN s \in Strings /\ Callback!Split(s) = parts /\ Owned(s, parts[1])
<1> DEFINE n == Len(parts)
           S(k) == SubSeq(parts, 1, k)
           p == parts[1]
<1>1. parts \in Seq(Strings) /\ n \in Nat \ {0} /\ S(n) = parts
  BY EmptySeq DEF Parted
<1>2. PICK f : IsJoining(parts, f)
  BY JoinLoop
<1>3. /\ f \in [1..n -> Strings] /\ f[1] = p
      /\ \A i \in 2..n : f[i] = f[i - 1] \o <<Callback!Sep>> \o parts[i]
      /\ Callback!Join(parts) = f[n]
  BY <1>2 DEF IsJoining
<1> DEFINE P(k) == f[k] \in Strings /\ Callback!Split(f[k]) = S(k) /\ Owned(f[k], p)
           bad == {k \in 1..n : ~P(k)}
<1>4. P(1)
  <2>1. p \in Strings /\ Free(p)
    <3>1. 1 \in 1..n
      BY <1>1
    <3> QED
      BY <1>1, <3>1, ElementOfSeq
  <2>2. <<>> \in Strings /\ <<>> \in Seq(Strings) /\ <<>> \o p = p
    <3> HIDE DEF p
    <3> QED
      BY <2>1, ConcatEmptySeq DEF Strings
  <2>3. Callback!Split(<<>>) = Append(<<>>, <<>>)
    BY SplitNothing
  <2>4. Callback!Split(<<>> \o p) = Append(<<>>, <<>> \o p)
    <3> HIDE DEF p
    <3> QED
      BY <2>1, <2>2, <2>3, SplitConcat
  <2>5. S(1) = Append(<<>>, p)
    <3>1. 0 \in 0..Len(parts) - 1
      BY <1>1
    <3>2. SubSeq(parts, 1, 0 + 1) = Append(SubSeq(parts, 1, 0), parts[0 + 1])
      BY <1>1, <3>1, OneLonger
    <3>3. SubSeq(parts, 1, 0) = <<>>
      BY SubSeqEmpty
    <3>4. 0 + 1 = 1
      OBVIOUS
    <3> QED
      BY <3>2, <3>3, <3>4
  <2> QED
    BY <1>3, <2>1, <2>2, <2>4, <2>5 DEF Owned
<1>5. ASSUME NEW k \in 1..n - 1, P(k)
      PROVE  P(k + 1)
  <2> DEFINE t == parts[k + 1]
             s == f[k]
             a == S(k)
  <2>1. k + 1 \in 2..n /\ k + 1 \in 1..n /\ (k + 1) - 1 = k /\ k \in 0..n - 1
    BY <1>1
  <2>2. f[k + 1] = s \o <<Callback!Sep>> \o t
    BY <1>3, <2>1
  <2>3. a \in Seq(Strings) /\ t \in Strings /\ S(k + 1) = Append(a, t)
    BY <1>1, <2>1, OneLonger
  <2>4. Free(t)
    BY <2>1
  <2>5. s \in Strings /\ Callback!Split(s) = a /\ Owned(s, p)
    BY <1>5
  <2>6. p \in Strings
    <3>1. 1 \in 1..n
      BY <1>1
    <3> QED
      BY <1>1, <3>1, ElementOfSeq
  <2> HIDE DEF t, s, a, S, p
  <2> DEFINE u == s \o <<Callback!Sep>> \o t
  <2>7. u \in Strings /\ Callback!Split(u) = Append(a, t) /\ Owned(u, p)
    BY <2>3, <2>4, <2>5, <2>6, JoinMore
  <2> QED
    BY <2>2, <2>3, <2>7
<1>6. bad = {}
  <2> SUFFICES ASSUME bad # {}
               PROVE  FALSE
    OBVIOUS
  <2>1. PICK k \in bad : \A j \in bad : k <= j
    <3>1. bad \subseteq Nat
      OBVIOUS
    <3> HIDE DEF bad
    <3> QED
      BY <3>1, LeastNumber
  <2> HIDE DEF P
  <2>2. k \in 1..n /\ k # 1
    BY <1>4, <2>1
  <2>3. k - 1 \in 1..n - 1 /\ k - 1 \in 1..n /\ ~(k <= k - 1) /\ (k - 1) + 1 = k
    BY <1>1, <2>2
  <2>4. P(k - 1)
    BY <2>1, <2>3
  <2>5. P((k - 1) + 1)
    BY <1>5, <2>3, <2>4
  <2> QED
    BY <2>1, <2>3, <2>5
<1>7. P(n)
  <2>1. n \in 1..n
    BY <1>1
  <2> HIDE DEF P
  <2> QED
    BY <1>6, <2>1
<1> QED
  BY <1>1, <1>3, <1>7

(* A field comes back from its part. *)
LEMMA PartFacts ==
  ASSUME NEW type \in {"string", "bool", "int"}, NEW value, IsValueOf(type, value),
         type = "string" => Callback!Sep \notin Callback!Range(value)
  PROVE  LET p == Callback!Part(type, value)
         IN /\ p \in Strings /\ Free(p)
            /\ type = "bool" => p \in {<<"true">>, <<"false">>}
            /\ type = "int" => Callback!ParsesInt(p)
            /\ Callback!FieldOf(type, p) = value
<1>1. CASE type = "string"
  <2>1. value \in Strings /\ Callback!Part(type, value) = value
    BY <1>1 DEF IsValueOf, Strings, Callback!Part
  <2>2. Free(value)
    BY <1>1, <2>1, FreeRange
  <2>3. Callback!FieldOf(type, value) = value
    BY <1>1 DEF Callback!FieldOf
  <2> QED
    BY <1>1, <2>1, <2>2, <2>3
<1>2. CASE type = "bool"
  <2> DEFINE yes == <<"true">>
             no  == <<"false">>
             p == IF value THEN yes ELSE no
  <2>1. value \in BOOLEAN /\ Callback!Part(type, value) = p
    BY <1>2 DEF IsValueOf, Callback!Part
  <2>2. yes \in Strings /\ no \in Strings /\ yes # no
    BY DEF Strings, Char
  <2>3. Free(yes) /\ Free(no)
    BY DEF Free, Callback!Sep
  <2>4. Callback!FieldOf(type, p) = (p = yes)
    BY <1>2 DEF Callback!FieldOf
  <2> HIDE DEF yes, no
  <2>5. (p = yes) = value
    BY <2>1, <2>2
  <2>6. p \in Strings /\ Free(p) /\ p \in {yes, no}
    BY <2>1, <2>2, <2>3
  <2> HIDE DEF p
  <2> QED
    BY <1>2, <2>1, <2>4, <2>5, <2>6 DEF yes, no
<1>3. CASE type = "int"
  <2> DEFINE p == Callback!FormatInt(value)
  <2>1. value \in -MaxInt - 1..MaxInt /\ Callback!Part(type, value) = p
    BY <1>3 DEF IsValueOf, Callback!Part
  <2>2. value \in Int
    BY <2>1, MaxIntAssumption
  <2>3. /\ p \in Seq(Char) /\ (\A i \in 1..Len(p) : p[i] \in DigitSet \cup {"-"})
        /\ Callback!ParsesInt(p) /\ Callback!ParseInt(p) = value
    BY <2>2, Parsed
  <2> HIDE DEF p
  <2>4. p \in Strings /\ Free(p)
    BY <2>3 DEF Strings, Free, DigitSet, Callback!Sep
  <2>5. Callback!FieldOf(type, p) = Callback!SetInt(value)
    BY <1>3, <2>3 DEF Callback!FieldOf
  <2>6. Callback!SetInt(value) = value
    BY <2>1, Kept
  <2> QED
    BY <1>3, <2>1, <2>3, <2>4, <2>5, <2>6
<1> QED
  BY <1>1, <1>2, <1>3

(* A schema's data is split to its prefix and its fields' parts. *)
LEMMA Packed ==
  ASSUME NEW cd \in Schema, NEW v, IsPayload(cd, v), Callback!Accepts(cd, v)
  PROVE  LET s == Callback!Pack(cd, v)
             parts == Callback!Split(s)
         IN /\ s \in Strings /\ Owned(s, cd.prefix) /\ Free(cd.prefix)
            /\ parts[1] = cd.prefix /\ Len(parts) = Len(cd.fields) + 1
            /\ \A i \in 1..Len(cd.fields) : parts[i + 1] = Callback!Part(cd.fields[i], v[i])
<1> DEFINE p == cd.prefix
           F == cd.fields
           n == Len(F)
           b == [i \in DOMAIN F |-> Callback!Part(F[i], v[i])]
           a == <<p>>
           parts == a \o b
<1>1. p \in Seq(Char \ {Callback!Sep}) /\ F \in Seq({"string", "bool", "int"})
  BY DEF Schema
<1>2. p \in Strings /\ Free(p)
  <2> HIDE DEF p
  <2>1. p \in Seq(Char)
    <3>1. Char \ {Callback!Sep} \subseteq Char
      OBVIOUS
    <3> QED
      BY <1>1, <3>1, SeqMonotonic
  <2>2. \A i \in 1..Len(p) : p[i] \in Char \ {Callback!Sep}
    BY <1>1, ElementOfSeq
  <2> QED
    BY <2>1, <2>2 DEF Strings, Free
<1>3. DOMAIN F = 1..n /\ n \in Nat /\ \A i \in 1..n : F[i] \in {"string", "bool", "int"}
  <2> HIDE DEF F
  <2>1. DOMAIN F = 1..Len(F) /\ Len(F) \in Nat
    BY <1>1, LenProperties
  <2>2. \A i \in 1..Len(F) : F[i] \in {"string", "bool", "int"}
    BY <1>1, ElementOfSeq
  <2> QED
    BY <2>1, <2>2
<1>4. \A i \in 1..n : IsValueOf(F[i], v[i]) /\ (F[i] = "string" => Callback!Sep \notin Callback!Range(v[i]))
  BY <1>3 DEF IsPayload, Callback!Accepts
<1>5. Callback!Pack(cd, v) = Callback!Join(parts)
  BY DEF Callback!Pack
<1> HIDE DEF p, F
<1>6. \A i \in 1..n : b[i] = Callback!Part(F[i], v[i]) /\ b[i] \in Strings /\ Free(b[i])
  <2> SUFFICES ASSUME NEW i \in 1..n
               PROVE  b[i] = Callback!Part(F[i], v[i]) /\ b[i] \in Strings /\ Free(b[i])
    OBVIOUS
  <2>1. b[i] = Callback!Part(F[i], v[i])
    BY <1>3
  <2> DEFINE type == F[i]
             value == v[i]
  <2>2. type \in {"string", "bool", "int"} /\ IsValueOf(type, value) /\ (type = "string" => Callback!Sep \notin Callback!Range(value))
    BY <1>3, <1>4
  <2> HIDE DEF type, value, b
  <2>3. Callback!Part(type, value) \in Strings /\ Free(Callback!Part(type, value))
    BY <2>2, PartFacts
  <2> QED
    BY <2>1, <2>3 DEF type, value
<1>7. b \in Seq(Strings) /\ Len(b) = n
  <2>1. b \in [1..n -> Strings]
    BY <1>3, <1>6
  <2> HIDE DEF b
  <2> QED
    BY <1>3, <2>1
<1>8. a \in Seq(Strings) /\ Len(a) = 1 /\ a[1] = p
  BY <1>2
<1> HIDE DEF a, b, n
<1>9. /\ parts \in Seq(Strings) /\ Len(parts) = 1 + n
      /\ \A i \in 1..1 + n : parts[i] = IF i <= 1 THEN a[i] ELSE b[i - 1]
  BY <1>7, <1>8, ConcatProperties
<1> HIDE DEF parts
<1>10. parts[1] = p /\ \A i \in 1..n : parts[i + 1] = b[i]
  <2>1. 1 \in 1..1 + n /\ \A i \in 1..n : i + 1 \in 1..1 + n /\ ~(i + 1 <= 1) /\ (i + 1) - 1 = i
    BY <1>3
  <2> QED
    BY <1>8, <1>9, <2>1
<1>11. \A i \in 1..Len(parts) : Free(parts[i])
  <2>1. \A i \in 1..1 + n : i = 1 \/ (i - 1 \in 1..n /\ (i - 1) + 1 = i)
    BY <1>3
  <2> QED
    BY <1>2, <1>6, <1>9, <1>10, <2>1
<1>12. parts \in Parted
  BY <1>3, <1>9, EmptySeq DEF Parted
<1> DEFINE s == Callback!Join(parts)
<1>13. s \in Strings /\ Callback!Split(s) = parts /\ Owned(s, p)
  BY <1>10, <1>11, <1>12, Rejoined
<1> HIDE DEF s
<1>14. Len(parts) = n + 1 /\ \A i \in 1..n : parts[i + 1] = Callback!Part(F[i], v[i])
  BY <1>3, <1>6, <1>9, <1>10
<1>15. Callback!Pack(cd, v) = s
  BY <1>5 DEF s
<1> QED
  BY <1>2, <1>10, <1>13, <1>14, <1>15 DEF p, F, n

LEMMA Packing ==
  ASSUME NEW cd \in Schema, NEW other \in Schema, NEW v, IsPayload(cd, v)
  PROVE  Callback!PacksRight(cd, other, v)
<1> DEFINE s == Callback!Pack(cd, v)
           parts == Callback!Split(s)
           F == cd.fields
           n == Len(F)
           q == other.prefix
<1> SUFFICES ASSUME Callback!Accepts(cd, v)
             PROVE  /\ Callback!Unpacks(cd, s) /\ Callback!Unpack(cd, s) = v
                    /\ Callback!Filter(cd, s)
                    /\ q # cd.prefix => ~Callback!Filter(other, s) /\ ~Callback!Unpacks(other, s) /\ Callback!Page(q, s) = 0
  BY DEF Callback!PacksRight
<1>1. /\ s \in Strings /\ Owned(s, cd.prefix) /\ Free(cd.prefix)
      /\ parts[1] = cd.prefix /\ Len(parts) = n + 1
      /\ \A i \in 1..n : parts[i + 1] = Callback!Part(F[i], v[i])
  BY Packed
<1>2. DOMAIN F = 1..n /\ n \in Nat /\ \A i \in 1..n : F[i] \in {"string", "bool", "int"}
  <2>1. F \in Seq({"string", "bool", "int"})
    BY DEF Schema
  <2> HIDE DEF F
  <2>2. DOMAIN F = 1..Len(F) /\ Len(F) \in Nat
    BY <2>1, LenProperties
  <2>3. \A i \in 1..Len(F) : F[i] \in {"string", "bool", "int"}
    BY <2>1, ElementOfSeq
  <2> QED
    BY <2>2, <2>3
<1>3. /\ \A i \in 1..n : IsValueOf(F[i], v[i]) /\ (F[i] = "string" => Callback!Sep \notin Callback!Range(v[i]))
      /\ v = [i \in 1..n |-> v[i]]
  BY <1>2 DEF IsPayload, Callback!Accepts
<1>4. q \in Strings /\ Free(q) /\ cd.prefix \in Strings
  <2>1. q \in Seq(Char \ {Callback!Sep}) /\ cd.prefix \in Seq(Char \ {Callback!Sep}) /\ Char \ {Callback!Sep} \subseteq Char
    BY DEF Schema
  <2>2. cd.prefix \in Seq(Char)
    BY <2>1, SeqMonotonic
  <2> HIDE DEF q
  <2>3. q \in Seq(Char)
    BY <2>1, SeqMonotonic
  <2>4. \A i \in 1..Len(q) : q[i] \in Char \ {Callback!Sep}
    BY <2>1, ElementOfSeq
  <2> QED
    BY <2>2, <2>3, <2>4 DEF Strings, Free
<1> HIDE DEF s, parts, F, n, q
<1>5. ASSUME NEW i \in 1..n
      PROVE  /\ F[i] = "bool" => parts[i + 1] \in {<<"true">>, <<"false">>}
             /\ F[i] = "int" => Callback!ParsesInt(parts[i + 1])
             /\ Callback!FieldOf(F[i], parts[i + 1]) = v[i]
  <2> DEFINE type == F[i]
             value == v[i]
  <2>1. type \in {"string", "bool", "int"} /\ IsValueOf(type, value) /\ (type = "string" => Callback!Sep \notin Callback!Range(value))
    BY <1>2, <1>3
  <2>2. parts[i + 1] = Callback!Part(type, value)
    BY <1>1
  <2> HIDE DEF type, value
  <2>3. /\ type = "bool" => parts[i + 1] \in {<<"true">>, <<"false">>}
        /\ type = "int" => Callback!ParsesInt(parts[i + 1])
        /\ Callback!FieldOf(type, parts[i + 1]) = value
    BY <2>1, <2>2, PartFacts
  <2> QED
    BY <2>3 DEF type, value
<1>6. Callback!Unpacks(cd, s)
  <2>1. /\ parts[1] = cd.prefix /\ Len(parts) - 1 = n
        /\ \A i \in 1..n : /\ F[i] = "bool" => parts[i + 1] \in {<<"true">>, <<"false">>}
                           /\ F[i] = "int" => Callback!ParsesInt(parts[i + 1])
    BY <1>1, <1>2, <1>5
  <2> QED
    BY <1>2, <2>1 DEF Callback!Unpacks, parts, F, n
<1>7. Callback!Unpack(cd, s) = v
  <2>1. Callback!Unpack(cd, s) = [i \in 1..n |-> Callback!FieldOf(F[i], parts[i + 1])]
    BY <1>2 DEF Callback!Unpack, parts, F
  <2>2. [i \in 1..n |-> Callback!FieldOf(F[i], parts[i + 1])] = [i \in 1..n |-> v[i]]
    BY <1>5
  <2> QED
    BY <1>3, <2>1, <2>2
<1>8. Callback!Filter(cd, s)
  BY <1>1, FilterIsOwned
<1>9. ASSUME q # cd.prefix
      PROVE  ~Callback!Filter(other, s) /\ ~Callback!Unpacks(other, s) /\ Callback!Page(q, s) = 0
  <2>1. ~Owned(s, q)
    BY <1>1, <1>4, <1>9, OneOwner
  <2>2. ~Callback!Filter(other, s)
    BY <2>1, FilterIsOwned DEF q
  <2>3. ~Callback!Unpacks(other, s)
    BY <1>1, <1>9 DEF Callback!Unpacks, parts, q
  <2>4. Callback!Page(q, s) = 0
    BY <1>1, <1>4, <2>1, PageMarks, NavOwned
  <2> QED
    BY <2>2, <2>3, <2>4
<1> QED
  BY <1>6, <1>7, <1>8, <1>9

-----------------------------------------------------------------------------
(* The theorems *)

(* A text with entities is split into chunks that may be sent, at no place     *)
(* inside a character, with every unit but white space and all its formatting, *)
(* and its segments are the text, each with the entities that cover it: for    *)
(* every text, all sets of entities Telegram may send, and every limit.        *)
THEOREM TextSound == Given => TextSurvives
<1> SUFFICES ASSUME Given
             PROVE  TextSurvives
  OBVIOUS
<1>1. ASSUME input.of = "split"
      PROVE  Text!SplitsWell(input.text, input.entities, input.limit)
  <2>1. input \in SplitInput /\ Text!IsText(input.text) /\ \A e \in input.entities : IsEntityOf(input.text, e)
    BY <1>1 DEF Given
  <2>2. input.text \in Seq(Text!Units) /\ input.entities \in SUBSET Entity /\ input.limit \in Nat \ {0}
    BY <2>1 DEF SplitInput
  <2>3. input.text \in Utf16 /\ input.entities \in SUBSET SplitEntities(input.text)
    BY <2>1, <2>2 DEF Utf16, SplitEntities
  <2> QED
    BY <2>2, <2>3, Splitting
<1>2. ASSUME input.of = "segments"
      PROVE  Text!SegmentsWell(input.text, input.entities)
  <2>1. input \in SegmentInput /\ Text!IsText(input.text)
    BY <1>2 DEF Given
  <2>2. input.text \in Utf16 /\ input.entities \in SUBSET Entity
    BY <2>1 DEF SegmentInput, Utf16
  <2> QED
    BY <2>2, Segmenting
<1> QED
  BY <1>1, <1>2 DEF TextSurvives

(* A user gets the form for the number in the language that was found, and a   *)
(* text at all if the default locale has one: for every number, any languages  *)
(* and whatever translators have added.                                        *)
THEOREM TextsSound == Given => TextsFitTheUser
<1> SUFFICES ASSUME Given
             PROVE  TextsFitTheUser
  OBVIOUS
<1>1. input.of = "number" => Locales!CountsRight(input.n)
  BY Counting DEF Given, NumberInput
<1>2. ASSUME input.of = "locale"
      PROVE  Locales!SpeaksRight(input.messages, input.defaultLocale, input.saved, input.storageFails, input.languageCode, input.n)
  <2>1. input \in LocaleInput
    BY <1>2 DEF Given
  <2>2. /\ input.messages \in SUBSET Messages /\ input.defaultLocale \in Locale
        /\ input.saved \in Locale \cup {Empty} /\ input.storageFails \in BOOLEAN
        /\ input.languageCode \in Locale \cup {Empty} /\ input.n \in Int
    BY <2>1 DEF LocaleInput, Messages
  <2> QED
    BY <2>2, Speaking
<1> QED
  BY <1>1, <1>2 DEF TextsFitTheUser

(* A command reaches the bots it is for with the arguments that were typed,    *)
(* and whoever follows a chat by its filters knows its members: for texts and  *)
(* histories of any length, and any bots.                                      *)
THEOREM FiltersSound == Given => FiltersRight
<1> SUFFICES ASSUME Given
             PROVE  FiltersRight
  OBVIOUS
<1>1. ASSUME input.of = "command"
      PROVE  Filter!CommandsRight(input.command, input.mention, input.args, input.name, input.botUsernames)
  <2>1. input \in CommandInput
    BY <1>1 DEF Given
  <2>2. /\ input.command \in Seq(Word \ {"@", " "}) \ {<<>>} /\ input.mention \in Seq(Word \ {" "})
        /\ input.args \in Seq(Word) /\ input.name \in Seq(Word) /\ input.botUsernames \in SUBSET Seq(Word)
    BY <2>1 DEF CommandInput
  <2> QED
    BY <2>2, Commanding
<1>2. ASSUME input.of = "member"
      PROVE  Filter!FollowsMembers(input.history)
  <2>1. input.history \in Seq(Filter!Statuses) \ {<<>>}
    BY <1>2 DEF Given, MemberInput
  <2> QED
    BY <2>1, Following
<1> QED
  BY <1>1, <1>2 DEF FiltersRight

(* Every button works: what is packed is unpacked, by its own handler only,  *)
(* rows of pages lead where they should, and keyboards keep their buttons.    *)
THEOREM ButtonsSound == Given => ButtonsWork
<1> SUFFICES ASSUME Given
             PROVE  ButtonsWork
  OBVIOUS
<1>1. CASE input.of = "keyboard"
  <2>1. input.calls \in Seq(BuilderCall) /\ input.sizes \in Seq(Int)
    BY <1>1 DEF Given, KeyboardInput
  <2>2. Keyboard!KeepsButtons(input.calls, input.sizes)
    BY <2>1, Keeping
  <2> QED
    BY <1>1, <2>2 DEF ButtonsWork
<1>2. CASE input.of = "pack"
  <2>1. input.cd \in Schema /\ input.other \in Schema /\ IsPayload(input.cd, input.value)
    BY <1>2 DEF Given
  <2>2. Callback!PacksRight(input.cd, input.other, input.value)
    BY <2>1, Packing
  <2> QED
    BY <1>2, <2>2 DEF ButtonsWork
<1>3. CASE input.of = "page"
  <2>1. input.prefix \in Strings /\ input.other \in Strings /\ input.page \in Int /\ input.total \in Int
    BY <1>3 DEF Given, PageInput, Strings
  <2>2. Callback!PagesRight(input.prefix, input.other, input.page, input.total)
    BY <2>1, Paging
  <2> QED
    BY <1>3, <2>2 DEF ButtonsWork
<1> QED
  BY <1>1, <1>2, <1>3 DEF ButtonsWork
=============================================================================
