-------------------------------- MODULE Text --------------------------------
(***************************************************************************)
(* Texts and their formatting entities: SplitTextWithEntities (format.go)  *)
(* and EntitySegments (entity_text.go).  A text is the sequence of its     *)
(* UTF-16 units, of which matters whether they are a letter, white space   *)
(* (only at spaces and newlines a text is split), or half of a surrogate   *)
(* pair.  Offsets count from 0, as in the code, so the unit before offset  *)
(* i is text[i].                                                           *)
(***************************************************************************)
EXTENDS Integers, Sequences, FiniteSetsExt

Breaks == {"space", "newline"}
Spaces == Breaks \cup {"tab"}
Units  == {"letter", "high", "low"} \cup Spaces

IsText(u) ==
  \A i \in 1..Len(u) :
    /\ u[i] = "high" => i < Len(u) /\ u[i + 1] = "low"
    /\ u[i] = "low"  => i > 1 /\ u[i - 1] = "high"

Stop(e)         == e.offset + e.length
InsidePair(u, b) == b > 0 /\ b < Len(u) /\ u[b] = "high"

-----------------------------------------------------------------------------
(* SplitTextWithEntities.  A chunk is the range [from, to) of the text, and  *)
(* its entities.                                                             *)

lastBreak(u, start, p) ==
  LET breaks(unit) == {i \in start + 1..p : u[i] = unit}
  IN IF breaks("newline") # {} THEN Max(breaks("newline"))
     ELSE IF breaks("space") # {} THEN Max(breaks("space"))
     ELSE p

(* Mutant of Avoidable: also entities that have been split once. *)
AvoidableOnceMore(e, start, limit) == Stop(e) > start /\ e.length <= limit

Avoidable(e, start, limit) == e.offset > start /\ e.length <= limit

(* Going back from entity to entity, in any order, ends at the last point at *)
(* or before q that is inside none.                                          *)
entityStartBefore(entities, start, q, limit) ==
  Max({x \in 0..q : \A e \in entities :
         Avoidable(e, start, limit) => ~(e.offset < x /\ x < Stop(e))})

(* Mutant of windowEdge: the limit, whatever is there. *)
windowEdgeAnywhere(u, start, limit) == start + limit

windowEdge(u, start, limit) ==
  IF u[start + limit] # "high" THEN start + limit
  ELSE IF limit = 1 THEN start + 2 ELSE start + limit - 1

(* Where the loop of splitPoint goes from p, and where it ends *)
Back(u, entities, start, limit, p) ==
  entityStartBefore(entities, start, lastBreak(u, start, p), limit)

Retreat(u, entities, start, limit) ==
  LET End[p \in 0..Len(u)] ==
        LET q == Back(u, entities, start, limit, p)
        IN IF q <= start THEN windowEdge(u, start, limit)
           ELSE IF q = p THEN p ELSE End[q]
  IN End

splitPoint(u, entities, start, limit) ==
  IF start + limit >= Len(u) THEN Len(u)
  ELSE Retreat(u, entities, start, limit)[windowEdge(u, start, limit)]

clipEntities(entities, from, to) ==
  {[e EXCEPT !.offset = Max({e.offset, from}) - from,
             !.length = Min({Stop(e), to}) - Max({e.offset, from})]
     : e \in {d \in entities : Max({d.offset, from}) < Min({Stop(d), to})}}

(* The ends of the text without the spaces next to them *)
TrimRight(u, from, to) == Max({i \in from..to : i = from \/ u[i] \notin Spaces})
TrimLeft(u, from)      == Min({i \in from..Len(u) : i = Len(u) \/ u[i + 1] \notin Spaces})

(* The chunk from start to end, if there is more than white space *)
ChunkIn(u, entities, start, end) ==
  LET cut == TrimRight(u, start, end)
  IN IF cut = start THEN <<>>
     ELSE <<[from |-> start, to |-> cut, entities |-> clipEntities(entities, start, cut)]>>

ChunksFrom(u, entities, limit) ==
  LET Chunks[start \in 0..Len(u)] ==
        LET end == splitPoint(u, entities, start, limit)
        IN IF start = Len(u) THEN <<>>
           ELSE ChunkIn(u, entities, start, end) \o Chunks[TrimLeft(u, end)]
  IN Chunks

SplitTextWithEntities(u, entities, limit) == ChunksFrom(u, entities, limit)[0]

-----------------------------------------------------------------------------
(* EntitySegments *)

clip(b, max) == Max({0, Min({b, max})})

(* clipRange: a range that is the wrong way round ends up empty. *)
clipRange(e, max) ==
  LET end == clip(Stop(e), max) IN <<Min({clip(e.offset, max), end}), end>>

(* Mutant of snapOutOfSurrogate: boundaries stay where the entity has them. *)
snapNowhere(u, b) == b

snapOutOfSurrogate(u, b) == IF InsidePair(u, b) THEN b - 1 ELSE b

entityBoundaries(entities, u) ==
  {0, Len(u)} \cup
    {snapOutOfSurrogate(u, clipRange(e, Len(u))[i]) : e \in entities, i \in {1, 2}}

coveringEntities(entities, start, end) ==
  {e \in entities : e.offset <= start /\ end <= Stop(e)}

(* The segments, each between two boundaries that have none between them *)
EntitySegments(u, entities) ==
  LET bounds == entityBoundaries(entities, u)
  IN {[from |-> a, to |-> Min({b \in bounds : b > a})] : a \in bounds \ {Len(u)}}

-----------------------------------------------------------------------------
(* What they are for *)

Overlaps(e, c) == Max({e.offset, c.from}) < Min({Stop(e), c.to})

(* Chunks are sendable: not empty, not too long (but for a character of two  *)
(* units where the limit is one), no half of a character, and entities that  *)
(* lie in them.                                                              *)
Sendable(u, chunk, limit) ==
  /\ chunk.from < chunk.to
  /\ \/ chunk.to - chunk.from <= limit
     \/ limit = 1 /\ chunk.to = chunk.from + 2 /\ u[chunk.to] = "low"
  /\ ~InsidePair(u, chunk.from) /\ ~InsidePair(u, chunk.to)
  /\ \A e \in chunk.entities :
       e.offset >= 0 /\ e.length > 0 /\ Stop(e) <= chunk.to - chunk.from

(* Nothing is lost between chunks but white space, and no formatting in them *)
KeepsAll(u, chunks, entities) ==
  /\ \A i \in 1..Len(chunks) - 1 : chunks[i].to <= chunks[i + 1].from
  /\ \A p \in 1..Len(u) : u[p] \notin Spaces =>
       \E i \in 1..Len(chunks) :
         /\ chunks[i].from < p /\ p <= chunks[i].to
         /\ \A e \in entities : e.offset < p /\ p <= Stop(e) =>
              \E d \in chunks[i].entities :
                d.offset < p - chunks[i].from /\ p - chunks[i].from <= Stop(d)

(* A word is cut only by a chunk that no break is in, an entity only if it   *)
(* is longer than a chunk, or if a chunk begins with it: then splitPoint     *)
(* takes the last break of the window even if it is inside.                  *)
CutsOnlyTheLong(u, chunks, entities, limit) ==
  /\ \A i \in 1..Len(chunks) - 1 :
       chunks[i].to = chunks[i + 1].from =>
         \A p \in chunks[i].from + 1..chunks[i].to : u[p] \notin Breaks
  /\ \A e \in entities, i \in 1..Len(chunks), j \in 1..Len(chunks) :
       i < j /\ Overlaps(e, chunks[i]) /\ Overlaps(e, chunks[j])
         => e.length > limit \/ e.offset <= chunks[i].from

SplitsWell(u, entities, limit) ==
  LET chunks == SplitTextWithEntities(u, entities, limit)
  IN /\ \A i \in 1..Len(chunks) : Sendable(u, chunks[i], limit)
     /\ KeepsAll(u, chunks, entities)
     /\ CutsOnlyTheLong(u, chunks, entities, limit)

(* The segments are the text, no character is cut, and an entity that ends   *)
(* at characters is on a segment if it covers any of it, whatever others are *)
(* out of range, inside a character or the wrong way round.                  *)
SegmentsWell(u, entities) ==
  LET segments == EntitySegments(u, entities)
      Proper(e) == ~InsidePair(u, e.offset) /\ ~InsidePair(u, Stop(e))
  IN /\ \A p \in 1..Len(u) : Cardinality({s \in segments : s.from < p /\ p <= s.to}) = 1
     /\ \A s \in segments : ~InsidePair(u, s.from) /\ ~InsidePair(u, s.to)
     /\ \A s \in segments, e \in entities :
          Proper(e) /\ Overlaps(e, s) => e \in coveringEntities(entities, s.from, s.to)
=============================================================================
