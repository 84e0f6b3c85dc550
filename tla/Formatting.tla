----------------------------- MODULE Formatting -----------------------------
(***************************************************************************)
(* Messages built from nodes (format_entities.go), split and taken apart   *)
(* again: Node.Render makes a tree a text with entities, and the way a     *)
(* message is sent and read back goes through SplitTextWithEntities and    *)
(* EntitySegments.  A node is a leaf with a text or has children; its kind *)
(* is Plain if it only groups.                                             *)
(***************************************************************************)
EXTENDS Text, SequencesExt

CONSTANT Plain  \* the kind of nodes without formatting

IsLeaf(n) == "text" \in DOMAIN n

EntityOf(kind, offset, length) ==
  IF kind = Plain THEN {} ELSE {[kind |-> kind, offset |-> offset, length |-> length]}

(* Mutant of next: a node starts where its parent does. *)
nextInPlace(pos, text) == pos

(* The position after a node that was rendered at pos *)
next(pos, text) == pos + Len(text)

RECURSIVE render(_, _)
render(n, offset) ==
  LET Add(done, child) ==
        LET part == render(child, done.pos)
        IN [text     |-> done.text \o part.text,
            entities |-> done.entities \cup part.entities,
            pos      |-> next(done.pos, part.text)]
      inner == IF IsLeaf(n) THEN [text |-> n.text, entities |-> {}, pos |-> next(offset, n.text)]
               ELSE FoldLeft(Add, [text |-> <<>>, entities |-> {}, pos |-> offset], n.children)
  IN [text     |-> inner.text,
      entities |-> inner.entities \cup EntityOf(n.kind, offset, inner.pos - offset)]

Render(n) == render(n, 0)

-----------------------------------------------------------------------------

(* What a tree says of each unit of its text: the kinds of the nodes above it *)
RECURSIVE KindsIn(_)
KindsIn(n) ==
  LET inner == IF IsLeaf(n) THEN [i \in 1..Len(n.text) |-> {}]
               ELSE FoldLeft(LAMBDA done, child : done \o KindsIn(child), <<>>, n.children)
  IN [i \in 1..Len(inner) |-> inner[i] \cup ({n.kind} \ {Plain})]

(* Whoever gets the message in chunks of the limit and walks the segments of  *)
(* each sees every unit formatted as the tree has it, no more and no less.    *)
Survives(n, limit) ==
  LET message == Render(n)
      chunks  == SplitTextWithEntities(message.text, message.entities, limit)
  IN \A i \in 1..Len(chunks) :
       LET text == SubSeq(message.text, chunks[i].from + 1, chunks[i].to)
       IN \A s \in EntitySegments(text, chunks[i].entities) :
            LET kinds == {e.kind : e \in coveringEntities(chunks[i].entities, s.from, s.to)}
            IN \A p \in s.from + 1..s.to : kinds = KindsIn(n)[chunks[i].from + p]
=============================================================================
