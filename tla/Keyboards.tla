------------------------------ MODULE Keyboards ------------------------------
(***************************************************************************)
(* The builders InlineKeyboard and ReplyKeyboard (inline_keyboard.go,      *)
(* keyboard.go), which are alike: calls of Row, Add and Insert, and then   *)
(* Adjust or not, and Build.                                               *)
(***************************************************************************)
EXTENDS Integers, SequencesExt

NewInlineKeyboard == [rows |-> <<>>, currentRow |-> <<>>]

finishRow(kb) ==
  IF kb.currentRow = <<>> THEN kb
  ELSE [rows |-> Append(kb.rows, kb.currentRow), currentRow |-> <<>>]

Row(kb, buttons) ==
  IF buttons = <<>> THEN finishRow(kb) ELSE [finishRow(kb) EXCEPT !.rows = Append(@, buttons)]

Add(kb, buttons) == [kb EXCEPT !.rows = @ \o [i \in DOMAIN buttons |-> <<buttons[i]>>]]

Insert(kb, button) == [kb EXCEPT !.currentRow = Append(@, button)]

(* Mutant of Build: the row under construction is forgotten. *)
BuildRows(kb) == kb.rows

Build(kb) == finishRow(kb).rows

-----------------------------------------------------------------------------

(* Mutant of size: the sizes start again when they are used up. *)
sizeCyclic(sizes, i) ==
  IF sizes = <<>> THEN 1 ELSE LET s == sizes[((i - 1) % Len(sizes)) + 1] IN IF s > 0 THEN s ELSE 1

(* The size of row i: the last one repeats, none or no positive one is 1. *)
size(sizes, i) ==
  IF sizes = <<>> THEN 1
  ELSE LET s == sizes[IF i > Len(sizes) THEN Len(sizes) ELSE i] IN IF s > 0 THEN s ELSE 1

(* The loop: the rows so far and the items left after i turns of it, which   *)
(* are enough as each takes an item                                          *)
adjustRows(items, sizes) ==
  LET Turn[i \in 0..Len(items)] ==
        IF i = 0 THEN [rows |-> <<>>, items |-> items]
        ELSE LET so == Turn[i - 1]
                 n  == IF size(sizes, i) < Len(so.items) THEN size(sizes, i) ELSE Len(so.items)
             IN IF so.items = <<>> THEN so
                ELSE [rows  |-> Append(so.rows, SubSeq(so.items, 1, n)),
                      items |-> SubSeq(so.items, n + 1, Len(so.items))]
  IN Turn[Len(items)].rows

Adjust(kb, sizes) ==
  [rows |-> adjustRows(FlattenSeq(kb.rows) \o kb.currentRow, sizes), currentRow |-> <<>>]

-----------------------------------------------------------------------------

(* A call takes the next n buttons. *)
Apply(kb, call, first) ==
  LET buttons == [i \in 1..call.n |-> first + i - 1]
  IN CASE call.is = "Row"    -> Row(kb, buttons)
       [] call.is = "Add"    -> Add(kb, buttons)
       [] call.is = "Insert" -> Insert(kb, first)

After(calls) ==
  LET Built[i \in 0..Len(calls)] ==
        IF i = 0 THEN [kb |-> NewInlineKeyboard, next |-> 1]
        ELSE LET built == Built[i - 1]
             IN [kb |-> Apply(built.kb, calls[i], built.next), next |-> built.next + calls[i].n]
  IN Built[Len(calls)]

(* Every button given to the builder is in the keyboard once, no row is       *)
(* empty, and the buttons are in the order they were given, in each row, and  *)
(* altogether unless Add overtook a row under construction.  Adjust keeps the *)
(* order of before and gives every row but the last its size.                 *)
KeepsButtons(calls, sizes) ==
  LET built    == After(calls)
      rows     == Build(built.kb)
      adjusted == Build(Adjust(built.kb, sizes))
      Ascends(s) == \A i, j \in 1..Len(s) : i < j => s[i] < s[j]
      Overtaken == \E i, j \in 1..Len(calls) : i < j /\ calls[i].is = "Insert" /\ calls[j].is = "Add"
  IN /\ \A rs \in {rows, adjusted} :
          /\ Len(FlattenSeq(rs)) = built.next - 1
          /\ Range(FlattenSeq(rs)) = 1..built.next - 1
          /\ \A i \in 1..Len(rs) : rs[i] # <<>>
     /\ \A i \in 1..Len(rows) : Ascends(rows[i])
     /\ Overtaken \/ Ascends(FlattenSeq(rows))
     /\ FlattenSeq(adjusted) = FlattenSeq(built.kb.rows) \o built.kb.currentRow
     /\ \A i \in 1..Len(adjusted) - 1 :
          Len(adjusted[i]) = IF sizes = <<>> THEN 1
                             ELSE LET s == IF i < Len(sizes) THEN sizes[i] ELSE Last(sizes)
                                  IN IF s > 0 THEN s ELSE 1
=============================================================================
