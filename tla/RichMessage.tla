----------------------------- MODULE RichMessage -----------------------------
(***************************************************************************)
(* Rich messages: RenderRichMessage (richmessage_builder.go), which makes  *)
(* HTML of a tree of blocks and texts within Telegram's limits, and        *)
(* PlainText (richmessage_reader.go), which makes words of it.             *)
(*                                                                         *)
(* Types that are treated alike are one: a "styled" text or block has a    *)
(* tag around its text, a "symbol" around a word that is not further       *)
(* formatted, a "container" around blocks, with a text before and a text   *)
(* after them.  HTML is the sequence of what is written: tags that open,   *)
(* tags that close, tags that do both and words.                           *)
(***************************************************************************)
EXTENDS Integers, SequencesExt, FiniteSetsExt

CONSTANTS
  NoText,    \* nil
  MaxHtml,   \* maxRichMessageChars, here of tags and words
  MaxBlocks, \* maxRichMessageBlocks
  MaxDepth,  \* maxRichMessageDepth
  MaxColumns \* maxRichMessageTableColumn

Open(tag)  == [is |-> "open", tag |-> tag]
Close(tag) == [is |-> "close", tag |-> tag]
Word(w)    == [is |-> "word", word |-> w]
Void       == [is |-> "void"]

-----------------------------------------------------------------------------
(* Rendering: what has been written, the blocks so far, and whether it has   *)
(* failed, after which nothing matters.                                      *)

Blank == [html |-> <<>>, blocks |-> 0, failed |-> FALSE]

Put(out, event) == [out EXCEPT !.html = Append(@, event)]
Fail(out)       == [out EXCEPT !.failed = TRUE]

RECURSIVE renderRichText(_, _)

(* Mutant of wrapText: the tag is not closed. *)
wrapTextOpen(out, tag, text) == renderRichText(Put(out, Open(tag)), text)

wrapText(out, tag, text) ==
  Put(renderRichText(Put(out, Open(tag)), text), Close(tag))

renderRichText(out, t) ==
  CASE t = NoText         -> out
    [] t.of = "plain"     -> Put(out, Word(t.word))
    [] t.of = "sequence"  -> FoldLeft(renderRichText, out, t.spans)
    [] t.of = "styled"    -> wrapText(out, t.tag, t.text)
    [] t.of = "symbol"    -> wrapText(out, t.tag, [of |-> "plain", word |-> t.word])
    [] t.of = "detected"  -> renderRichText(out, t.text)
    [] t.of = "anchor"    -> wrapText(out, "a", NoText)

(* Optional texts have a tag only if they are there: cites and captions *)
renderOptional(out, tag, text) ==
  IF text = NoText THEN out ELSE wrapText(out, tag, text)

renderFigcaption(out, caption) ==
  IF caption = NoText THEN out
  ELSE Put(renderOptional(renderRichText(Put(out, Open("figcaption")), caption.text),
                          "cite", caption.credit),
           Close("figcaption"))

renderAuthoredMedia(out, b) ==
  IF b.caption = NoText THEN Put(out, Void)
  ELSE Put(renderFigcaption(Put(Put(out, Open("figure")), Void), b.caption), Close("figure"))

renderRichTable(out, b) ==
  LET Cell(o, cell) == wrapText(o, cell.tag, cell.text)
      Row(o, row) == IF Len(row) > MaxColumns THEN Fail(o)
                     ELSE Put(FoldLeft(Cell, Put(o, Open("tr")), row), Close("tr"))
  IN Put(FoldLeft(Row, renderOptional(Put(out, Open("table")), "caption", b.caption), b.rows),
         Close("table"))

(* Mutant of Counts: only blocks on the top are counted. *)
CountsTop(out, depth) == IF depth = 0 THEN [out EXCEPT !.blocks = @ + 1] ELSE out

Counts(out, depth) == [out EXCEPT !.blocks = @ + 1]

(* Numbered if an item is and none has a box to check *)
listTag(items) ==
  IF (\E i \in 1..Len(items) : items[i].ordered) /\ ~\E i \in 1..Len(items) : items[i].checkbox
  THEN "ol" ELSE "ul"

RECURSIVE renderRichBlock(_, _, _)

renderBlocks(out, blocks, depth) ==
  FoldLeft(LAMBDA o, b : renderRichBlock(o, b, depth), out, blocks)

renderRichList(out, b, depth) ==
  LET Item(o, item) ==
        LET li == IF item.checkbox THEN Put(Put(o, Open("li")), Void) ELSE Put(o, Open("li"))
        IN Put(renderBlocks(li, item.blocks, depth + 1), Close("li"))
      tag == listTag(b.items)
  IN Put(FoldLeft(Item, Put(out, Open(tag)), b.items), Close(tag))

(* Details have a summary first, block quotations may have a credit last. *)
renderContainer(out, b, depth) ==
  LET opened == Put(out, Open(b.tag))
      headed == IF b.tag = "details" THEN wrapText(opened, "summary", b.summary) ELSE opened
  IN Put(renderOptional(renderBlocks(headed, b.blocks, depth + 1), "cite", b.credit), Close(b.tag))

renderMediaGroup(out, b, depth) ==
  Put(renderFigcaption(renderBlocks(Put(out, Open(b.tag)), b.blocks, depth + 1), b.caption),
      Close(b.tag))

renderRichBlock(out, b, depth) ==
  LET counted == Counts(out, depth) IN
  IF out.failed \/ depth > MaxDepth \/ counted.blocks > MaxBlocks THEN Fail(out)
  ELSE CASE b.of = "styled"    -> wrapText(counted, b.tag, b.text)
         [] b.of = "symbol"    -> wrapText(counted, b.tag, [of |-> "plain", word |-> b.word])
         [] b.of = "void"      -> Put(counted, Void)
         [] b.of = "anchor"    -> wrapText(counted, "a", NoText)
         [] b.of = "pullquote" -> Put(renderOptional(renderRichText(Put(counted, Open("aside")), b.text),
                                                     "cite", b.credit),
                                      Close("aside"))
         [] b.of = "list"      -> renderRichList(counted, b, depth)
         [] b.of = "container" -> renderContainer(counted, b, depth)
         [] b.of = "table"     -> renderRichTable(counted, b)
         [] b.of = "authored"  -> renderAuthoredMedia(counted, b)
         [] b.of = "group"     -> renderMediaGroup(counted, b, depth)
         [] b.of \in {"media", "nil"} -> Fail(counted)

RenderRichMessage(blocks) ==
  LET out == renderBlocks(Blank, blocks, 0)
  IN IF Len(out.html) > MaxHtml THEN Fail(out) ELSE out

-----------------------------------------------------------------------------
(* Reading: the words, without the marks for what has none (dividers, maps,   *)
(* media), for items and for lines                                           *)

RECURSIVE RichTextPlainText(_)
RichTextPlainText(t) ==
  CASE t = NoText -> <<>>
    [] t.of \in {"plain", "symbol"}    -> <<t.word>>
    [] t.of = "sequence"               -> FoldLeft(LAMBDA ws, s : ws \o RichTextPlainText(s), <<>>, t.spans)
    [] t.of \in {"styled", "detected"} -> RichTextPlainText(t.text)
    [] t.of = "anchor"                 -> <<>>

RECURSIVE RichBlockPlainText(_)

(* richBlocksPlainText drops empty lines. *)
richBlocksPlainText(blocks) == FoldLeft(LAMBDA ws, b : ws \o RichBlockPlainText(b), <<>>, blocks)

richTablePlainText(b) ==
  LET Cells(ws, row) == FoldLeft(LAMBDA vs, cell : vs \o RichTextPlainText(cell.text), ws, row)
  IN FoldLeft(Cells, <<>>, b.rows)

RichBlockPlainText(b) ==
  CASE b.of = "styled"    -> RichTextPlainText(b.text)
    [] b.of = "symbol"    -> <<b.word>>
    [] b.of = "pullquote" -> RichTextPlainText(b.text) \o RichTextPlainText(b.credit)
    [] b.of = "list"      -> FoldLeft(LAMBDA ws, item : ws \o richBlocksPlainText(item.blocks), <<>>, b.items)
    [] b.of = "container" -> RichTextPlainText(b.summary) \o richBlocksPlainText(b.blocks)
                               \o RichTextPlainText(b.credit)
    [] b.of = "table"     -> richTablePlainText(b)
    [] b.of \in {"void", "anchor", "authored", "group", "media", "nil"} -> <<>>

-----------------------------------------------------------------------------
(* What they are for *)

(* Blocks that are directly in a block *)
Inner(b) ==
  CASE b.of \in {"container", "group"} -> b.blocks
    [] b.of = "list" -> FoldLeft(LAMBDA bs, item : bs \o item.blocks, <<>>, b.items)
    [] OTHER         -> <<>>

RECURSIVE Below(_)
Below(blocks) == FoldLeft(LAMBDA bs, b : bs \o <<b>> \o Below(Inner(b)), <<>>, blocks)

RECURSIVE Height(_)
Height(blocks) == Max({0} \cup {1 + Height(Inner(blocks[i])) : i \in 1..Len(blocks)})

(* What remains when tags that close are taken away with those they close *)
RECURSIVE Unclosed(_, _)
Unclosed(html, open) ==
  IF html = <<>> THEN open
  ELSE CASE Head(html).is = "open"  -> Unclosed(Tail(html), <<Head(html).tag>> \o open)
         [] Head(html).is = "close" ->
              IF open # <<>> /\ Head(open) = Head(html).tag THEN Unclosed(Tail(html), Tail(open))
              ELSE <<"wrong">>
         [] OTHER -> Unclosed(Tail(html), open)

WordsOf(html) ==
  LET words == SelectSeq(html, LAMBDA e : e.is = "word") IN [i \in 1..Len(words) |-> words[i].word]

(* Captions, and what is in a group, have words that only rendering shows. *)
Abridged(b) == b.of = "group" \/ (b.of \in {"authored", "table"} /\ b.caption # NoText)

(* Media that was received has no URL to render. *)
Refused(b) ==
  \/ b.of \in {"media", "nil"}
  \/ b.of = "table" /\ \E i \in 1..Len(b.rows) : Len(b.rows[i]) > MaxColumns

(* A message is refused if it has what cannot be rendered or is beyond a     *)
(* limit, blocks counted wherever they are, and only then.  Of a message     *)
(* with MaxDepth + 1 levels nothing is said: the comments allow MaxDepth,    *)
(* the code, which counts from 0, one more.  A message that is not refused   *)
(* has its tags in order, and the words PlainText reads in the tree, in the  *)
(* order PlainText reads them.                                               *)
RendersWell(blocks) ==
  LET out     == RenderRichMessage(blocks)
      all     == Below(blocks)
      TooMuch == \/ \E i \in 1..Len(all) : Refused(all[i])
                 \/ Len(all) > MaxBlocks \/ Len(out.html) > MaxHtml
  IN /\ TooMuch \/ Height(blocks) > MaxDepth + 1 => out.failed
     /\ out.failed => TooMuch \/ Height(blocks) > MaxDepth
     /\ out.failed \/
          /\ Unclosed(out.html, <<>>) = <<>>
          /\ (\E i \in 1..Len(all) : Abridged(all[i]))
               \/ WordsOf(out.html) = richBlocksPlainText(blocks)
=============================================================================
