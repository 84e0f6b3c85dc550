---------------------------- MODULE MCAlgorithms ----------------------------
(* Bounded inputs of the pure functions, for TLC: an initial state is an     *)
(* input of one of them.                                                     *)
EXTENDS PureParts, SequencesExt

CONSTANTS
  TextLength,  \* of texts, in units
  Limits,      \* of chunks
  Plain, NoText, MaxHtml, MaxBlocks, MaxDepth, MaxColumns \* of trees and rich messages

Format    == INSTANCE Formatting
Rich      == INSTANCE RichMessage

AtMost2(S) == {{}} \cup {{a, b} : a, b \in S}

-----------------------------------------------------------------------------
(* Texts with entities as Telegram sends them, nested, overlapping or apart,  *)
(* and as it should not: out of range, inside a character, negative; trees of *)
(* height 3                                                                   *)

Texts == {u \in SeqOf(Text!Units, TextLength) : Text!IsText(u)}

EntitiesOf(u) == {e \in [offset : 0..Len(u), length : 1..Len(u)] : IsEntityOf(u, e)}

AnyEntities(u) == [offset : -1..Len(u) + 1, length : -1..Len(u) + 1]

SplitInputs ==
  UNION {[of : {"split"}, text : {u}, entities : AtMost2(EntitiesOf(u)), limit : Limits] : u \in Texts}

SegmentInputs ==
  UNION {[of : {"segments"}, text : {u}, entities : AtMost2(AnyEntities(u))]
           : u \in {u \in Texts : Len(u) \in 1..3 /\ Range(u) \cap Text!Spaces = {}}}

TextNodes == [kind : {Plain, "bold"}, text : {<<>>, <<"letter">>, <<"letter", "space">>, <<"high", "low">>}]
Nodes(kinds, children) == [kind : kinds, children : SeqOf(children, 2)]
TreeInputs == [of : {"tree"}, tree : Nodes({Plain, "italic"}, TextNodes \cup Nodes({"bold"}, TextNodes)), limit : Limits]

-----------------------------------------------------------------------------
(* Rich messages: each kind of text; each kind of block with some of them; in *)
(* each kind of block that has blocks up to two of these, and that once more  *)

X == [of |-> "plain", word |-> "x"]
Y == [of |-> "plain", word |-> "y"]
RichTexts ==
  {NoText, X, [of |-> "sequence", spans |-> <<X, [of |-> "styled", tag |-> "b", text |-> Y]>>],
   [of |-> "detected", text |-> X], [of |-> "anchor"], [of |-> "symbol", tag |-> "tg-math", word |-> "x"]}
Captions == {NoText, [text |-> X, credit |-> NoText], [text |-> NoText, credit |-> Y]}

Tables == [of : {"table"}, caption : {NoText, Y},
           rows : {<<>>, << <<>> >>, << <<[tag |-> "td", text |-> X]>>, <<[tag |-> "th", text |-> Y]>> >>,
                   << <<[tag |-> "td", text |-> X], [tag |-> "th", text |-> Y]>> >>}]
LeafBlocks ==
  [of : {"styled"}, tag : {"p"}, text : RichTexts]
    \cup {[of |-> "symbol", tag |-> "tg-math-block", word |-> "z"]}
    \cup [of : {"void", "anchor", "media", "nil"}]
    \cup [of : {"pullquote"}, text : {X}, credit : {NoText, Y}]
    \cup [of : {"authored"}, caption : Captions] \cup Tables

(* Fewer where they are combined *)
FewBlocks == {[of |-> "styled", tag |-> "p", text |-> X], [of |-> "styled", tag |-> "h1", text |-> Y],
              [of |-> "void"], [of |-> "media"]}

Items(contents) == [ordered : BOOLEAN, checkbox : BOOLEAN, blocks : contents]
Holding(contents) ==
  [of : {"container"}, tag : {"blockquote"}, summary : {NoText}, credit : {NoText, Y}, blocks : contents]
    \cup [of : {"container"}, tag : {"details"}, summary : {NoText, X}, credit : {NoText}, blocks : contents]
    \cup [of : {"group"}, tag : {"tg-collage"}, caption : Captions, blocks : contents]
    \cup [of : {"list"}, items : SeqOf(Items(contents), 1)]

One(S) == {<<b>> : b \in S}
Mixed  == {<<b, c>> : b \in Holding(One(FewBlocks) \cup {<<>>}), c \in FewBlocks}
TwoItems == [of : {"list"}, items : [1..2 -> Items(One(FewBlocks))]]

RichInputs ==
  [of : {"rich"}, blocks : SeqOf(LeafBlocks, 2) \cup Mixed \cup One(TwoItems)
                             \cup One(Holding(SeqOf(FewBlocks, 3) \cup One(LeafBlocks)))
                             \cup One(Holding(One(Holding(SeqOf(FewBlocks, 1)))))
                             \cup One(Holding(One(Holding(One(Holding({<<>>, <<[of |-> "void"]>>}))))))]

-----------------------------------------------------------------------------
(* Schemas with up to two fields, prefixes one of which begins with another;  *)
(* pages of up to 11                                                          *)

PrefixStrings == {<<"a">>, <<"a", "b">>, <<"b">>}
ValuesOf(type) ==
  CASE type = "string" -> {<<>>, <<"a">>, <<":">>, <<"p", "g">>, <<"1">>}
    [] type = "bool"   -> BOOLEAN
    [] type = "int"    -> -MaxInt - 1..MaxInt

Schemas == [prefix : PrefixStrings, fields : SeqOf({"string", "int"}, 2) \cup {<<"bool">>}]

PayloadsOf(fields) ==
  CASE Len(fields) = 0 -> {<<>>}
    [] Len(fields) = 1 -> {<<v>> : v \in ValuesOf(fields[1])}
    [] Len(fields) = 2 -> {<<v, w>> : v \in ValuesOf(fields[1]), w \in ValuesOf(fields[2])}

PackInput ==
  \E cd, other \in Schemas : \E v \in PayloadsOf(cd.fields) :
    input = [of |-> "pack", cd |-> cd, other |-> other, value |-> v]

PageInputs ==
  [of : {"page"}, prefix : PrefixStrings \cup {<<"a", ":", "p", "g">>}, other : PrefixStrings \cup {<<"a", ":", "p", "g">>},
   page : -1..12, total : 0..11]

-----------------------------------------------------------------------------

KeyboardInputs ==
  [of : {"keyboard"},
   calls : SeqOf([is : {"Row", "Add"}, n : 0..2] \cup {[is |-> "Insert", n |-> 1]}, 4),
   sizes : SeqOf(0..2, 2)]

(* Numbers; translations in three locales, one of them a region's *)

NumberInputs == [of : {"number"}, n : -225..225]

English == [language |-> "en", region |-> Empty]
Russian == [language |-> "ru", region |-> Empty]
Russia  == [language |-> "ru", region |-> "RU"]

Added(locale, forms) == {[locale |-> locale, form |-> form] : form \in forms}
RussianForms == {{}, {"plain"}, {"other"}, {"one", "other"}, {"one", "few", "many"}, {"one", "few", "many", "other"}}
Catalogs ==
  {Added(English, en) \cup Added(Russian, ru) \cup Added(Russia, region) :
     en \in {{}, {"plain"}, {"one", "other"}}, ru \in RussianForms, region \in {{}, {"plain"}, {"few"}}}
UserLocales == {Empty, [language |-> "en", region |-> "GB"], Russia, Russian, [language |-> "fr", region |-> Empty]}

LocaleInputs ==
  [of : {"locale"}, messages : Catalogs, defaultLocale : {English, Russian},
   saved : {Empty, Russian}, storageFails : BOOLEAN, languageCode : UserLocales, n : {-1, 2, 5, 11, 21}]

-----------------------------------------------------------------------------
(* Commands with a mention or not and arguments that look like either; what   *)
(* becomes of a member                                                        *)

Names == {<<"start">>, <<"START">>, <<"stop">>}
CommandInputs ==
  [of : {"command"}, command : Names, mention : {<<>>, <<"bot">>, <<"other">>},
   args : SeqOf({"start", "@", "/", " "}, 3), name : Names, botUsernames : {{<<"bot">>, <<"other">>}}]

MemberInputs == [of : {"member"}, history : UNION {[1..n -> Filter!Statuses] : n \in 1..4}]

InputInit ==
  \/ input \in NumberInputs \/ input \in LocaleInputs \/ input \in CommandInputs \/ input \in MemberInputs
  \/ input \in SplitInputs \/ input \in SegmentInputs \/ input \in TreeInputs
  \/ input \in RichInputs \/ PackInput \/ input \in PageInputs
  \/ input \in KeyboardInputs

-----------------------------------------------------------------------------

(* Messages built from trees are rendered as the trees say. *)
RendersRight ==
  /\ input.of = "tree" => Format!Survives(input.tree, input.limit)
  /\ input.of = "rich" => Rich!RendersWell(input.blocks)
=============================================================================
