----------------------------- MODULE PureParts -----------------------------
(***************************************************************************)
(* The parts of the bot that are functions, and what they promise: each    *)
(* state is an input of one of them.  MCAlgorithms has bounded inputs.     *)
(***************************************************************************)
EXTENDS Integers, Sequences

CONSTANTS
  Empty, Languages, Regions, Slavic,      \* Translations
  Words, Lower,                           \* Filters
  Letters, MaxCallbackDataLength, MaxInt  \* Callbacks

VARIABLE input

Text     == INSTANCE Text
Locales  == INSTANCE Translations
Filter   == INSTANCE Filters
Callback == INSTANCE Callbacks
Keyboard == INSTANCE Keyboards

ASSUME EmptyAssumption == Empty \notin [language : Languages, region : Regions \cup {Empty}]
ASSUME MaxIntAssumption == MaxInt \in Nat

-----------------------------------------------------------------------------
(* Inputs *)

(* Texts to split, with entities as Telegram sends them, in the text and      *)
(* ending at characters; and texts with whatever entities to walk.            *)

Entity == [offset : Int, length : Int]

IsEntityOf(u, e) ==
  /\ e.offset >= 0 /\ e.length > 0 /\ Text!Stop(e) <= Len(u)
  /\ ~Text!InsidePair(u, e.offset) /\ ~Text!InsidePair(u, Text!Stop(e))

SplitInput   == [of : {"split"}, text : Seq(Text!Units), entities : SUBSET Entity, limit : Nat \ {0}]
SegmentInput == [of : {"segments"}, text : Seq(Text!Units), entities : SUBSET Entity]

(* Numbers; what translators may have added in which locales, for users of    *)
(* these and others                                                           *)

NumberInput == [of : {"number"}, n : Int]

Locale == [language : Languages, region : Regions \cup {Empty}]
Forms  == {"plain", "one", "few", "many", "other"}

LocaleInput ==
  [of : {"locale"}, messages : SUBSET [locale : Locale \cup {Empty}, form : Forms],
   defaultLocale : Locale, saved : Locale \cup {Empty}, storageFails : BOOLEAN,
   languageCode : Locale \cup {Empty}, n : Int]

(* Commands with a mention or not, of bots in one group, and any arguments;   *)
(* what becomes of a member                                                   *)

Word == Words \cup {"/", "@", " "}

CommandInput ==
  [of : {"command"}, command : Seq(Word \ {"@", " "}) \ {<<>>}, mention : Seq(Word \ {" "}),
   args : Seq(Word), name : Seq(Word), botUsernames : SUBSET Seq(Word)]

MemberInput == [of : {"member"}, history : Seq(Filter!Statuses) \ {<<>>}]

(* Schemas and paginations, which are given any prefix, and other ones next   *)
(* to them; what a schema is for; calls of a keyboard's builder               *)

Char == Letters \cup Callback!Range(Callback!Digits) \cup {Callback!Sep, "-", "p", "g", "c", "u", "r", "true", "false"}

Schema == [prefix : Seq(Char \ {Callback!Sep}) \ {<<>>}, fields : Seq({"string", "bool", "int"})]

IsValueOf(type, value) ==
  CASE type = "string" -> value \in Seq(Char)
    [] type = "bool"   -> value \in BOOLEAN
    [] type = "int"    -> value \in -MaxInt - 1..MaxInt

IsPayload(cd, value) ==
  /\ value = [i \in DOMAIN cd.fields |-> value[i]]
  /\ \A i \in DOMAIN cd.fields : IsValueOf(cd.fields[i], value[i])

PageInput == [of : {"page"}, prefix : Seq(Char), other : Seq(Char), page : Int, total : Int]

BuilderCall == [is : {"Row", "Add"}, n : Nat] \cup [is : {"Insert"}, n : {1}]

KeyboardInput == [of : {"keyboard"}, calls : Seq(BuilderCall), sizes : Seq(Int)]

Given ==
  /\ input.of = "split" =>
       /\ input \in SplitInput /\ Text!IsText(input.text)
       /\ \A e \in input.entities : IsEntityOf(input.text, e)
  /\ input.of = "segments" => input \in SegmentInput /\ Text!IsText(input.text)
  /\ input.of = "number"   => input \in NumberInput
  /\ input.of = "locale"   => input \in LocaleInput
  /\ input.of = "command"  => input \in CommandInput
  /\ input.of = "member"   => input \in MemberInput
  /\ input.of = "pack"     => input.cd \in Schema /\ input.other \in Schema /\ IsPayload(input.cd, input.value)
  /\ input.of = "page"     => input \in PageInput
  /\ input.of = "keyboard" => input \in KeyboardInput

-----------------------------------------------------------------------------
(* What the functions promise *)

(* A text with entities arrives whole, formatted as it was and never cut      *)
(* inside a character, in chunks that may be sent, and its segments are it.   *)
TextSurvives ==
  /\ input.of = "split" => Text!SplitsWell(input.text, input.entities, input.limit)
  /\ input.of = "segments" => Text!SegmentsWell(input.text, input.entities)

(* Which text a user sees: the form for the number, in the user's language if *)
(* it is translated, and a text at all if the default locale has one.         *)
TextsFitTheUser ==
  /\ input.of = "number" => Locales!CountsRight(input.n)
  /\ input.of = "locale" =>
       Locales!SpeaksRight(input.messages, input.defaultLocale, input.saved, input.storageFails, input.languageCode, input.n)

(* Which bot answers a command, with which arguments, and who is taken for a  *)
(* member of a chat.                                                          *)
FiltersRight ==
  /\ input.of = "command" =>
       Filter!CommandsRight(input.command, input.mention, input.args, input.name, input.botUsernames)
  /\ input.of = "member" => Filter!FollowsMembers(input.history)

(* A button's tap reaches the handler it was made for and no other, with the  *)
(* values it was made with, and keyboards have all their buttons in order.    *)
ButtonsWork ==
  /\ input.of = "keyboard" => Keyboard!KeepsButtons(input.calls, input.sizes)
  /\ input.of = "pack" => Callback!PacksRight(input.cd, input.other, input.value)
  /\ input.of = "page" => Callback!PagesRight(input.prefix, input.other, input.page, input.total)
=============================================================================
