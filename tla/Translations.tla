---------------------------- MODULE Translations ----------------------------
(***************************************************************************)
(* I18n (i18n.go): which text a user sees.  A locale is a language and a   *)
(* region, which is Empty in "en"; the empty locale is Empty.  A text is   *)
(* named by where it was added: the locale and the form of the key, plain  *)
(* for the key itself and a plural category for a key with that suffix.    *)
(***************************************************************************)
EXTENDS Integers, FiniteSetsExt

CONSTANTS Empty, Slavic

Language(lang) == [language |-> lang, region |-> Empty]
Complete(lang) == IF lang \in Slavic THEN {"one", "few", "many"} ELSE {"one", "other"}

baseLang(locale) == IF locale = Empty THEN Empty ELSE Language(locale.language)

-----------------------------------------------------------------------------
(* Plural rules *)

Abs(n) == IF n < 0 THEN -n ELSE n

defaultPlural(n) == IF Abs(n) = 1 THEN "one" ELSE "other"

(* Mutant of slavicPlural: 11 is taken for one, 12 to 14 for few. *)
slavicPluralByDigit(n) ==
  LET mod10 == Abs(n) % 10
  IN CASE mod10 = 1 -> "one" [] mod10 \in 2..4 -> "few" [] OTHER -> "many"

slavicPlural(n) ==
  LET mod10  == Abs(n) % 10
      mod100 == Abs(n) % 100
  IN CASE mod10 = 1 /\ mod100 # 11           -> "one"
       [] mod10 \in 2..4 /\ mod100 \notin 12..14 -> "few"
       [] OTHER                              -> "many"

pluralRule(locale, n) ==
  IF locale # Empty /\ locale.language \in Slavic THEN slavicPlural(n) ELSE defaultPlural(n)

-----------------------------------------------------------------------------
(* Lookup; messages is a set of [locale, form]. *)

NotFound == <<>>

(* The first of a sequence's members that is there *)
FirstOf(texts, there) ==
  LET found == {i \in DOMAIN texts : texts[i] \in there}
  IN IF found = {} THEN NotFound ELSE texts[Min(found)]

(* Mutant of Chain: a region's locale is never its language's. *)
ChainExact(locale, defaultLocale) == <<locale, defaultLocale>>

Chain(locale, defaultLocale) == <<locale, baseLang(locale), defaultLocale>>

(* What was added for the empty locale is never looked up. *)
lookup(messages, defaultLocale, locale, form) ==
  LET chain == Chain(locale, defaultLocale)
  IN FirstOf([i \in DOMAIN chain |-> [locale |-> chain[i], form |-> form]],
             {text \in messages : text.locale # Empty})

Translate(messages, defaultLocale, locale) == lookup(messages, defaultLocale, locale, "plain")

(* Each form through all locales, and then the next form *)
TranslateN(messages, defaultLocale, locale, n) ==
  LET forms == <<pluralRule(locale, n), "other", "plain">>
  IN FirstOf([i \in DOMAIN forms |-> lookup(messages, defaultLocale, locale, forms[i])], messages)

(* The locale of an update: saved by SetLocale if the storage has it and      *)
(* answers, else the user's, else the default one                             *)
attachI18n(saved, storageFails, languageCode, defaultLocale) ==
  IF saved # Empty /\ ~storageFails THEN saved
  ELSE IF languageCode # Empty THEN languageCode
  ELSE defaultLocale

-----------------------------------------------------------------------------
(* What they are for *)

(* The rule for Slavic languages as grammar has it: the teens are many,       *)
(* whatever hundreds they come with, and else the last digit decides.         *)
CountsRight(n) ==
  slavicPlural(n) =
    IF \E hundreds \in 0..Abs(n), teen \in 11..14 : Abs(n) = 100 * hundreds + teen THEN "many"
    ELSE <<"many", "one", "few", "few", "few", "many", "many", "many", "many", "many">>
           [1 + CHOOSE digit \in 0..9 : \E tens \in 0..Abs(n) : Abs(n) = 10 * tens + digit]

(* A language with all the forms its rule asks for is never left for another: *)
(* its speakers, of any region, get the form for the number, the region's own *)
(* if it has one.  And nobody sees a bare key if the default locale has       *)
(* "other", whichever forms the user's own language lacks.                    *)
SpeaksRight(messages, defaultLocale, saved, storageFails, languageCode, n) ==
  LET locale == attachI18n(saved, storageFails, languageCode, defaultLocale)
      text   == TranslateN(messages, defaultLocale, locale, n)
      Has(loc, form) == [locale |-> loc, form |-> form] \in messages
  IN /\ (\A form \in Complete(locale.language) : Has(baseLang(locale), form)) =>
          /\ text # NotFound /\ text.locale.language = locale.language
          /\ text.form = IF locale.language \in Slavic THEN slavicPlural(n) ELSE defaultPlural(n)
          /\ Has(locale, text.form) => text.locale = locale
     /\ Has(defaultLocale, "other") => text # NotFound
     /\ Has(defaultLocale, "plain") => Translate(messages, defaultLocale, locale) # NotFound
     /\ text # NotFound => text.locale.language \in {locale.language, defaultLocale.language}
=============================================================================
