------------------------------- MODULE Filters -------------------------------
(***************************************************************************)
(* Filters (filters.go) with a question of their own: which bot a command  *)
(* is for (ParseCommand, FilterCommand), and what a chat member's old and  *)
(* new status mean (FilterJoined, ...).  A text is a sequence of words and *)
(* the marks "/", "@" and " ".                                             *)
(***************************************************************************)
EXTENDS Integers, SequencesExt

CONSTANT Lower  \* Lower[word], for the words that have an upper case

Fold(word) == IF word \in DOMAIN Lower THEN Lower[word] ELSE word
EqualFold(s, t) == Len(s) = Len(t) /\ \A i \in DOMAIN s : Fold(s[i]) = Fold(t[i])

(* strings.Index, strings.Cut and strings.TrimSpace *)
Index(s, mark)  == SelectInSeq(s, LAMBDA w : w = mark)
Before(s, mark) == IF mark \in Range(s) THEN SubSeq(s, 1, Index(s, mark) - 1) ELSE s
After(s, mark)  == IF mark \in Range(s) THEN SubSeq(s, Index(s, mark) + 1, Len(s)) ELSE <<>>

TrimSpace(s) ==
  LET words == {i \in DOMAIN s : s[i] # " "}
  IN IF words = {} THEN <<>>
     ELSE SubSeq(s, CHOOSE i \in words : \A j \in words : i <= j, CHOOSE i \in words : \A j \in words : i >= j)

NoCommand == [command |-> <<>>, mention |-> <<>>, args |-> <<>>]

(* Mutant of ParseCommand: the mention is cut off before the arguments. *)
ParseCommandMentionFirst(text) ==
  IF text = <<>> \/ Head(text) # "/" THEN NoCommand
  ELSE [command |-> Before(Tail(text), "@"),
        mention |-> Before(After(Tail(text), "@"), " "),
        args    |-> TrimSpace(After(Tail(text), " "))]

(* NoCommand stands for false; a command has a name. *)
ParseCommand(text) ==
  LET head == Before(Tail(text), " ")
  IN IF text = <<>> \/ Head(text) # "/" \/ Before(head, "@") = <<>> THEN NoCommand
     ELSE [command |-> Before(head, "@"),
           mention |-> After(head, "@"),
           args    |-> TrimSpace(After(Tail(text), " "))]

FilterCommand(text, command, botUsername) ==
  LET cmd == ParseCommand(text)
  IN /\ cmd # NoCommand /\ EqualFold(cmd.command, command)
     /\ cmd.mention = <<>> \/ EqualFold(cmd.mention, botUsername)

FilterCommandStartDeepLink(text, botUsername) ==
  FilterCommand(text, <<"start">>, botUsername) /\ ParseCommand(text).args # <<>>

-----------------------------------------------------------------------------
(* A member is one of these; a restricted one may be in the chat or not. *)

Statuses == {"creator", "administrator", "member", "restricted, in", "restricted, out", "left", "kicked"}

ChatMemberIsMember(status) == status \in {"creator", "administrator", "member", "restricted, in"}
chatMemberIsAdmin(status)  == status \in {"creator", "administrator"}

(* Mutant of FilterJoined: restricted users are all taken for members. *)
FilterJoinedUnrestricted(old, new) == old \in {"left", "kicked"} /\ ChatMemberIsMember(new)

FilterJoined(old, new)          == ~ChatMemberIsMember(old) /\ ChatMemberIsMember(new)
FilterLeft(old, new)            == ChatMemberIsMember(old) /\ ~ChatMemberIsMember(new)
FilterPromotedToAdmin(old, new) == ~chatMemberIsAdmin(old) /\ chatMemberIsAdmin(new)

(* Of a private chat, where the member is the bot itself *)
FilterBotBlocked(new)        == new = "kicked"
FilterBotUnblocked(old, new) == old = "kicked" /\ ChatMemberIsMember(new)

-----------------------------------------------------------------------------
(* What they are for *)

(* A command comes back from its text as it was written, and of the bots of a *)
(* group only the one it mentions answers it, or each if it mentions none;    *)
(* the deep link's filter agrees with the arguments a handler reads.          *)
CommandsRight(command, mention, args, name, botUsernames) ==
  LET text == <<"/">> \o command \o (IF mention = <<>> THEN <<>> ELSE <<"@">> \o mention)
                \o (IF args = <<>> THEN <<>> ELSE <<" ">> \o args)
      answering == {bot \in botUsernames : FilterCommand(text, name, bot)}
  IN /\ ParseCommand(text) = [command |-> command, mention |-> mention, args |-> TrimSpace(args)]
     /\ answering = IF ~EqualFold(command, name) THEN {}
                    ELSE IF mention = <<>> THEN botUsernames
                    ELSE {bot \in botUsernames : EqualFold(bot, mention)}
     /\ \A bot \in botUsernames :
          FilterCommandStartDeepLink(text, bot) <=>
            FilterCommand(text, <<"start">>, bot) /\ TrimSpace(args) # <<>>

(* Who keeps a list of members by FilterJoined and FilterLeft has the member  *)
(* on it or not after each of the changes.                                    *)
Listed(history) ==
  LET OnList[i \in 1..Len(history)] ==
        IF i = 1 THEN ChatMemberIsMember(history[1])
        ELSE /\ OnList[i - 1] \/ FilterJoined(history[i - 1], history[i])
             /\ ~FilterLeft(history[i - 1], history[i])
  IN OnList

(* And of those to write to, by FilterBotBlocked and FilterBotUnblocked *)
Writable(history) ==
  LET OnList[i \in 1..Len(history)] ==
        IF i = 1 THEN history[1] = "member"
        ELSE /\ OnList[i - 1] \/ FilterBotUnblocked(history[i - 1], history[i])
             /\ ~FilterBotBlocked(history[i])
  IN OnList

(* Whoever keeps such a list, or one of the admins promoted, is never wrong,  *)
(* whatever became of a member in what order.                                 *)
FollowsMembers(history) ==
  LET now == history[Len(history)]
      Promotions == {i \in 2..Len(history) : FilterPromotedToAdmin(history[i - 1], history[i])}
  IN /\ Listed(history)[Len(history)] = ChatMemberIsMember(now)
     /\ ~(\E i \in 2..Len(history) : FilterJoined(history[i - 1], history[i]) /\ FilterLeft(history[i - 1], history[i]))
     /\ chatMemberIsAdmin(now) => chatMemberIsAdmin(history[1]) \/ Promotions # {}
     /\ Range(history) \subseteq {"member", "kicked"} => Writable(history)[Len(history)] = (now = "member")
=============================================================================
