------------------------------ MODULE Identity ------------------------------
(***************************************************************************)
(* Which conversation an update belongs to: identityTriple and storageKey  *)
(* (ctx.go), Sender (sender.go), FSMKeyStrategy (fsm.go), and the entity   *)
(* sugar Message.FSM and CallbackQuery.FSM.  An update is reduced to the   *)
(* identities it carries: [kind, chat, user, thread, actor], Zero where it *)
(* has none.  actor is the chat somebody acts as: SenderChat of a message, *)
(* ActorChat of a reaction, VoterChat of a poll answer.                    *)
(***************************************************************************)

CONSTANT Zero  \* the id 0, which Telegram never uses

Strategies == {"ChatUser", "Chat", "GlobalUser", "UserInTopic"}

StorageKey(chat, user, thread) == [ChatID |-> chat, UserID |-> user, ThreadID |-> thread]

apply(strategy, chat, user, thread) ==
  CASE strategy = "Chat"        -> StorageKey(chat, Zero, Zero)
    [] strategy = "GlobalUser"  -> StorageKey(Zero, user, Zero)
    [] strategy = "UserInTopic" -> StorageKey(chat, user, thread)
    [] OTHER                    -> StorageKey(chat, user, Zero)

(* CallbackQuery.ChatID falls back to the clicking user's private chat.      *)
ChatOf(u) ==
  CASE u.kind = "callback" /\ u.chat = Zero -> u.user
    [] u.kind = "poll_answer"               -> u.actor
    [] OTHER                                -> u.chat

ThreadOf(u) == IF u.kind \in {"message", "callback"} THEN u.thread ELSE Zero

(* Sender().ID(): the chat somebody acts as, else the user.                  *)
SenderOf(u) ==
  IF u.kind \in {"message", "reaction", "poll_answer"} /\ u.actor # Zero
    THEN u.actor ELSE u.user

(* Ctx.FSM and the dispatch lock                                             *)
ctxKey(strategy, senderIdentity, u) ==
  apply(strategy, ChatOf(u), IF senderIdentity THEN SenderOf(u) ELSE u.user, ThreadOf(u))

(* Message.FSM and CallbackQuery.FSM, which have no sender identity          *)
entityKey(strategy, u) == apply(strategy, ChatOf(u), u.user, ThreadOf(u))
=============================================================================
