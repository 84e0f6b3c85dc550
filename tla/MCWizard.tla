------------------------------ MODULE MCWizard ------------------------------
(* Instances of Wizard for TLC, with senders whom Telegram gives one user    *)
(* id.  Two channels write in a group, one of them in a topic: they share a  *)
(* conversation or not, depending on key strategy and sender identity.  And  *)
(* the anonymous admins of two groups.                                       *)
EXTENDS Wizard, TLC

CONSTANTS channelBot, anon, c1, c2, g1, g2, topic

From(chat, user, thread, actor) ==
  [kind |-> "message", chat |-> chat, user |-> user, thread |-> thread, actor |-> actor]

MCChannels == {From(g1, channelBot, topic, c1), From(g1, channelBot, Zero, c2)}
MCAdmins   == {From(g1, anon, Zero, g1), From(g2, anon, Zero, g2)}

Symmetry == Permutations(Workers)
=============================================================================
