CONSTANTS
  Zero = Zero
  None = None
  channelBot = channelBot
  c1 = c1
  c2 = c2
  anon = anon
  g1 = g1
  g2 = g2
  topic = topic
  Workers = {w1, w2}
  Senders <- MCChannels
  Strategy = {"ChatUser", "Chat"}
  SenderIdentity = {TRUE, FALSE}
  Handles = {"ctx"}
  NSteps = 3
  AllowCommands = {1}
  MaxAttempts = 2
SYMMETRY Symmetry
SPECIFICATION Spec
INVARIANT NoRace
INVARIANT StepIsCurrent
INVARIANT NoStaleAnswers
INVARIANT EarlierAnswersKept
CHECK_DEADLOCK FALSE
