CONSTANTS
  Zero = Zero
  None = None
  channelBot = channelBot
  c1 = c1
  c2 = c2
  anon = anon
  g1 = g1
  g2 = g2
  topic = topic
  Workers = {w1, w2}
  Senders <- MCAdmins
  Strategy = {"GlobalUser"}
  SenderIdentity = {TRUE}
  Handles = {"entity"}
  NSteps = 2
  AllowCommands = {1}
  MaxAttempts = 2
SYMMETRY Symmetry
SPECIFICATION Spec
INVARIANT NoRace
CHECK_DEADLOCK FALSE
