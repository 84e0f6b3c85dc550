CONSTANTS
  Workers = {w1, w2}
  k1 = k1
  k2 = k2
  Keys = {k1, k2}
  None = None
  MaxUpdate = 3
  KeyOf <- MCKeyOf
  BufferSize = 1
  Limit = 2
  MaxRuns = 2
  DropPending = {TRUE, FALSE}
  Undecodable = {}
SPECIFICATION Spec
INVARIANT NoUpdateLost
INVARIANT AtMostOncePerProcess
INVARIANT HooksAfterDrain
INVARIANT CountersAddUp
PROPERTY CancelEndsRun
PROPERTY EveryUpdateHandled
CHECK_DEADLOCK FALSE
