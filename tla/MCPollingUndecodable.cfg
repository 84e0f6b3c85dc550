CONSTANTS
  Workers = {w1, w2}
  k1 = k1
  k2 = k2
  Keys = {k1, k2}
  None = None
  MaxUpdate = 3
  KeyOf <- MCKeyOf
  BufferSize = 1
  Limit = 2
  MaxRuns = 1
  DropPending = {FALSE}
  Undecodable = {2}
SPECIFICATION Spec
PROPERTY UndecodableFailsLoudly
CHECK_DEADLOCK FALSE
