CONSTANTS
  u1 = u1
  u2 = u2
  u3 = u3
  k1 = k1
  k2 = k2
  Requests = {r1, r2}
  Workers = {w1}
  Updates = {u1, u2}
  Keys = {k1}
  KeyOf <- MCKeyOf
  BufferSize = 1
  Faults = {"timeout", "serve"}
  None = None
SPECIFICATION Spec
INVARIANT AckedIsSafe
INVARIANT QuietAfterShutdown
PROPERTY OnceUnlessUnanswered
PROPERTY ShutdownEnds
CHECK_DEADLOCK FALSE
