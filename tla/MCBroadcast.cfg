CONSTANTS
  Workers = {w1, w2}
  NChats = 3
  Burst = 3
  Cost = 2
  Pauses = {1, 3}
SPECIFICATION Spec
INVARIANT ResolvedOnce
INVARIANT ResultIsFinal
PROPERTY RateHeld
PROPERTY PauseHonored
PROPERTY Returns
CHECK_DEADLOCK FALSE
