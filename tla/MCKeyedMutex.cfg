CONSTANTS
  Threads = {t1, t2, t3}
  Keys = {k1, k2}
  Mutexes = {m1, m2, m3}
  StuckKeys = {k2}
  None = None
SPECIFICATION Spec
INVARIANT MutualExclusion
INVARIANT UnlockFindsOwnMutex
INVARIANT NoStaleEntry
PROPERTY ImplementsKeyLock
PROPERTY EveryLockReturns
