CONSTANTS
  Futures = {f1, f2}
  Wakers = {w1, w2}
  Cancellers = {c1, c2}
  IdSpace = 3
  None = None
SPECIFICATION FairSpec
CHECK_DEADLOCK FALSE
INVARIANTS NoLostWakeup EntriesOwned
PROPERTIES CancellationResolves
