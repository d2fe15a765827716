CONSTANTS
  Threads = {t1, t2, t3}
  NoOne = NoOne
  MaxWaiters = 4
  IntMin <- MCIntMin
SPECIFICATION FairSpec
INVARIANTS
  LockInv
  CondVarInv
PROPERTIES
  ImplementsLock
  BroadcastOnlyDropped
  BroadcastEnds
CHECK_DEADLOCK FALSE
