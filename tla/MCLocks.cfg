CONSTANTS
  Threads = {t1, t2, t3, t4}
  NoOne = NoOne
  UintMax = 3
  SemThreads = {t1, t2, t3, t4, t5}
  Units = 2
  IntMin <- MCIntMin
SPECIFICATION LocksSpec
INVARIANTS
  MutexInv
  SemInv
PROPERTIES
  ImplementsLock
  Handover
  ImplementsSem
  PostReturns
