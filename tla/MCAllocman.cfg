CONSTANTS
  Total <- Small
  Desired <- One
  QueueSize <- One
  Nested <- AllocatorCalls
  MaxNested = 1
SPECIFICATION FairSpec
INVARIANTS
  Conserved
  NothingHalfDone
  CallsContained
PROPERTY OperationsEnd
