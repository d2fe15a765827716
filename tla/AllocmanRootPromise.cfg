CONSTANTS
  Total <- Tiny
  Desired <- One
  QueueSize <- One
  Nested <- AllocatorCalls
  MaxNested = 0
SPECIFICATION Spec
INVARIANT RootKnown
