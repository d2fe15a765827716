SPECIFICATION MCSpec
CONSTANTS
  CspaceSlots = 10
  MaxGiven = 2
  PageSize = 2
  NumPages = 3
  MaxSegments = 3
  Word = 8
  StackAlign = 16
  StackPage = 64
  StackSizes = {3, 5}
  PhdrBytes = 56
  ArgLengths = {0, 3, 4, 8}
  MaxArgs = 2
  TlsSizes = {0, 9, 24, 25, 40}
  StackWords = 2
  Contents = {0, 1}
  TableCalls = {1, 2}
  SparseCalls = {9}
  FileSizes <- MCFileSizes
  IntMax = 3
  FirstUserFd = 3
  InitialFds = 5
  MaxFds = 6
  Reads <- MCReads
  Seeks <- MCSeeks
  Page = 4
  AreaSizes = {6, 16}
  Lengths = {1, 4, 5}
  VPages = 6
  BrkPages = {5, 6}
  PageCounts = {1, 2, 3}
  MaxRegions = 2
INVARIANTS FilesSound MemoryKept ObjectsExact ImagesLoaded FrameReadable
PROPERTY RestoreExact
CHECK_DEADLOCK FALSE
