CONSTANTS
  WordBits = 2
  FirstSlot = 1
  EndSlot = 8
  Size1 = 4
  Size2 = 2
  ExistingIndices = {0}
  ExistingSlots = {0}
  Roots <- AllPools
  MaxBits = 2
  BIT <- MCBIT
  Layouts <- MCLayouts
  RegionLists <- MCRegionLists
  SlotBits = 1
  MaxUntypedBits = 6
  AddressBits = 7
  NewBits = 4
  L1Bits = 2
  L2Bits = 2
  SlotsPerWord = 4
  ReserveSlots = 2
  HeaderSize = 2
  PoolStart = 3
  PoolSize = 9
  VStart = 16
  VSize = 16
  VBases = {1, 40}
  PageSize = 8
  Tables = 1
  ByteSizes = {1, 3, 5}
  PoolMaxUndeleted = 2
SPECIFICATION AllocatorsSpec
INVARIANT AlwaysASlot
CHECK_DEADLOCK FALSE
