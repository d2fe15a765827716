CONSTANTS
  LevelSize = 2
  NumPages = 6
  KernelStart = 4
  FirstPage = 0
  ReserveStart = 3
  ImageEnd = 1
  BootFrame = 1
  NumCaps = 2
  MinLevels = 1
  MaxRun = 2
  MaxReservations = 2
SPECIFICATION Spec
INVARIANTS
  VSpaceInv
  AllOrNothing
PROPERTIES
  MappingsKept
CHECK_DEADLOCK FALSE
