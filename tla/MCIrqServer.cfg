CONSTANTS
  Lines = {l1, l2, l3}
  NoLine = NoLine
  MaxIrqIds = 3
  MaxNtfnIds = 3
  BadgeBits = 2
  MaskChoices <- NoMasks
  NoMessage = NoMessage
  MaxAttempts = 2
SPECIFICATION FairServerSpec
INVARIANTS
  ServerExact
PROPERTIES
  ServerServes
CHECK_DEADLOCK FALSE
