CONSTANTS
  Lines = {l1, l2}
  NoLine = NoLine
  MaxIrqIds = 2
  MaxNtfnIds = 1
  BadgeBits = 2
  MaskChoices <- AllOrAny
SPECIFICATION FairSpec
INVARIANTS
  TablesAgree
  KernelAgrees
PROPERTIES
  IrqsServed
