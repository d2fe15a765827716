CONSTANTS
  Clients = {c1, c2}
  Slots = {s1, s2}
  MaxEntries = 3
  AskPages = {1, 2}
  NoWindow = NoWindow
  Junk = Junk
SPECIFICATION FairSpec
INVARIANTS
  RegistryExact
  OwnOutput
PROPERTIES
  CallsReturn
CHECK_DEADLOCK FALSE
