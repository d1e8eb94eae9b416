SPECIFICATION Spec
CONSTANTS
  b1 = b1
  b2 = b2
  b3 = b3
  py = py
  c = c
  Builders = {b1, b2, b3}
  Ids = {py, c}
  Target <- SharedTarget
  Listed <- OldFile
  NoBuilder = NoBuilder
  MaxFaults = 1
  MaxKills = 1
INVARIANTS
  TypeOK
  OfferedIsBootable
  DoneIsListed
  CleansUp
PROPERTY BuiltFileLoads
CHECK_DEADLOCK FALSE
