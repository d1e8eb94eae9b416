SPECIFICATION Spec
CONSTANTS
  Limits = {1}
  MaxDuration = 15
  ExtraBudget = 4
  DialTimeout = 2
  MaxStdins = 2
  OutputLimit = 2
  MaxFrame = 3
  MayDie = FALSE
  MaxTime = 12
INVARIANT OneOfBoth
CHECK_DEADLOCK FALSE
