SPECIFICATION Spec
CONSTANTS
  Keys = {py}
  Size = 1
  BootConcurrency = 1
  Callers = {w1, w2}
  NoVM = NoVM
  MaxCalls = 2
  MaxFailures = 0
INVARIANT AcquireGivesVM
CHECK_DEADLOCK FALSE
