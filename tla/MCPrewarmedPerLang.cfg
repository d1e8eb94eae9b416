SPECIFICATION Spec
CONSTANTS
  Keys = {py, c}
  Size = 1
  BootConcurrency = 1
  Callers = {w1, w2}
  NoVM = NoVM
  MaxCalls = 3
  MaxFailures = 1
SYMMETRY Symmetry
INVARIANTS
  TypeOK
  OneOwner
  PoolConserved
  OnlyFailuresShrink
  NoSendOnClosed
  NothingLeftIdle
PROPERTY SingleUse
CHECK_DEADLOCK FALSE
