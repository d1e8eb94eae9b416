SPECIFICATION FairSpec
CONSTANTS
  Langs = {py}
  Generic = Generic
  PoolSize = 2
  BootConcurrency = 1
  Callers = {w1, w2}
  NoVM = NoVM
  MaxCalls = 3
  MaxFailures = 1
INVARIANTS
  OneOwner
  PoolConserved
  CloseIsClean
PROPERTIES
  AcquireReturns
  CloseReturns
CHECK_DEADLOCK FALSE
