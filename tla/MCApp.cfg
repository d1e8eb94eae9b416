SPECIFICATION FairSpec
CONSTANTS
  Self = Self
  Env <- SmallEnv
  Workers = {w1, w2}
  Jobs = {j1, j2}
  Watched = {j1}
  Langs = {py}
  NoJob = NoJob
  NoLang = NoLang
  NoVM = NoVM
  NoCaller = NoCaller
  Responses = {"results"}
  Failures = 2
  MaxFailures = 1
  MaxMishaps = 1
  MaxSignals = 1
  MaxCrashes = 1
INVARIANTS
  TypeOK
  OwnVM
  ExitLeavesOnlyRaced
  FailedTwice
  PulledOnce
PROPERTIES
  AcceptedJobsFinish
  StopsAfterSignal
CHECK_DEADLOCK FALSE
