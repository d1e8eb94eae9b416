SPECIFICATION Spec
CONSTANTS
  p1 = p1
  p2 = p2
  w1 = w1
  w2 = w2
  py = py
  c = c
  Procs = {p1, p2}
  Workers = {w1, w2}
  ProcOf <- TwoProcesses
  Jobs = {j1, j2}
  Langs = {py, c}
  Registry <- SkewedRegistry
  ResultTTL = 300
  NoJob = NoJob
  NoLang = NoLang
  MaxFaults = 2
  MaxSignals = 1
  MaxCrashes = 1
SYMMETRY Symmetry
INVARIANTS
  TypeOK
  SingleOwner
  TTLIffTerminal
  HashesAreWhole
  SingleRetry
  StrandedBound
PROPERTY KeepsLifecycle
CHECK_DEADLOCK FALSE
