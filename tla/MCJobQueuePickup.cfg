SPECIFICATION FairSpec
CONSTANTS
  p1 = p1
  p2 = p2
  w1 = w1
  w2 = w2
  py = py
  c = c
  Procs = {p1}
  Workers = {w1, w2}
  ProcOf <- OneProcess
  Jobs = {j1, j2}
  Langs = {py, c}
  Registry <- FullRegistry
  ResultTTL = 300
  NoJob = NoJob
  NoLang = NoLang
  MaxFaults = 1
  MaxSignals = 0
  MaxCrashes = 0
PROPERTY PoppedJobIsProcessed
CHECK_DEADLOCK FALSE
