SPECIFICATION FairSpec
CONSTANTS
  Limits = {1, 5}
  MaxDuration = 15
  ExtraBudget = 4
  DialTimeout = 2
  MaxStdins = 2
  OutputLimit = 2
  MaxFrame = 3
  MayDie = TRUE
  MaxTime = 20
INVARIANTS
  TypeOK
  AnswerIsHonest
  BudgetIsEnough
PROPERTY ExecuteReturns
CHECK_DEADLOCK FALSE
