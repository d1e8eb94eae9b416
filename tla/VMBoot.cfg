SPECIFICATION FairSpec
CONSTANT MaxPolls = 3
INVARIANTS
  TypeOK
  StartedIsConfigured
  CleanFailure
PROPERTY BootContractHolds
CHECK_DEADLOCK FALSE
