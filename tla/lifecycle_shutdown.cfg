CONSTANTS
  OPERATIONAL_TOLERANCE = 1
  Callers = {c1}
  StartHeight = 1
  MaxHeight = 2
  MaxRestarts = 1
SPECIFICATION Spec
INVARIANTS
  TypeOK
  CleanShutdown
  FinallyInactive
  OperationalIsSynced
PROPERTY ImplementsService
CHECK_DEADLOCK FALSE
