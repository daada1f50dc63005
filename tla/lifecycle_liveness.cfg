CONSTANTS
  OPERATIONAL_TOLERANCE = 0
  Callers = {c1, c2}
  StartHeight = 1
  MaxHeight = 2
  MaxRestarts = 0
SPECIFICATION MCFairSpec
INVARIANT ShutdownAwaitsTask
PROPERTIES
  ImplementsService
  ShutdownCompletes
  ShutdownReturns
  DeadNodeNoticed
CHECK_DEADLOCK FALSE
