CONSTANTS
  OPERATIONAL_TOLERANCE = 1
  Callers = {}
  StartHeight = 0
  MaxHeight = 2
  MaxRestarts = 0
SPECIFICATION Spec
PROPERTY ToleranceHonoured
CHECK_DEADLOCK FALSE
