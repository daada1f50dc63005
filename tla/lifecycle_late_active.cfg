CONSTANTS
  OPERATIONAL_TOLERANCE = 0
  Callers = {c1}
  StartHeight = 0
  MaxHeight = 1
  MaxRestarts = 0
SPECIFICATION Spec
PROPERTY ShuttingDownIsFinal
CHECK_DEADLOCK FALSE
