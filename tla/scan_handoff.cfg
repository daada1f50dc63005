CONSTANTS
  OPERATIONAL_TOLERANCE = 0
  StartHeight = 1
  MaxHeight = 3
  MaxScans = 1
  MaxClients = 1
SPECIFICATION Spec
INVARIANT HandoffIsComplete
CHECK_DEADLOCK FALSE
