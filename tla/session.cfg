CONSTANTS
  OPERATIONAL_TOLERANCE = 0
  StartHeight = 1
  MaxHeight = 2
  MaxScans = 1
  MaxClients = 1
SPECIFICATION MCSpec
INVARIANTS
  SessionTypeOK
  StoppedIsOver
  DrainedIsCaughtUp
PROPERTIES
  ImplementsClientScan
  CancelEndsScan
  NoLostWakeup
  StreamDelivers
  LeavingExits
  DropEndsTask
  ListenerIsReleased
CHECK_DEADLOCK FALSE
