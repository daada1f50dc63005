CONSTANTS
  OPERATIONAL_TOLERANCE = 0
  StartHeight = 1
  MaxHeight = 3
  MaxScans = 2
  MaxClients = 2
SPECIFICATION MCSpec
INVARIANTS
  TypeOK
  CheckpointIsComplete
  WalletIsComplete
  NoUpdateLost
  FinishedMeansSynced
  ForwardsOnlyToScan
PROPERTY
  ImplementsService
CONSTRAINT MCBound
CHECK_DEADLOCK FALSE
