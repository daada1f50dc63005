CONSTANTS
  OPERATIONAL_TOLERANCE = 0
  Callers = {}
  StartHeight = 1
  MaxHeight = 2
  MaxScans = 1
  MaxClients = 1
SPECIFICATION MCFairSpec
INVARIANTS
  ScanReachesTip
  WalletIsBacked
PROPERTIES
  ImplementsClientScan
  ShutdownReachesClient
CHECK_DEADLOCK FALSE
