CONSTANTS
  Calls = {t1, t2, t3}
  P2PActions = {ping, fetch}
  MatchingFilters = MatchingFilters
SPECIFICATION Spec
INVARIANTS
  TypeOK
  TrackedUpToDropsAndTwins
 
