CONSTANTS
  Calls = {t1, t2}
  P2PActions = {ping, fetch}
  MatchingFilters = MatchingFilters
SPECIFICATION Spec
INVARIANT ActionsAreInFlight
