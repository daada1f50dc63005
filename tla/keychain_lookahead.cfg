CONSTANTS
  Lookahead = 1
  Lookaheads = {3}
  MaxHeight = 2
  MaxIndex = 3
  MaxClients = 1
SPECIFICATION Spec
INVARIANT EmptyMeansFalsePositive
CHECK_DEADLOCK FALSE
