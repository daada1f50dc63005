CONSTANTS
  Lookahead = 1
  Lookaheads = {1, 3}
  MaxHeight = 3
  MaxIndex = 3
  MaxClients = 2
SPECIFICATION MCSpec
INVARIANTS
  TypeOK
  RevealedIsFound
  GapsAreBridged
CHECK_DEADLOCK FALSE
