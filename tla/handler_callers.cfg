SPECIFICATION Spec
CONSTANTS
  Callers <- TwoCallers
  Base = 3
  RETRY = 0
  MaxAhead = 2
  MaxSends = 4
  MaxUnasked = 0
INVARIANTS
  NumbersNotAhead
PROPERTIES
  NumbersDistinctInTurn
CHECK_DEADLOCK FALSE
