SPECIFICATION FairSpec
CONSTANTS
  Callers <- OneCaller
  Base = 3
  RETRY = 5
  MaxAhead = 2
  MaxSends = 4
  MaxUnasked = 1
INVARIANTS
  TypeOK
  HandlerReady
PROPERTIES
  ResponseMatches
  ConstructorEnds
  ResponseArrives
CHECK_DEADLOCK FALSE
