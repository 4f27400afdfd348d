SPECIFICATION Spec
CONSTANTS
  Base = 8
  Ids <- SomeIds
  MaxAssembles = 2
  Payloads <- SomeData
INVARIANTS
  AcceptedDataIsSent
CHECK_DEADLOCK FALSE
