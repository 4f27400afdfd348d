SPECIFICATION Spec
CONSTANTS
  Base = 8
  Ids <- SomeIds
  MaxAssembles = 2
  Payloads <- SomeData
INVARIANTS
  TypeOK
  WireIsFirstAssembly
  NoOverrun
CHECK_DEADLOCK FALSE
