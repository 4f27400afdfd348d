SPECIFICATION FairSpec
CONSTANTS
  Base = 256
  Devices <- SomeDevices
  Nothing = "none"
  Sphero = "Sphero-RGB"
  INQ_MAX_RETRIES = 2
  Callers <- TwoCallers
  MaxReported = 2
  RETRY = 0
  MaxAhead = 1
  MaxSends = 2
  MaxUnasked = 0
  Tests <- AllTests
  RobotCodes <- SomeCodes
INVARIANTS
  TypeOK
  AddressOfSphero
  ThrowsWithoutAddress
  TestsPass
  TextOwn
PROPERTIES
  Starts
CHECK_DEADLOCK FALSE
