SPECIFICATION Spec
CONSTANTS
  Threads <- TwoThreads
  Owner = "app"
  Readers <- OneReader
  NoMarker = {3}
  MaxSends = 2
  MaxChunks = 3
  MaxCloses = 1
PROPERTY
  CallsNeedConnection
CHECK_DEADLOCK FALSE
