SPECIFICATION Spec
CONSTANTS
  Threads <- TwoThreads
  Owner = "app"
  Readers <- TwoThreads
  NoMarker = {}
  MaxSends = 1
  MaxChunks = 3
  MaxCloses = 1
INVARIANT
  ReadFindsData
CHECK_DEADLOCK FALSE
