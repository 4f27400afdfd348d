SPECIFICATION FairSpec
CONSTANTS
  Threads <- TwoThreads
  Owner = "app"
  Readers <- OneReader
  NoMarker = {}
  MaxSends = 2
  MaxChunks = 1
  MaxCloses = 1
PROPERTIES
  DestructorTerminates
  CloseStopsIo
  LateSendsLost
  ArrivalsReachQueue
  SendsDelivered
CHECK_DEADLOCK FALSE
