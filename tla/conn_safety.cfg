SPECIFICATION Spec
CONSTANTS
  Threads <- TwoThreads
  Owner = "app"
  Readers <- OneReader
  NoMarker = {3}
  MaxSends = 2
  MaxChunks = 3
  MaxCloses = 1
INVARIANTS
  TypeOK
  OneWrite
  OneRead
  QueueMoves
  ChunksAccounted
  RecordsFilled
  ReadFindsData
  NoUseAfterDestroy
  ClosedByThread
PROPERTIES
  SendsInOrder
  ReadsNewest
CHECK_DEADLOCK FALSE
