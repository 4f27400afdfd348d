SPECIFICATION FairSpec
CONSTANTS
  Workers <- OneWorker
  MaxLines = 2
  Pieces = 2
INVARIANTS
  TypeOK
  HandlerLogsToOpenFile
  LinesComplete
PROPERTIES
  ExitEnds
CHECK_DEADLOCK FALSE
