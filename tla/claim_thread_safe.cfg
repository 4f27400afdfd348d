SPECIFICATION Spec
CONSTANTS
  Workers <- OneWorker
  MaxLines = 2
  Pieces = 2
INVARIANTS
  LinesWhole
CHECK_DEADLOCK FALSE
