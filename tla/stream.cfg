SPECIFICATION Spec
CONSTANTS
  Base = 8
  Replies <- SomeReplies
  Noise <- SomeNoise
  BufferSize = 40
  MaxReplies = 3
INVARIANTS
  TypeOK
  AllParsed
  WholeChunksParsed
  NumbersRead
CHECK_DEADLOCK FALSE
