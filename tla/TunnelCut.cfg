CONSTANTS
  Window = 2
  Scratch = 1
  Chunk = 2
  HighWater = 1
  TlsCap = 1
  Request = 3
  Response = 4
SPECIFICATION FairSpec
PROPERTY CutIsNoticed
CHECK_DEADLOCK FALSE
