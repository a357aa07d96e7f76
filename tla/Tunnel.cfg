CONSTANTS
  Window = 3
  Scratch = 2
  Chunk = 2
  HighWater = 1
  TlsCap = 1
  Request = 4
  Response = 5
SPECIFICATION FairSpec
INVARIANTS WindowsKept NoSocketLeft
PROPERTIES ImplementsRequest Completes Settles
CHECK_DEADLOCK FALSE
