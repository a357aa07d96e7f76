SPECIFICATION FairSpec
CONSTANTS
  r1 = r1
  r2 = r2
  w1 = w1
  w2 = w2
  a = a
  b = b
  Readers = {r1}
  Writers = {w1, w2}
  CanBlock = {r1, w1}
  Victims = {r1, w1}
  Byte = {a, b}
  Cap = 2
  Messages <- FitsNot
  Sizes <- OneSize
INVARIANTS OpenWhileReferred NoLostWakeup
PROPERTIES ImplementsAbstractPipe LastCloseWakesUnlessKilled
CHECK_DEADLOCK FALSE
