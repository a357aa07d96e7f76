SPECIFICATION RwFairSpec
CONSTANTS
  page = page
  w1 = w1
  w2 = w2
  w3 = w3
  Threads = {page, w1, w2}
  CanBlock = {w1, w2}
INVARIANTS Exclusion NoLostWaiter
PROPERTY WaiterWoken
