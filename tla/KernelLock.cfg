SPECIFICATION FairSpec
CONSTANTS
  page = page
  w1 = w1
  w2 = w2
  w3 = w3
  NoThread = NoThread
  Threads = {page, w1, w2}
  CanBlock = {w1, w2}
  Victims = {w2}
  Locks <- TwoLocks
  GiveUp = FALSE
INVARIANTS KillGateSafe NoLostWakeup
PROPERTIES ImplementsAbstractLock SleeperWoken
