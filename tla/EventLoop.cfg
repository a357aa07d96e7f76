CONSTANTS
  Files = {f1, f2}
  Fds = {3}
  Timers = {t1}
  Long = 2
  MaxData = 1
  MaxOps = 1
SPECIFICATION FairSpec
INVARIANTS NoLostWakeup QueuedForOwner EndsIdle
PROPERTIES TimersFirst Served EndsWhenDone
CHECK_DEADLOCK FALSE
