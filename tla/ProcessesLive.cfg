CONSTANTS
  MaxPid = 2
  Kerneld = kerneld
  Codes = {0}
  KillWindows <- InExit
  MaxFaults = 2
SPECIFICATION FairSpec
PROPERTIES SpawnServed WorkerStopped
CHECK_DEADLOCK FALSE
