CONSTANTS
  MaxPid = 3
  Kerneld = kerneld
  Codes = {0}
  KillWindows <- NoWindow
  MaxFaults = 2
SPECIFICATION Spec
INVARIANTS StatusBeforeEof NoZombies NoMissedExit
CHECK_DEADLOCK FALSE
