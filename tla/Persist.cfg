CONSTANTS
  Threads = {t1}
  MaxRecords = 2
  MaxFaults = 3
SPECIFICATION FairSpec
INVARIANTS CrashConsistent DurableSurvives
PROPERTIES ImplementsAbstractStore FlushEnds
CHECK_DEADLOCK FALSE
