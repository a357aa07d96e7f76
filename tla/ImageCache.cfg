CONSTANTS
  Workers = {w1}
  Page = page
  Kerneld = kerneld
  N = 2
  Memory = 2
  Limits = {1}
  Rounds = 1
  Patience = 1
  MaxOps = 2
  MaxKills = 1
SPECIFICATION FairSpec
INVARIANTS ReadsItsChunk Accounted
PROPERTY Answered
CHECK_DEADLOCK FALSE
