CONSTANTS
  Prompts = 2
  MaxRuns = 1
  MaxUpsets = 1
SPECIFICATION SyncSpec
INVARIANTS PromptShown Current Followed
CHECK_DEADLOCK FALSE
