CONSTANTS
  Execs = {e1}
  MaxRound = 2
  MaxRetries = 2
  MaxLateRetries = 1
  MaxSame = 1
  MaxCopies = 1
  MaxGhosts = 0
  Ops = {"pause", "cancel", "archive", "timeout", "reopen", "rerun", "run", "stop"}
  Faults = FALSE
SPECIFICATION FairSpec
PROPERTY DeferredReplayed
PROPERTY EventuallyRuns
CHECK_DEADLOCK FALSE
