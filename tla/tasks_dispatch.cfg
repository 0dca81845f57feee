CONSTANTS
  Execs = {e1, e2}
  MaxRound = 2
  MaxRetries = 2
  MaxLateRetries = 1
  MaxSame = 1
  MaxCopies = 1
  MaxGhosts = 1
  Ops = {"pause", "fresh"}
  Faults = TRUE
SYMMETRY Symmetry
SPECIFICATION Spec
INVARIANT OneWriter
INVARIANT OneUnsettled
INVARIANT NoSilentLoss
INVARIANT StoppedWhenLeft
