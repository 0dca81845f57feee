CONSTANTS
  MaxApprovals = 3
SPECIFICATION Spec
INVARIANT AppliedOnce
INVARIANT MovedAsDecided
INVARIANT DecisionRouted
INVARIANT OneOpenGate
CHECK_DEADLOCK FALSE
