SPECIFICATION FairSpec
CONSTANTS
  Chains = {c1, c2, c3}
  c1 = c1
  c2 = c2
  c3 = c3
  LockRequest <- MCRequests
  Calls <- MCSingle
  MaxDepth = 2
INVARIANTS
  TypeOK
  MutualExclusion
  ActiveIsOwned
  NoSelfWait
  NoLostGrant
PROPERTIES
  ImplementsLockTable
  NoStarvation
CHECK_DEADLOCK FALSE
