CONSTANTS
  Tasks = {t1, t2}
  MaxBlockers = 1
SPECIFICATION Spec
PROPERTY OwnFailureStays
