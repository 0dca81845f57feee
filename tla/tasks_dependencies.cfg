CONSTANTS
  Tasks = {t1, t2, t3}
  MaxBlockers = 2
SYMMETRY Symmetry
SPECIFICATION Spec
INVARIANT Acyclic
INVARIANT Reevaluated
INVARIANT Healed
PROPERTY ChangedOnce
