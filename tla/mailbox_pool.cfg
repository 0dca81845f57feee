CONSTANTS
  Workers = {w1, w2}
  MaxItems = 3
  MaxAge = 0
  Droppable = {}
  SaveFaults = FALSE
  Messages <- PoolMessages
SYMMETRY Symmetry
SPECIFICATION Spec
INVARIANT TypeOK
INVARIANT NoItemLost
INVARIANT EntityExclusion
INVARIANT NoDoubleEntry
INVARIANT RoundServedOnce
PROPERTY StrictKept
