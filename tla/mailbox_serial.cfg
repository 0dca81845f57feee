CONSTANTS
  Workers = {w1}
  MaxItems = 2
  MaxAge = 2
  Droppable = {1, 2}
  SaveFaults = TRUE
  Messages <- SerialMessages
SPECIFICATION Spec
INVARIANT NoItemLost
INVARIANT QueueSorted
