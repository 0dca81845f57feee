CONSTANTS
  Tasks = {s1, s2}
  MaxBlockers = 1
  Timed = {s1, s2}
  Contract = {s1}
  Users = TRUE
  Faults = TRUE
SPECIFICATION FairSpec
 
PROPERTY CancelledStays
PROPERTY RunEnds
