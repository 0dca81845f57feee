CONSTANTS
  Kinds = {"every", "once", "broken"}
  Interval = 2
  MaxRuns = 2
SPECIFICATION FairSpec
INVARIANT OneShotOnce
PROPERTY CountedRunStarts
PROPERTY DueRoundRuns
PROPERTY StuckReclaimed
