SPECIFICATION FairSpec
CONSTANTS
  Capacity = 3
  Slots = 2
  CacheLimit = 1
  MaxRoots = 2
  MaxCount = 0
  Privates = TRUE
  Linked = {0}
INVARIANTS TypeOK RingsMatch EmptiesCounted
PROPERTIES RefinesSweep SweepEnds
CHECK_DEADLOCK FALSE
