SPECIFICATION Spec
CONSTANTS
  Capacity = 2
  Slots = 2
  CacheLimit = 0
  MaxRoots = 2
  MaxCount = 2
  Privates = TRUE
  Linked = {0}
INVARIANTS RefsCollectible
CHECK_DEADLOCK FALSE
