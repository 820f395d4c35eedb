SPECIFICATION Spec
CONSTANTS
  N = 3
  Env = 1
  Names = {3}
  ShadeCapacity = 1
  MaxStack = 2
  MaxRetries = 1
  Modes = {"concurrent", "synchronized"}
  Spurious = FALSE
  MayExit = TRUE
INVARIANT UnsweptMarked
PROPERTY RefinesHeap
CHECK_DEADLOCK FALSE
