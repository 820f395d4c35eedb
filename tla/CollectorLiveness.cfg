SPECIFICATION FairSpec
CONSTANTS
  N = 2
  Env = 1
  Names = {}
  ShadeCapacity = 1
  MaxStack = 2
  MaxRetries = 1
  Modes = {"concurrent", "synchronized"}
  Spurious = TRUE
  MayExit = TRUE
INVARIANTS TypeOK WorldStopped MarksCleared
PROPERTIES CycleEnds MachineResumes TeardownEnds GarbageGoes
CHECK_DEADLOCK FALSE
