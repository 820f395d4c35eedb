SPECIFICATION FairSpec
CONSTANTS
  Threads = {t1, t2, t3}
  Data = {d1}
  Capacity = 1
  NoDatum = NoDatum
  CallKinds <- MCCallKinds
INVARIANTS TypeOK CountersMatch NoLostWakeup
PROPERTIES RefinesFifo ShutdownReturns ShutdownReleasesSleepers
