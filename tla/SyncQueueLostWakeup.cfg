SPECIFICATION FairSpec
CONSTANTS
  Threads = {t1, t2}
  Data = {d1}
  Capacity = 1
  NoDatum = NoDatum
  CallKinds = {"put", "timed_put", "get", "timed_get"}
PROPERTY ShutdownReleasesEveryone
