SPECIFICATION HistorySpec
CONSTANTS
  Cells = {c1, c2}
  Env = c1
  Threads = {t1}
  Nil = Nil
  MaxHeld = 1
  MaxEntries = 1
INVARIANT OverwrittenKept
CHECK_DEADLOCK FALSE
