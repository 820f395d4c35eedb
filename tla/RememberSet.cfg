SPECIFICATION Spec
CONSTANTS
  Cells = {c1, c2, c3}
  Env = c1
  Threads = {t1, t2}
  Nil = Nil
  MaxHeld = 1
  MaxEntries = 1
SYMMETRY Symmetry
INVARIANTS TypeOK HeldKept
CHECK_DEADLOCK FALSE
