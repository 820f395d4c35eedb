SPECIFICATION Spec
CONSTANTS
  Threads = {t1, t2}
  Keys = {1, 3}
  NoKey = NoKey
  Messages <- MCMessages
  Quick = Quick
  SlotCount = 2
  Depth = 1
  BufSize = 3
  TagCount = 1
  Moves = {0,5,6}
  IntSize = 12
  MaxLost = 1
SYMMETRY Symmetry
INVARIANTS TypeOK Accounted Tiled RightKey
PROPERTY RefinesMailbox
CHECK_DEADLOCK FALSE
