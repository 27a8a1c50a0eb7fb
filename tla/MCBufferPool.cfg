SPECIFICATION Spec
CONSTANTS
  x = x
  y = y
  y1 = y1
  Threads = {t1, t2}
  Frames = {f1, f2}
  Files = {x, y}
  Pages = {x1, x2, x3, y1}
  FileOf <- MCFileOf
  OnDisk = {x1, y1}
  Closable = {}
  NONE = NONE
  MaxWrites = 1
INVARIANTS
  TypeOK
  FramesAccounted
  PinnedStays
SYMMETRY Symmetry
CHECK_DEADLOCK FALSE
