SPECIFICATION Spec
CONSTANTS
  x = x
  y = y
  y1 = y1
  Threads = {t1, t2}
  Frames = {f1, f2}
  Files = {x, y}
  Pages = {x1, x2, y1}
  FileOf <- MCFileOf
  OnDisk = {x1, x2, y1}
  Closable = {}
  NONE = NONE
  MaxWrites = 1
INVARIANTS
  FetchedIsCurrent
SYMMETRY Symmetry
CHECK_DEADLOCK FALSE
