SPECIFICATION Spec
CONSTANTS
  x = x
  y = y
  y1 = y1
  Threads = {t1}
  Frames = {f1, f2}
  Files = {x, y}
  Pages = {x1, x2, y1}
  FileOf <- MCFileOf
  OnDisk = {x1, y1}
  Closable = {x, y}
  NONE = NONE
  MaxWrites = 2
INVARIANTS
  FetchedIsCurrent
  UncachedIsOnDisk
PROPERTIES
  ImplementsPageStore
SYMMETRY Symmetry
