SPECIFICATION Spec
CONSTANTS
  N = 18
  ColNum = 1
  Order = 3
  Keys <- OneColumn
  RidOf <- OwnRid
  Loads <- OneColumnLoads
  Queries <- OneColumnQueries
  Junk <- OneColumnJunk
  MaxOps = 3
INVARIANTS
  TypeOK
  Balanced
  LeafChain
  LookupExact
  ScanExact
PROPERTIES
  ImplementsIndex
  Returns
CHECK_DEADLOCK FALSE
