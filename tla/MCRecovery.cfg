SPECIFICATION Spec
CONSTANTS
  Tables = {a}
  Clients = {c1, c2}
  Main = main
  Values = {v1, v2}
  v1 = v1
  v2 = v2
  NewRows = {v2}
  Unset = unset
  RecordsPerPage = 2
  LogBufferSize = 6
  MaxTxns = 3
  MaxOps = 2
  Loaded <- MCLoaded
  MaxDdl = 2
  MaxCrashes = 1
SYMMETRY Symmetry
INVARIANT
  TypeOK
  DurableCommit
  RedoRepeats
  RestartRestores
  
  Rebuilt
CHECK_DEADLOCK FALSE
