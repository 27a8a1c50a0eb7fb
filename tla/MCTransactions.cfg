SPECIFICATION Spec
CONSTANTS
  Txns = {t1, t2}
  Tables = {a}
  Rids = {r1, r2}
  TABLE = TABLE
  Keys = {k1, k2}
  NONE = NONE
  MaxStmts = 2
  SetClauses <- ConstantSets
INVARIANTS
  TypeOK
  NoDirtyWrite
  NoDirtyRead
  ReadsStay
  AbortRestores
PROPERTIES
  LockContract
SYMMETRY Symmetry
CHECK_DEADLOCK FALSE
