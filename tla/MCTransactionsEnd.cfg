SPECIFICATION Spec
CONSTANTS
  Txns = {t1, t2}
  Tables = {a}
  Rids = {r1, r2}
  TABLE = TABLE
  Keys = {k1, k2}
  NONE = NONE
  MaxStmts = 1
  SetClauses <- ConstantSets
PROPERTIES
  EndingEnds
CHECK_DEADLOCK FALSE
