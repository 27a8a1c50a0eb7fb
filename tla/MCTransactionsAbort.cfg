SPECIFICATION Spec
CONSTANTS
  Txns = {t1}
  Tables = {a}
  Rids = {r1, r2}
  TABLE = TABLE
  Keys = {1, 2, 3}
  NONE = NONE
  MaxStmts = 1
  SetClauses <- IncrementSets
INVARIANTS
  AbortCompletes
CHECK_DEADLOCK FALSE
