SPECIFICATION LockSpec
CONSTANTS
  Txns = {t1, t2, t3}
  Tables = {a}
  Rids = {r1}
  TABLE = TABLE
SYMMETRY Symmetry
INVARIANTS
  LockTypeOK
  Compatible
  TableLockCoversRecords
  NoOrphanRequest
PROPERTY
  TwoPhase
