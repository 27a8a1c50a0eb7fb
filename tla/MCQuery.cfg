SPECIFICATION Spec
CONSTANTS
  None = None
  Cols <- MCCols
  Indexes <- MCIndexes
  Statements <- MCStatements
  Contents <- MCContents
  TuplesPerStep = 2
  OuterBufferSize = 4
  InnerBufferSize = 2
CHECK_DEADLOCK FALSE
INVARIANTS
  TypeOK
  ConditionsPlaced
  RowsExact
  SortedPrefix
  AggExact
  
