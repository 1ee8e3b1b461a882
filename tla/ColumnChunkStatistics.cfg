SPECIFICATION Spec
CONSTANTS
  TargetPageSize = 4
  MinChunkRows = 1
  FallbackRows = 1
  WriteBatchSize = 0
  MaxRowsPerPage = 0
  DictionaryLimit = 2
  Values = {0, 1, 2}
  Schemas <- TextSchemas
  Foreign <- NoForeign
  Clauses <- MCClauses
  MaxBatch = 2
  MaxRead = 2
  MaxRows = 4
INVARIANT RowGroupFilterKeepsMatches
CHECK_DEADLOCK FALSE
