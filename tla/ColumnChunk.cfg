SPECIFICATION Spec
CONSTANTS
  TargetPageSize = 2
  MinChunkRows = 2
  FallbackRows = 2
  WriteBatchSize = 0
  MaxRowsPerPage = 3
  DictionaryLimit = 3
  Values = {1, 2}
  Schemas <- MCSchemas
  Foreign <- MCForeign
  Clauses <- MCClauses
  MaxBatch = 3
  MaxRead = 2
  MaxRows = 3
INVARIANTS
  ReadBack
  ShortMeansEnd
  PageIndexIsExact
  FilterKeepsMatches
CHECK_DEADLOCK FALSE
