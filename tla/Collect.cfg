SPECIFICATION Spec
CONSTANTS
  RowsIn <- MCRowsIn
  NumericColumns = 2
  TextColumns = 1
  ThreadsAsked = {1, 2}
  Capacity = 2
  TaskBatch = 1
  BatchSize = 1
  MinRows = 2
INVARIANTS ResultIsExact BufferedReaderIsPrivate NothingFreedInUse
PROPERTIES CollectEnds
CHECK_DEADLOCK FALSE
