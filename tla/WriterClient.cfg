SPECIFICATION Spec
CONSTANTS
  NumColumns = 2
  SortCost = 1
  RowGroupSize = 2
  Width = 1
  IntMax = 100
  Bloom = TRUE
  PageIndex = TRUE
  MaxRows = 4
  MaxBatch = 2
  MaxOpens = 3
CHECK_DEADLOCK FALSE
INVARIANTS NothingMisplaced ClosedFileIsWhole AbortIsClean
PROPERTY ExistingDataUntouched
