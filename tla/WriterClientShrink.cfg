SPECIFICATION Spec
CONSTANTS
  NumColumns = 1
  SortCost = 2
  RowGroupSize = 1
  Width = 1
  IntMax = 100
  Bloom = FALSE
  PageIndex = FALSE
  MaxRows = 5
  MaxBatch = 2
  MaxOpens = 2
CHECK_DEADLOCK FALSE
INVARIANT AppendListsAll
