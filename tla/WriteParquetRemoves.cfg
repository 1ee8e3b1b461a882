SPECIFICATION Spec
CONSTANTS
  NumColumns = 1
  SortCost = 1
  RowGroupSize = 4
  Width = 1
  IntMax = 100
  Bloom = FALSE
  PageIndex = FALSE
  MaxRows = 2
  Chunk = 2
  MaxCalls = 2
CHECK_DEADLOCK FALSE
INVARIANT OnlyOwnFileRemoved
