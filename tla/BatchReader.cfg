SPECIFICATION Spec
CONSTANTS
  RowsIn <- MCRowsIn
  NumColumns = 2
  BatchSize = 2
  Threads = 2
  PipelineCap = 2
  Coalesced = {1}
  VerifyChecksums = TRUE
  Faults = {"alloc", "damage", "eval"}
  MaxFilters = 1
INVARIANTS
  
  ViewIsStable
  
PROPERTIES
  WalkEnds
CHECK_DEADLOCK FALSE
