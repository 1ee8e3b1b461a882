SPECIFICATION Spec
CONSTANTS
  RowsIn <- MCRowsIn
  NumColumns = 2
  BatchSize = 2
  Threads = 2
  PipelineCap = 2
  Coalesced = {1}
  VerifyChecksums = TRUE
  Faults = {"damage"}
  MaxFilters = 1
INVARIANTS
  DamageIsReported
CHECK_DEADLOCK FALSE
