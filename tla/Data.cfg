SPECIFICATION Spec
CONSTANTS
  Jobs <- DataJobs
  Encoded <- DataEncoded
  Decoded <- DataDecoded
  WordBits = 12
  PackBits = 6
  BlockSize = 16
  MiniBlocks = 2
  MaxBlock = 16
  MaxMini = 2
  TileFloat = 2
  TileDouble = 2
  InitialBuckets = 2
  QuietNaN = QuietNaN
  SNAPPY_HASH_SIZE = 4
  snappy_hash <- MCHash4
  SNAPPY_BLOCK_SIZE = 100
  LZ4_DISTANCE_MAX = 50
  LZ4_skipTrigger = 2
  HashSlots <- MCHashSlots
  LZ4_hash4 <- MCHash4
  LZ4_hash5 <- MCHash4
  Machines <- MCMachines
  KernelsOn <- MCKernelsOn
  InputsOf <- MCInputsOf
  Kernel <- MCKernel
  Reference <- Scalar
  VectorBytes = 16
  SALT <- MCSALT
  KeyBits = 6
  BitBits = 3
  ColumnTypes = {"INT64", "BYTE_ARRAY", "BOOLEAN"}
  ColumnValues = {0, 1, 2, 7}
  RValues <- MCPlain
  Hash <- MCHash
  TicksPerSecond = 10
  FilterBytes = {1, 5, 9}
  MaxInserts = 2
  NA = NA
  NaN = NaN
  Inf = Inf
  MinusInf = MinusInf
  Null = Null
  PerSecond <- MCPerSecond
  SecondsPerDay = 4
  ZoneInstant <- MCZoneInstant
  Int32Bits = 4
  Int64Bits = 6
  ExactBits = 4
  NanosPerSecond = 4
  EpochDay = 5
  AsciiWord = 2
  CacheSize = 4
  CacheMaxUsed = 2
  CacheTrial = 3
  CacheProbes = 2
  ReadColumns <- MCReadColumns
  FloatBits = 3
  WrittenFrames <- MCWrittenFrames
  StatColumns <- MCStatColumns
  StatValues <- MCStatValues
  MaxValues = 3
  MaxStatistics = 2
  BuilderBytes = 2
  WellFormed <- MCWellFormed
  PageColumns <- MCPageColumns
  PageBatches <- MCPageBatches
  MaxBatches = 3
  MaxPages = 2
  MaxFaults = 1
  SliceLen = 3
  Registered = {"LZO"}
  Pack <- MCPack
  Unpack <- MCUnpack
  Load <- MCLoad
  SCHEMA_INITIAL_CAPACITY = 2
  CARQUET_MAX_SCHEMA_DEPTH = 3
  MaxPathDepth = 3
  UnitFactor = 2
  Int64Max = 7
  MaxElements = 4
  MaxHelped = 5
  Columns <- MCColumns
  GroupNames <- MCGroupNames
  Coercions <- MCCoercions
  Instants <- MCInstants
  GroupRows <- MCGroupRows
  LeafTypes <- MCLeafTypes
  OptionChoices <- MCOptionChoices
  SetterCalls <- MCSetterCalls
  RowBatches <- MCRowBatches
  MaxSetters = 2
  MaxRowGroups = 2
  Handles = {"h1", "h2"}
  MaxDepth = 4
  num_threads = 3
INVARIANTS
  
  
  
  ColumnIsFaithful
  LossIsFlagged
  WrittenIsReadBack
  
  
  PagesReadBack
  SchemaReadsBack
  
  
  
  
  PoolIsAllOrNothing
CHECK_DEADLOCK FALSE
