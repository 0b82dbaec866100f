CONSTANTS
  Bits = 6
  Radix = 14
  WindowMillis = 2
  RetentionMillis = 2
  JoinWindow = 2
  NullKey = NullKey
  Topics = {1, 2}
  Partitions = {0}
  Absent = Absent
  PassThrough = PassThrough
  Drafts <- MCDrafts
  Applications <- MCApplications
  Rows <- MCRows
  AddAfterBuild = FALSE
  Names = {3, 4, 5}
  MaxNodes = 4
  MaxRecords = 4
  MaxBatch = 2
  MaxMoves = 1
SPECIFICATION Spec
CHECK_DEADLOCK FALSE
INVARIANTS
  WindowsAreExact
  JoinIsExact
PROPERTIES
  StateSurvivesTheStore
  RowsSurviveTheCodecs
