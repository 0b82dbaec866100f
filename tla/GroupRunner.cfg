SPECIFICATION Spec
CONSTANTS
  Radix = 4
  a0 = a0
  b0 = b0
  a1 = a1
  TopicPartition <- SharedState
  Partition <- PartitionOf
  Epoch = {}
  Cut <- NoCuts
  End = 2
  Nothing = Nothing
  Modes <- Handling
  HasPositions = FALSE
  LateCuts = FALSE
  RestoreFirst = FALSE
  Batches <- Singles
  MaxFaults = 2
  MaxRebalances = 2
  MaxRestarts = 1
  MaxRestores = 0
INVARIANTS
  TypeOK
  StateIsPrefix
  CloseLosesNothing
  NoRecordTwice
  SavedNeverAhead
CHECK_DEADLOCK FALSE
