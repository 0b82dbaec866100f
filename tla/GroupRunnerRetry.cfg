SPECIFICATION Spec
CONSTANTS
  Radix = 4
  a0 = a0
  b0 = b0
  a1 = a1
  TopicPartition <- TwoPartitions
  Partition <- PartitionOf
  Epoch = {}
  Cut <- NoCuts
  Nothing = Nothing
  Batches <- Together
  End = 3
  Modes <- Looping
  HasPositions = TRUE
  LateCuts = FALSE
  RestoreFirst = FALSE
  MaxFaults = 1
  MaxRebalances = 0
  MaxRestarts = 0
  MaxRestores = 0
INVARIANT NothingSkipped
CHECK_DEADLOCK FALSE
