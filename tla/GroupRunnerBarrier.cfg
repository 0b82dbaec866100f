SPECIFICATION Spec
CONSTANTS
  Radix = 4
  a0 = a0
  b0 = b0
  a1 = a1
  TopicPartition <- TwoPartitions
  Partition <- PartitionOf
  Epoch = {1, 2}
  Cut <- TwoCuts
  End = 5
  Nothing = Nothing
  Modes <- Restarting
  HasPositions = TRUE
  LateCuts = FALSE
  RestoreFirst = TRUE
  Batches <- Together
  MaxFaults = 1
  MaxRebalances = 0
  MaxRestarts = 1
  MaxRestores = 2
INVARIANTS
  SnapshotIsTheCut
  NothingSkipped
PROPERTIES
  RestoreIsExact
CHECK_DEADLOCK FALSE
