SPECIFICATION FairSpec
CONSTANTS
  Radix = 4
  a0 = a0
  b0 = b0
  a1 = a1
  TopicPartition <- TwoPartitions
  Partition <- PartitionOf
  Epoch = {1}
  Cut <- FirstCut
  Nothing = Nothing
  Batches <- Singles
  End = 3
  Modes <- Looping
  HasPositions = TRUE
  LateCuts = TRUE
  RestoreFirst = FALSE
  MaxFaults = 0
  MaxRebalances = 1
  MaxRestarts = 0
  MaxRestores = 0
PROPERTIES
  CutsAreReadAsWritten
  CutIsReached
  
  RewindsOnlyToALateCut
CHECK_DEADLOCK FALSE
