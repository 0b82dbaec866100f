SPECIFICATION FairSpec
CONSTANTS
  LogStarts <- TwoStarts
  MaxLog = 3
PROPERTY ReadReturns
CHECK_DEADLOCK FALSE
