SPECIFICATION FairSpec
CONSTANTS
  LogStarts <- TwoStarts
  MaxLog = 5
INVARIANT ReadIsCompletePrefix
CHECK_DEADLOCK FALSE
PROPERTY ReadReturnsBehindARecord
