SPECIFICATION PromptSpec
CONSTANTS
  m1 = m1
  m2 = m2
  Member <- TwoMembers
  Skew <- AheadSkew
  Role = "control"
  NoLease = NoLease
  MaxEpoch = 1
  Duration = 3
  RenewInterval = 1
  ChallengeStagger = 1
  MaxMillis = 100
  MaxExtent = 100
  PollInterval = 2
  CallerCalls = {}
  StopKinds = {"crash", "cancel"}
  MaxNow = 5
  StartBy = 5
  MaxLog = 7
  MaxMints = 3
  MaxFaults = 2
  MaxStops = 0
  StopBy = 0
INVARIANTS
  HealthyHolderKeepsRole
  LiveHandleIsBounded
CHECK_DEADLOCK FALSE
