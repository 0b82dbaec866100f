SPECIFICATION FairSpec
CONSTANTS
  m1 = m1
  m2 = m2
  Member <- TwoMembers
  Skew <- NoSkew
  Role = "control"
  NoLease = NoLease
  MaxEpoch = 1
  Duration = 2
  RenewInterval = 1
  ChallengeStagger = 1
  MaxMillis = 100
  MaxExtent = 100
  PollInterval = 1
  CallerCalls = {}
  StopKinds = {"crash", "cancel"}
  MaxNow = 4
  StartBy = 1
  MaxLog = 8
  MaxMints = 4
  MaxFaults = 0
  MaxStops = 1
  StopBy = 1
PROPERTIES
  CompetitionIsServed
  DeposedHolderLearns
CHECK_DEADLOCK FALSE
