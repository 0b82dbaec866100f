SPECIFICATION Spec
CONSTANTS
  m1 = m1
  m2 = m2
  Member <- TwoMembers
  Skew <- WildSkew
  Role = "control"
  NoLease = NoLease
  MaxEpoch = 1
  Duration = 2
  RenewInterval = 1
  ChallengeStagger = 1
  MaxMillis = 100
  MaxExtent = 100
  PollInterval = 1
  CallerCalls = {"renew", "resign"}
  StopKinds = {"crash", "cancel"}
  MaxNow = 1
  StartBy = 1
  MaxLog = 4
  MaxMints = 3
  MaxFaults = 1
  MaxStops = 0
  StopBy = 0
INVARIANTS
  TypeOK
  AtMostOneAuthority
  LeaseTokensGrow
  OpenWritesAreCurrent
  LeaseProvesAuthor
  RegistersOnce
PROPERTIES
  StableReads
  ImplementsAuthority
CHECK_DEADLOCK FALSE
