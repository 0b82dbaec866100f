SPECIFICATION Spec
CONSTANTS
  a = a
  b = b
  Member <- MCMember
  Partitions <- MCPartitions
  Role = "control"
  NoLease = NoLease
  MaxRecords = 3
  MaxEpoch = 2
  Duration = 3
  RenewInterval = 1
  ChallengeStagger = 1
  MaxMillis = 100
  MaxExtent = 100
  Radix = 4
  MaxRoleLen = 2
  MaxMemberIDLen = 3
INVARIANTS
  FoldIsOrderFree
  RanksAreASuccession
PROPERTY RecordsAreCanonical
CHECK_DEADLOCK FALSE
