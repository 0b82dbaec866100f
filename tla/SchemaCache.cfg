SPECIFICATION FairSpec
CONSTANTS
  Subjects <- MCSubjects
  Readers = {1}
  Local <- MCLocal
  Foreign <- MCForeign
  References <- MCReferences
  Kinds <- MCKinds
  Modes <- MCModes
  Seeds = {1}
  SeedModes = {"LookupOnly"}
  MaxRetries = 1
  MaxIDs = 2
  MaxFaults = 2
  MaxPrewarms = 2
  ReadCalls = 1
  MaxFetches = 2
  Radix = 8
  Word = 32768
INVARIANTS TypeOK ResolvedAsInterned DecodedAsWritten 
PROPERTIES ReportIsTrue ReaderServed PrewarmReturns
CHECK_DEADLOCK FALSE
