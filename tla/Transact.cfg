SPECIFICATION FairSpec
CONSTANTS
  c1 = c1
  c2 = c2
  k1 = k1
  k2 = k2
  Client = {c1, c2}
  Key = {k1, k2}
  NoRow = NoRow
  NoClient = NoClient
  Unwritten = Unwritten
  Writes <- MixedWrites
  Gets <- BothKeys
  Singles = {0, NoRow}
  InitialDb <- AnyDb
  MaxAttempts = 2
  MaxRequests = 2
  MaxSingles = 1
  MaxEvents = 1
  MaxFaults = 1
INVARIANTS
  ReasonIsTrue
  GetIsConsistent
PROPERTIES
  CommitIsSerial
  EveryTransactionEnds
CHECK_DEADLOCK FALSE
