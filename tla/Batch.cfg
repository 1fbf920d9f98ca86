\* Two clients, two batches, one fault.
SPECIFICATION FairSpec
CONSTANTS
  t1 = t1
  t2 = t2
  unknown = unknown
  c1 = c1
  c2 = c2
  Client = {c1, c2}
  Name = {t1, t2, unknown}
  Table = {t1, t2}
  Key <- Spelling
  Col = {1, 2}
  Column <- Numeric
  NoKey = NoKey
  Writes <- MCWrites
  Gets <- MCGets
  InitialRows <- AllOrNone
  NoRow = NoRow
  Unwritten = Unwritten
  MaxOps = 3
  MaxAttempts = 2
  MaxRequests = 2
  MaxFaults = 1
CHECK_DEADLOCK FALSE
INVARIANTS
  AnswerIsCurrent
PROPERTIES
  TablesWhole
  
  EveryBatchEnds
