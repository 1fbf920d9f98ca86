\* Two clients, four requests, on every path; one fault.
SPECIFICATION FairSpec
CONSTANTS
  c1 = c1
  c2 = c2
  c3 = c3
  Client = {c1, c2}
  NoRow = NoRow
  NoClient = NoClient
  Initial = Initial
  MaxIters = 2
  MaxAttempts = 2
  MaxRequests = 4
  MaxFaults = 1
CHECK_DEADLOCK FALSE
INVARIANTS
  AnswersWereTrue
  StatusMatchesEffect
PROPERTIES
  NoLostUpdate
  ReturnsReplacedRow
  EveryRequestAnswered
