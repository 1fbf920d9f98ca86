CONSTANTS
  ak1 = ak1
  tok1 = tok1
  sec1 = sec1
  sec2 = sec2
  kid1 = kid1
  kid2 = kid2
  NoOne = NoOne
  Slot = {r1, r2}
  Akid = {ak1}
  Token = {tok1}
  Secret = {sec1, sec2}
  Kid = {kid1, kid2}
  Unsupported = {}
  Configs <- MCConfigs
  Requests <- MCRequests
  Ttl = 2
  NegativeTtl = 1
  Timeout = 1
  MaxEvents = 2
  InitialRow = sec1
  InitialKids = {kid1}

SPECIFICATION FairSpec

INVARIANTS
  BootDoesNotPanic
  VerdictWasTrue
  KeyIsFound

PROPERTIES
  EveryVerificationEnds
