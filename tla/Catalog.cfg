SPECIFICATION FairSpec
CONSTANTS
  n1 = n1
  n2 = n2
  c1 = c1
  c2 = c2
  a = a
  b = b
  p1 = p1
  Node = {n1}
  Client = {c1, c2}
  Name = {a, b}
  Pg = {p1}
  Sanitize <- Colliding
  Keys <- MixedKeys
  PoolSize = 3
  Invalidate = TRUE
  None = None
  MaxEvents = 3
  MaxRequests = 3
  MaxTroubles = 1
INVARIANTS
  RowsMatchTables
PROPERTIES
  DdlAnswered
  CatalogConverges
