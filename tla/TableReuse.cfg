\* Two clients, three requests, a table that is created again once.
SPECIFICATION Spec
CONSTANTS
  c1 = c1
  c2 = c2
  Client = {c1, c2}
  Column = {"a", "b"}
  Value = {1, 2}
  Items <- Samples
  KeySchemas <- AllSchemas
  None = None
  MaxTables = 2
  MaxRequests = 3
SYMMETRY ClientSymmetry
INVARIANTS
  RowsKeyed
PROPERTIES
  OnlyNamed
