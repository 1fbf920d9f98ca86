\* A table that is created again with partition and sort key exchanged.
SPECIFICATION Spec
CONSTANTS
  c1 = c1
  c2 = c2
  Client = {c1, c2}
  Column = {"a", "b"}
  Value = {1, 2}
  Items <- Samples
  KeySchemas <- ExchangedSchemas
  None = None
  MaxTables = 2
  MaxRequests = 3
PROPERTIES
  OnlyNamedAlways
