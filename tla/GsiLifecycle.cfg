\* One node and one operator; every fault, crashes, restarts and drift checks.
SPECIFICATION FairSpec
CONSTANTS
  n1 = n1
  n2 = n2
  Node = {n1}
  Slot = {1, 2}
  PassSlot = {1}
  Faults = {"chunk", "build", "drop", "index", "column", "cancel"}
  ClientWaits = TRUE
  MaxRequests = 3
  MaxCrashes = 2
  MaxChecks = 1
  MaxBlips = 1
PROPERTIES
  
  InFlightResolves
  
