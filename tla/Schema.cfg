\* One table at a time, its indexes created and removed by waiting clients.
SPECIFICATION FairSpec
CONSTANTS
  Column <- MCColumn
  Sanitize <- MCSanitize
  CreateRequests <- MCCreateRequests
  UpdateRequests <- MCUpdateRequests
  Client = {c1}
  Waits = TRUE
  MaxTables = 1
  MaxUpdates = 2
 
 
PROPERTY UsableStays
 
\* A client need not send a request.
CHECK_DEADLOCK FALSE
