\* Two tasks backfill one string-keyed table beside live writers, stale requests
\* and a removal.
SPECIFICATION FairSpec
CONSTANTS
  Pk = {1, 2}
  Col <- OneColumn
  First <- Partition
  SharedCol <- NoColumn
  Attr = {a, x}
  Val = {a}
  Null = Null
  NoRow = NoRow
  NoCursor = NoCursor
  NativeRank <- TypedOrder
  TextRank <- TextOrder
  ChunkSize = 1
  Worker = {w1, w2}
  MaxDrops = 1
  MaxInFlight = 1
INVARIANTS
  FirstBackfillComplete
PROPERTIES
  StaysInSync
  BackfillTerminates
