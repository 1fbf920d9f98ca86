------------------------------ MODULE GsiBackfill ------------------------------
(***************************************************************************)
(* The chunked backfill of one DualWrite GSI (crates/rekt-gsi/src/         *)
(* backfill.rs) beside the live writers that fill the same columns with    *)
(* the dual-write SQL (crates/rekt-storage-libpq/src/shape.rs).            *)
(*                                                                         *)
(* The base table has one row per key.  data[k] is the part of the item    *)
(* the GSI extracts: one attribute per GSI key column.  col[k] holds the   *)
(* columns themselves.  A worker copies data into col in chunks; each      *)
(* chunk is one READ COMMITTED statement in one transaction:               *)
(*   - Select: the CTE picks its rows on the statement snapshot;           *)
(*   - Commit: the UPDATE waits for the row locks, re-reads the newest     *)
(*     version of each picked row that still exists, writes the columns    *)
(*     and, in the same transaction, last_pk_copied.                       *)
(* Rows deleted between the two are neither updated nor returned.          *)
(***************************************************************************)
EXTENDS Integers, FiniteSets

CONSTANTS
  Pk,            \* primary keys of the base table
  Col,           \* key columns of the GSI (partition, and sort if any)
  First,         \* the partition column: the one the chunk filters on
  SharedCol,     \* columns an earlier GSI of the table already fills
  Attr,          \* what an item may hold for an indexed attribute
  Val,           \* the members of Attr of the column's declared type
  Null,          \* SQL NULL
  NoRow,         \* the table has no row with this key
  NoCursor,      \* last_pk_copied IS NULL
  NativeRank,    \* position of a key in ORDER BY pk (the column's type)
  TextRank,      \* position of a key in ORDER BY pk::text
  ChunkSize,     \* BackfillConfig.chunk_size
  Worker,        \* tasks running run_backfill for this GSI
  MaxDrops,      \* bound: times the GSI is dropped and its name freed
  MaxInFlight    \* bound: requests holding a schema without the GSI

ASSUME ColAssumption == First \in Col /\ SharedCol \subseteq Col
ASSUME ValAssumption == Val \subseteq Attr /\ Null \notin Val
ASSUME KeyAssumption ==
  /\ IsFiniteSet(Pk) /\ NoCursor \notin Pk
  /\ NativeRank \in [Pk -> Nat] /\ TextRank \in [Pk -> Nat]
  /\ \A k, l \in Pk : k # l => /\ NativeRank[k] # NativeRank[l]
                               /\ TextRank[k] # TextRank[l]
ASSUME RowAssumption == NoRow \notin [Col -> Attr]
ASSUME BoundAssumption ==
  ChunkSize \in Nat \ {0} /\ MaxDrops \in Nat /\ MaxInFlight \in Nat

VARIABLES
  data,            \* the jsonb column, restricted to the indexed attributes
  col,             \* the GSI's columns
  exists,          \* the columns that are the GSI's own have been added
  drops,           \* how often the GSI has been removed
  lastPk,          \* _rektifier_gsi_state.last_pk_copied
  cached,          \* the catalog snapshot requests are planned on has the GSI
  inFlight,        \* requests planned on a snapshot that did not
  stale,           \* keys whose last writer was such a request
  pc,              \* worker control: idle, loop, chunk, done
  cursor,          \* worker's ResumeCursor
  picked,          \* keys the worker's current chunk selected
  live             \* those of them not deleted since the selection

rowVars == <<data, col, stale>>
ddlVars == <<exists, drops, cached, inFlight>>
workerVars == <<pc, cursor, picked, live>>
vars == <<data, col, stale, exists, drops, cached, inFlight, lastPk,
          pc, cursor, picked, live>>

Item == [Col -> Attr]
Columns == [Col -> Val \cup {Null}]
AllNull == [c \in Col |-> Null]

Present(k) == data[k] # NoRow

(***************************************************************************)
(* `data #>> '{attr,T}'`: the value when the attribute is there with the   *)
(* declared type, NULL when it is missing or of another type.              *)
(***************************************************************************)
Extract(item) == [c \in Col |-> IF item[c] \in Val THEN item[c] ELSE Null]

(***************************************************************************)
(* What the columns hold after a statement built from a schema that names  *)
(* the columns in `known` and leaves the others alone.                     *)
(***************************************************************************)
Written(item, old, known) ==
  [c \in Col |-> IF c \in known THEN Extract(item)[c] ELSE old[c]]

InSync(k) == Present(k) => col[k] = Extract(data[k])

--------------------------------------------------------------------------------

Init ==
  /\ data \in [Pk -> Item \cup {NoRow}]
  /\ col = [k \in Pk |-> IF Present(k)
                         THEN Written(data[k], AllNull, SharedCol)
                         ELSE AllNull]
  /\ exists = FALSE /\ drops = 0
  /\ lastPk = NoCursor
  /\ cached = FALSE /\ inFlight = 0 /\ stale = {}
  /\ pc = [w \in Worker |-> "idle"]
  /\ cursor = [w \in Worker |-> NoCursor]
  /\ picked = [w \in Worker |-> {}]
  /\ live = [w \in Worker |-> {}]

NoOpenChunk == \A w \in Worker : pc[w] # "chunk"

(***************************************************************************)
(* UpdateTable's create_dual_write_gsi_in_tx: the state row is inserted    *)
(* with ON CONFLICT DO NOTHING, so a row kept from an earlier GSI of the   *)
(* same name keeps its last_pk_copied; ADD COLUMN IF NOT EXISTS adds the   *)
(* columns as NULL.  The name is only checked against the cached entry.    *)
(* ALTER TABLE waits for the transactions of open chunks.                  *)
(***************************************************************************)
CreateGsi ==
  /\ ~cached /\ NoOpenChunk
  /\ exists' = TRUE
  /\ UNCHANGED <<drops, lastPk, cached, inFlight, workerVars, rowVars>>

(***************************************************************************)
(* The removal worker's last transaction drops the GSI's own columns and   *)
(* archives the state row as `gone`; tasks that had finished are over.     *)
(* UpdateTable only starts the removal of a GSI its snapshot lists.        *)
(***************************************************************************)
DropGsi ==
  /\ exists /\ cached /\ NoOpenChunk /\ drops < MaxDrops
  /\ exists' = FALSE /\ drops' = drops + 1
  /\ col' = [k \in Pk |-> [c \in Col |-> IF c \in SharedCol
                                          THEN col[k][c] ELSE Null]]
  /\ stale' = {}
  /\ pc' = [w \in Worker |-> IF pc[w] = "done" THEN "idle" ELSE pc[w]]
  /\ UNCHANGED <<data, lastPk, cached, inFlight, cursor, picked, live>>

(***************************************************************************)
(* A reconcile pass replaces the catalog snapshot.                         *)
(***************************************************************************)
Refresh ==
  /\ cached # exists
  /\ cached' = exists
  /\ UNCHANGED <<exists, drops, lastPk, inFlight, workerVars, rowVars>>

\* Mutant: ON CONFLICT DO UPDATE sets the jsonb column only.
PutItemDataOnly(k, item) ==
  /\ cached = exists
  /\ data' = [data EXCEPT ![k] = item]
  /\ stale' = stale \ {k}
  /\ UNCHANGED <<col, lastPk, ddlVars, workerVars>>

(***************************************************************************)
(* A write request planned on the current snapshot and executed before it  *)
(* or the table changes.  It upserts the item and writes every dual-write  *)
(* column of its schema in the same statement.                             *)
(***************************************************************************)
PutItem(k, item) ==
  /\ cached = exists
  /\ data' = [data EXCEPT ![k] = item]
  /\ col' = [col EXCEPT ![k] =
               Written(item, @, IF exists THEN Col ELSE SharedCol)]
  /\ stale' = stale \ {k}
  /\ UNCHANGED <<lastPk, ddlVars, workerVars>>

DeleteItem(k) ==
  /\ Present(k)
  /\ data' = [data EXCEPT ![k] = NoRow]
  /\ col' = [col EXCEPT ![k] = AllNull]
  /\ stale' = stale \ {k}
  /\ live' = [w \in Worker |-> live[w] \ {k}]
  /\ UNCHANGED <<lastPk, ddlVars, pc, cursor, picked>>

(***************************************************************************)
(* A request clones the catalog entry, without the GSI, and is suspended   *)
(* before its statement reaches PostgreSQL.                                *)
(***************************************************************************)
PlanPut ==
  /\ ~cached /\ inFlight < MaxInFlight
  /\ inFlight' = inFlight + 1
  /\ UNCHANGED <<exists, drops, cached, lastPk, workerVars, rowVars>>

(***************************************************************************)
(* Its statement runs: the columns it does not know keep their value (an   *)
(* existing row) or start as NULL (a new one).                             *)
(***************************************************************************)
StalePut(k, item) ==
  /\ inFlight > 0
  /\ inFlight' = inFlight - 1
  /\ data' = [data EXCEPT ![k] = item]
  /\ col' = [col EXCEPT ![k] = Written(item, @, SharedCol)]
  /\ stale' = IF exists THEN stale \cup {k} ELSE stale
  /\ UNCHANGED <<exists, drops, cached, lastPk, workerVars>>

--------------------------------------------------------------------------------

(***************************************************************************)
(* run_backfill reads the state row and seeds its cursor from it.  A       *)
(* worker is spawned after UpdateTable commits and again at boot.          *)
(***************************************************************************)
Start(w) ==
  /\ pc[w] = "idle" /\ exists
  /\ pc' = [pc EXCEPT ![w] = "loop"]
  /\ cursor' = [cursor EXCEPT ![w] = lastPk]
  /\ UNCHANGED <<lastPk, picked, live, ddlVars, rowVars>>

After(k, c) == c = NoCursor \/ TextRank[k] > TextRank[c]

\* Mutant: the chunk query forgets the cursor, so a sparse row comes back.
CandidatesFromStart(c) == {k \in Pk : Present(k) /\ col[k][First] = Null}

(***************************************************************************)
(* Rows the CTE may pick: `pk::text > cursor AND first_col IS NULL`.       *)
(***************************************************************************)
Candidates(c) == {k \in Pk : Present(k) /\ After(k, c) /\ col[k][First] = Null}

\* Mutant: LIMIT without ORDER BY.
IsChunkUnordered(S, cand) ==
  /\ S \subseteq cand
  /\ Cardinality(S) <= ChunkSize
  /\ Cardinality(S) < ChunkSize => S = cand

(***************************************************************************)
(* S is the result of `... ORDER BY pk LIMIT chunk_size` over cand.        *)
(***************************************************************************)
IsChunk(S, cand) ==
  /\ S \subseteq cand
  /\ Cardinality(S) <= ChunkSize
  /\ Cardinality(S) < ChunkSize => S = cand
  /\ \A k \in S, l \in cand \ S : NativeRank[k] < NativeRank[l]

Select(w) ==
  /\ pc[w] = "loop" /\ exists
  /\ \E S \in SUBSET Candidates(cursor[w]) :
       /\ IsChunk(S, Candidates(cursor[w]))
       /\ picked' = [picked EXCEPT ![w] = S]
       /\ live' = [live EXCEPT ![w] = S]
  /\ pc' = [pc EXCEPT ![w] = "chunk"]
  /\ UNCHANGED <<cursor, lastPk, ddlVars, rowVars>>

(***************************************************************************)
(* The UPDATE returned rows: their columns are recomputed from the newest  *)
(* data and the cursor moves to the last row returned.  SQL leaves the     *)
(* order of RETURNING open, so that is any of them.                        *)
(***************************************************************************)
CommitChunk(w) ==
  /\ pc[w] = "chunk" /\ exists /\ live[w] # {}
  /\ \E last \in live[w] :
       /\ lastPk' = last
       /\ cursor' = [cursor EXCEPT ![w] = last]
  /\ col' = [k \in Pk |-> IF k \in live[w] THEN Extract(data[k]) ELSE col[k]]
  /\ stale' = stale \ live[w]
  /\ pc' = [pc EXCEPT ![w] = "loop"]
  /\ picked' = [picked EXCEPT ![w] = {}]
  /\ live' = [live EXCEPT ![w] = {}]
  /\ UNCHANGED <<data, ddlVars>>

(***************************************************************************)
(* RETURNING was empty: n = 0 ends the loop.                               *)
(***************************************************************************)
Finish(w) ==
  /\ pc[w] = "chunk" /\ exists /\ live[w] = {}
  /\ pc' = [pc EXCEPT ![w] = "done"]
  /\ UNCHANGED <<cursor, picked, live, lastPk, ddlVars, rowVars>>

\* The task is over and its local variables are gone.
Forget(w) ==
  /\ pc' = [pc EXCEPT ![w] = "idle"]
  /\ cursor' = [cursor EXCEPT ![w] = NoCursor]
  /\ picked' = [picked EXCEPT ![w] = {}]
  /\ live' = [live EXCEPT ![w] = {}]

(***************************************************************************)
(* The columns were dropped under the worker: its statement fails and the  *)
(* error ends the task.                                                    *)
(***************************************************************************)
Fail(w) ==
  /\ pc[w] \in {"loop", "chunk"} /\ ~exists
  /\ Forget(w)
  /\ UNCHANGED <<lastPk, ddlVars, rowVars>>

(***************************************************************************)
(* The process dies; PostgreSQL rolls the open transaction back.           *)
(***************************************************************************)
Crash(w) ==
  /\ pc[w] \in {"loop", "chunk"}
  /\ Forget(w)
  /\ UNCHANGED <<lastPk, ddlVars, rowVars>>

Ddl == CreateGsi \/ DropGsi \/ Refresh

Client ==
  \/ \E k \in Pk, item \in Item : PutItem(k, item) \/ StalePut(k, item)
  \/ \E k \in Pk : DeleteItem(k)
  \/ PlanPut

Backfill(w) == Start(w) \/ Select(w) \/ CommitChunk(w) \/ Finish(w) \/ Fail(w)

Next == Ddl \/ Client \/ \E w \in Worker : Backfill(w) \/ Crash(w)

Spec == Init /\ [][Next]_vars

(***************************************************************************)
(* The tokio task of a worker keeps running; clients, DDL and crashes are  *)
(* not obliged to happen.                                                  *)
(***************************************************************************)
Fairness == \A w \in Worker : WF_vars(Backfill(w))
FairSpec == Spec /\ Fairness
--------------------------------------------------------------------------------

\* The types.  In particular every index column holds a value of its type or
\* NULL, whichever of the writers and backfill workers filled it.
TypeOK ==
  /\ data \in [Pk -> Item \cup {NoRow}]
  /\ col \in [Pk -> Columns]
  /\ stale \subseteq Pk
  /\ exists \in BOOLEAN /\ drops \in 0..MaxDrops
  /\ cached \in BOOLEAN /\ inFlight \in 0..MaxInFlight
  /\ lastPk \in Pk \cup {NoCursor}
  /\ pc \in [Worker -> {"idle", "loop", "chunk", "done"}]
  /\ cursor \in [Worker -> Pk \cup {NoCursor}]
  /\ picked \in [Worker -> SUBSET Pk]
  /\ live \in [Worker -> SUBSET Pk]

Complete == \A k \in Pk \ stale : InSync(k)

(***************************************************************************)
(* The first backfill of a GSI name is complete: when a task ends because  *)
(* its chunk query found no row, every row carries the columns its item    *)
(* calls for, whatever live writers, other tasks for the same GSI and      *)
(* crashes did meanwhile; only rows last written through a schema without  *)
(* the GSI may differ.                                                     *)
(***************************************************************************)
FirstBackfillComplete ==
  \A w \in Worker : drops = 0 /\ pc[w] = "done" /\ picked[w] = {} => Complete

(***************************************************************************)
(* The same for every backfill, later GSIs of the same name included.      *)
(***************************************************************************)
BackfillComplete ==
  \A w \in Worker : exists /\ pc[w] = "done" /\ picked[w] = {} => Complete

(***************************************************************************)
(* What the doc of run_backfill says: when the loop ends no column is left *)
(* that the row's item would fill (backfill.rs, "no remaining NULL column  *)
(* values").                                                               *)
(***************************************************************************)
NoRemainingNulls ==
  \A w \in Worker : exists /\ pc[w] = "done" => Complete

(***************************************************************************)
(* Neither path undoes the other: a row whose columns match its item keeps *)
(* matching through every step of the workers and every write of a request *)
(* that knows the GSI (the race the header of backfill.rs discusses).      *)
(***************************************************************************)
StaysInSync ==
  [][\A k \in Pk : exists /\ exists' /\ Present(k) /\ InSync(k)
                     => InSync(k)' \/ k \in stale']_vars

(***************************************************************************)
(* A chunk moves the task's cursor strictly forward, sparse rows included  *)
(* (backfill.rs: "advances every chunk regardless of NULL state").         *)
(***************************************************************************)
CursorAdvances ==
  [][\A w \in Worker : pc[w] = "chunk" /\ pc'[w] = "loop"
       => cursor'[w] \in Pk /\ After(cursor'[w], cursor[w])]_vars

(***************************************************************************)
(* Every task ends: it finds nothing left to copy, or it dies and the next *)
(* boot starts another.                                                    *)
(***************************************************************************)
BackfillTerminates ==
  \A w \in Worker : []<>(pc[w] \in {"done", "idle"})

(***************************************************************************)
(* What COMPATIBILITY_NOTES says of DualWrite columns: "populated by       *)
(* rektifier's dual-write SQL on every INSERT/UPDATE".                     *)
(***************************************************************************)
EveryWritePopulates ==
  [][\A k \in Pk : exists /\ data'[k] # data[k] => InSync(k)']_vars
================================================================================
