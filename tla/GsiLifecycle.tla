----------------------------- MODULE GsiLifecycle -----------------------------
(***************************************************************************)
(* The lifecycle of one DualWrite GSI of one table: the UpdateTable        *)
(* handler (crates/rekt-ddl/src/lib.rs), the create, removal and drift     *)
(* tasks (crates/rekt-gsi/src/), the reconciler (crates/rekt-catalog/src/  *)
(* reconciler.rs) and process restarts, on one or more rektifier nodes     *)
(* that share a PostgreSQL database.                                       *)
(*                                                                         *)
(* Shared: the state row's phase, the GSI's column and index, and its      *)
(* entry in _rektifier_tables.gsi_specs.  Per node: the catalog snapshot,  *)
(* at most one UpdateTable in progress, task slots and reconcile passes.   *)
(* Each SQL statement or transaction is one step.  What the backfill does  *)
(* to rows is GsiBackfill's subject.                                       *)
(***************************************************************************)
EXTENDS Integers, FiniteSets

CONSTANTS
  Node,          \* rektifier processes
  Slot,          \* bound: background tasks per node
  PassSlot,      \* bound: reconcile passes running at once per node
  Faults,        \* the kinds of PostgreSQL error that may happen
  ClientWaits,   \* one administrative operation at a time, as the phase shows
  MaxRequests,   \* bound: UpdateTable requests
  MaxCrashes,    \* bound: process crashes
  MaxChecks,     \* bound: drift checks
  MaxBlips       \* bound: reconcile statements that PostgreSQL fails

FaultKinds == {"chunk", "build", "drop", "index", "column", "cancel"}

ASSUME ParamAssumption ==
  /\ Faults \subseteq FaultKinds
  /\ ClientWaits \in BOOLEAN
  /\ MaxRequests \in Nat /\ MaxCrashes \in Nat /\ MaxChecks \in Nat
  /\ MaxBlips \in Nat

VARIABLES
  phase,      \* _rektifier_gsi_state.phase; "none" when there is no row
  column,     \* the GSI's column exists
  index,      \* none, building, invalid or valid
  spec,       \* the gsi_specs entry: absent, serveable, or why it is not
  up,         \* the nodes that run
  cache,      \* per node: what its catalog snapshot says of the GSI
  request,    \* per node: the UpdateTable planned on that snapshot
  task,       \* per node and slot: where the task is
  pass,       \* per node and pass slot: the reconcile pass
  requests, crashes, checks, blips   \* how often each has happened

pgVars == <<phase, column, index, spec>>
countVars == <<requests, crashes, checks, blips>>
vars == <<phase, column, index, spec, up, cache, request, task, pass,
          requests, crashes, checks, blips>>

(***************************************************************************)
(* An entry is unserveable for a reason: "held" by UpdateTable or by the   *)
(* drift check, or the reconciler missed the column or the index.  The     *)
(* reconciler compares reasons too when it decides whether to write.       *)
(***************************************************************************)
Unserveable == {"held", "no_column", "no_index"}
Entry == {"absent", "serveable"} \cup Unserveable

Creating == {"declared", "adding_column", "backfilling", "indexing"}
Removing == {"removing_index", "removing_column"}
Phase == {"none", "active", "gone", "degraded", "failed"} \cup Creating \cup Removing

\* is_in_flight
InFlight == Creating \cup Removing

CreateStep == {"backfill", "chunks", "index", "set_indexing", "cic_1", "build_1",
               "drop_invalid", "cic_2", "build_2", "poll", "promote"}
RemoveStep == {"remove", "drop_index", "set_column", "drop_column"}
CheckStep == {"verify", "demote"}
Step == CreateStep \cup RemoveStep \cup CheckStep \cup {"off", "mark_failed", "dead"}

(***************************************************************************)
(* A pass is off, has loaded the catalog row, has read the columns, or     *)
(* has its verdict and then has written it.                                *)
(***************************************************************************)
PassAt == {"off", "loaded", "columns", "verdict", "written"}
Pass == [at : PassAt, loaded : Entry, column : BOOLEAN, verdict : Entry]
NoPass == [at |-> "off", loaded |-> "absent", column |-> FALSE, verdict |-> "absent"]

(***************************************************************************)
(* A snapshot holds the entry twice: in TableEntry.gsis, which UpdateTable *)
(* and DescribeTable read, and in TableSchema.gsis, which Query reads.     *)
(***************************************************************************)
Gate(entry) == IF entry \in Unserveable THEN "unserveable" ELSE entry
Known == {"absent", "serveable", "unserveable"}
Cached == [gsis : Known, schema : Known]
NoCache == [gsis |-> "none", schema |-> "none"]

Task == Node \X Slot

Goto(t, step) == task' = [task EXCEPT ![t] = step]
Ended == {"off", "dead"}   \* "dead": on an error the state row does not show
FreeSlots(n) == {s \in Slot : task[<<n, s>>] \in Ended}
Spawn(n, step) == \E s \in FreeSlots(n) : Goto(<<n, s>>, step)

Init ==
  /\ phase = "none" /\ column = FALSE /\ index = "none" /\ spec = "absent"
  /\ up = Node
  /\ cache = [n \in Node |-> [gsis |-> "absent", schema |-> "absent"]]
  /\ request = [n \in Node |-> "none"]
  /\ task = [t \in Task |-> "off"]
  /\ pass = [p \in Node \X PassSlot |-> NoPass]
  /\ requests = 0 /\ crashes = 0 /\ checks = 0 /\ blips = 0

--------------------------------------------------------------------------------
(***************************************************************************)
(* UpdateTable.  The entry is read from the snapshot before the lock is    *)
(* taken: Create needs the name to be free there, Delete needs it there.   *)
(***************************************************************************)

Checking == \E t \in Task : task[t] \in CheckStep

MayRequest(op) ==
  ClientWaits => /\ op = "create" => phase \in {"none", "gone"}
                 /\ op = "delete" => phase \in {"active", "degraded", "failed"}
                 /\ ~Checking
                 /\ \A n \in Node : request[n] = "none"

PlanUpdate(n, op) ==
  /\ n \in up /\ request[n] = "none" /\ requests < MaxRequests
  /\ MayRequest(op)
  /\ op = "create" => cache[n].gsis = "absent"
  /\ op = "delete" => cache[n].gsis \in {"unserveable", "serveable"}
  /\ request' = [request EXCEPT ![n] = op]
  /\ requests' = requests + 1
  /\ UNCHANGED <<pgVars, up, cache, task, pass, crashes, checks, blips>>

(***************************************************************************)
(* The task is spawned once the transaction has committed; a request that  *)
(* is cancelled at that await (request timeout) spawns none.               *)
(***************************************************************************)
AfterCommit(n, step) ==
  \/ Spawn(n, step)
  \/ "cancel" \in Faults /\ Spawn(n, "dead")

(***************************************************************************)
(* create_dual_write_gsi_in_tx beside the gsi_specs write: the state row   *)
(* is inserted or kept, and its phase set whatever it was.  ALTER TABLE    *)
(* waits for a concurrent index build.                                     *)
(***************************************************************************)
CommitCreate(n) ==
  /\ n \in up /\ request[n] = "create" /\ index # "building"
  /\ phase' = "backfilling" /\ column' = TRUE /\ spec' = "held"
  /\ AfterCommit(n, "backfill")
  /\ request' = [request EXCEPT ![n] = "none"]
  /\ UNCHANGED <<index, up, cache, pass, countVars>>

(***************************************************************************)
(* start_dual_write_removal: the phase is set whatever it was, and the     *)
(* entry, merged from the snapshot, becomes unserveable.                   *)
(***************************************************************************)
CommitDelete(n) ==
  /\ n \in up /\ request[n] = "delete"
  /\ phase' = IF phase = "none" THEN phase ELSE "removing_index"
  /\ spec' = "held"
  /\ AfterCommit(n, "remove")
  /\ request' = [request EXCEPT ![n] = "none"]
  /\ UNCHANGED <<column, index, up, cache, pass, countVars>>

--------------------------------------------------------------------------------
(***************************************************************************)
(* run_lifecycle_to_active                                                 *)
(***************************************************************************)

\* update_phase: unconditional, and nothing when there is no row.
UpdatePhase(p) == phase' = IF phase = "none" THEN phase ELSE p

\* An error on which the task returns without touching the state row.
GiveUp(t, kind) ==
  /\ kind \in Faults
  /\ Goto(t, "dead")
  /\ UNCHANGED pgVars

\* run_backfill: only a row in `backfilling` is copied.
StartBackfill(t) ==
  /\ task[t] = "backfill"
  /\ Goto(t, CASE phase = "none" -> "mark_failed"
               [] phase = "backfilling" -> "chunks"
               [] OTHER -> "index")
  /\ UNCHANGED pgVars

\* The chunk loop ends, or a chunk fails: always when the column is gone.
RunChunks(t) ==
  /\ task[t] = "chunks"
  /\ \/ column /\ Goto(t, "index")
     \/ (~column \/ "chunk" \in Faults) /\ Goto(t, "mark_failed")
  /\ UNCHANGED pgVars

\* run_index_creation reads the phase and decides on it.
StartIndex(t) ==
  /\ task[t] = "index"
  /\ \/ /\ Goto(t, CASE phase = "backfilling" -> "set_indexing"
                     [] phase = "indexing" -> "cic_1"
                     [] OTHER -> "off")
        /\ UNCHANGED pgVars
     \/ GiveUp(t, "index")

SetIndexing(t) ==
  /\ task[t] = "set_indexing"
  /\ \/ /\ UpdatePhase("indexing")
        /\ Goto(t, "cic_1")
        /\ UNCHANGED <<column, index, spec>>
     \/ GiveUp(t, "index")

(***************************************************************************)
(* CREATE INDEX CONCURRENTLY IF NOT EXISTS: waits for a running build, is  *)
(* satisfied with any index of that name, fails without the column.        *)
(***************************************************************************)
CreateIndex(t, try, building, failed) ==
  /\ task[t] = try /\ index # "building"
  /\ \/ /\ index \in {"invalid", "valid"}
        /\ Goto(t, "poll")
        /\ UNCHANGED index
     \/ /\ index = "none" /\ column
        /\ index' = "building"
        /\ Goto(t, building)
     \/ /\ index = "none" /\ ~column
        /\ Goto(t, failed)
        /\ UNCHANGED index
  /\ UNCHANGED <<phase, column, spec>>

EndBuild(t, building, failed) ==
  /\ task[t] = building
  /\ \/ index' = "valid" /\ Goto(t, "poll")
     \/ "build" \in Faults /\ index' = "invalid" /\ Goto(t, failed)
  /\ UNCHANGED <<phase, column, spec>>

\* DROP INDEX IF EXISTS before the second try.
DropInvalid(t) ==
  /\ task[t] = "drop_invalid" /\ index # "building"
  /\ index' = "none" \/ ("drop" \in Faults /\ index' = index)
  /\ Goto(t, "cic_2")
  /\ UNCHANGED <<phase, column, spec>>

\* Mutant of Poll: the index exists, valid or not.
PollExistence(t) ==
  /\ task[t] = "poll" /\ index # "building"
  /\ \/ Goto(t, IF index # "none" THEN "promote" ELSE "mark_failed") /\ UNCHANGED pgVars
     \/ GiveUp(t, "index")

\* The poll on indisvalid: valid, vanished, or not valid until the deadline.
Poll(t) ==
  /\ task[t] = "poll" /\ index # "building"
  /\ \/ Goto(t, IF index = "valid" THEN "promote" ELSE "mark_failed") /\ UNCHANGED pgVars
     \/ GiveUp(t, "index")

(***************************************************************************)
(* The promotion transaction, under the table's advisory lock.  Without an *)
(* entry to flip gsi_specs would become NULL, which its NOT NULL refuses.  *)
(***************************************************************************)
Promote(t) ==
  /\ task[t] = "promote"
  /\ \/ /\ spec # "absent"
        /\ UpdatePhase("active")
        /\ spec' = "serveable"
        /\ Goto(t, "off")
        /\ UNCHANGED <<column, index>>
     \/ /\ spec = "absent" \/ "index" \in Faults
        /\ Goto(t, "dead")
        /\ UNCHANGED pgVars

MarkFailed(t) ==
  /\ task[t] = "mark_failed"
  /\ \/ /\ UpdatePhase("failed")
        /\ Goto(t, "off")
        /\ UNCHANGED <<column, index, spec>>
     \/ GiveUp(t, "index")

CreateTask(t) ==
  \/ StartBackfill(t) \/ RunChunks(t) \/ StartIndex(t) \/ SetIndexing(t)
  \/ CreateIndex(t, "cic_1", "build_1", "drop_invalid")
  \/ EndBuild(t, "build_1", "drop_invalid")
  \/ DropInvalid(t)
  \/ CreateIndex(t, "cic_2", "build_2", "mark_failed")
  \/ EndBuild(t, "build_2", "mark_failed")
  \/ Poll(t) \/ Promote(t) \/ MarkFailed(t)

--------------------------------------------------------------------------------
(***************************************************************************)
(* run_removal_to_gone                                                     *)
(***************************************************************************)

StartRemoval(t) ==
  /\ task[t] = "remove"
  /\ \/ /\ Goto(t, CASE phase = "removing_index" -> "drop_index"
                     [] phase = "removing_column" -> "drop_column"
                     [] OTHER -> "off")
        /\ UNCHANGED pgVars
     \/ GiveUp(t, "column")

\* DROP INDEX CONCURRENTLY IF EXISTS
DropIndex(t) ==
  /\ task[t] = "drop_index" /\ index # "building"
  /\ \/ index' = "none" /\ Goto(t, "set_column")
     \/ "drop" \in Faults /\ index' = index /\ Goto(t, "mark_failed")
  /\ UNCHANGED <<phase, column, spec>>

SetRemovingColumn(t) ==
  /\ task[t] = "set_column"
  /\ \/ /\ UpdatePhase("removing_column")
        /\ Goto(t, "drop_column")
        /\ UNCHANGED <<column, index, spec>>
     \/ GiveUp(t, "column")

(***************************************************************************)
(* The last transaction, under the advisory lock: the columns to drop are  *)
(* those of the catalog entry, so none when there is no entry.  Dropping   *)
(* a column drops an index on it.                                          *)
(***************************************************************************)
DropColumn(t) ==
  /\ task[t] = "drop_column" /\ index # "building"
  /\ \/ /\ IF spec = "absent" THEN UNCHANGED <<column, index>>
                              ELSE column' = FALSE /\ index' = "none"
        /\ spec' = "absent"
        /\ UpdatePhase("gone")
        /\ Goto(t, "off")
     \/ GiveUp(t, "column")

RemoveTask(t) ==
  StartRemoval(t) \/ DropIndex(t) \/ SetRemovingColumn(t) \/ DropColumn(t)

(***************************************************************************)
(* run_drift_check.  Mismatches are found or not; the demotion does not    *)
(* take the lock and sets the phase whatever it has become.                *)
(***************************************************************************)
Verify(t) ==
  /\ task[t] = "verify"
  /\ \/ phase \in {"active", "degraded"} /\ Goto(t, "demote")
     \/ Goto(t, "off")
  /\ UNCHANGED pgVars

Demote(t) ==
  /\ task[t] = "demote"
  /\ Goto(t, "off")
  /\ IF spec = "absent" THEN UNCHANGED pgVars
     ELSE /\ UpdatePhase("degraded")
          /\ spec' = "held"
          /\ UNCHANGED <<column, index>>

CheckTask(t) == Verify(t) \/ Demote(t)

RunTask(t) ==
  /\ t[1] \in up
  /\ CreateTask(t) \/ RemoveTask(t) \/ CheckTask(t)
  /\ UNCHANGED <<up, cache, request, pass, countVars>>

\* Nothing in the repository schedules the check; an operator's tool calls it.
StartCheck(n) ==
  /\ n \in up /\ checks < MaxChecks
  /\ ClientWaits => /\ phase \in {"active", "degraded"}
                    /\ ~Checking
                    /\ \A m \in Node : request[m] = "none"
  /\ checks' = checks + 1
  /\ Spawn(n, "verify")
  /\ UNCHANGED <<pgVars, up, cache, request, pass, requests, crashes, blips>>

--------------------------------------------------------------------------------
(***************************************************************************)
(* reconcile_now: load the rows, read columns, read indexes, write the     *)
(* verdict over gsi_specs if it differs from what was loaded, replace the  *)
(* snapshot.  No lock is held and the write is unconditional.              *)
(***************************************************************************)

SetPass(p, r) == pass' = [pass EXCEPT ![p] = r]
Blip == blips < MaxBlips /\ blips' = blips + 1

LoadSnapshot(p) ==
  /\ pass[p].at = "off"
  /\ SetPass(p, [NoPass EXCEPT !.at = "loaded", !.loaded = spec])
  /\ UNCHANGED <<spec, cache, blips>>

\* An introspection error keeps the loaded entry for this pass.
SkipTable(p) ==
  /\ Blip
  /\ SetPass(p, [pass[p] EXCEPT !.at = "written", !.verdict = pass[p].loaded])

FetchColumns(p) ==
  /\ pass[p].at = "loaded"
  /\ \/ /\ SetPass(p, [pass[p] EXCEPT !.at = "columns", !.column = column])
        /\ UNCHANGED blips
     \/ SkipTable(p)
  /\ UNCHANGED <<spec, cache>>

\* check_gsi; pg_indexes also lists an index that is being built or invalid.
CheckGsi(loaded, col, idx) ==
  CASE loaded = "absent" -> "absent"
    [] loaded # "absent" /\ ~col -> "no_column"
    [] loaded # "absent" /\ col /\ idx = "none" -> "no_index"
    [] OTHER -> "serveable"

FetchIndexes(p) ==
  /\ pass[p].at = "columns"
  /\ \/ LET verdict == CheckGsi(pass[p].loaded, pass[p].column, index)
        IN  /\ SetPass(p, [pass[p] EXCEPT !.at = "verdict", !.verdict = verdict])
            /\ UNCHANGED blips
     \/ SkipTable(p)
  /\ UNCHANGED <<spec, cache>>

\* Mutant of WriteVerdict: only demotions are written.
WriteDemotion(p) ==
  /\ pass[p].at = "verdict"
  /\ SetPass(p, [pass[p] EXCEPT !.at = "written"])
  /\ spec' = IF pass[p].verdict \in Unserveable THEN pass[p].verdict ELSE spec
  /\ UNCHANGED <<cache, blips>>

WriteVerdict(p) ==
  /\ pass[p].at = "verdict"
  /\ \/ /\ pass[p].verdict # pass[p].loaded
        /\ spec' = pass[p].verdict
        /\ SetPass(p, [pass[p] EXCEPT !.at = "written"])
        /\ UNCHANGED blips
     \/ /\ pass[p].verdict = pass[p].loaded
        /\ SetPass(p, [pass[p] EXCEPT !.at = "written"])
        /\ UNCHANGED <<spec, blips>>
     \/ /\ pass[p].verdict # pass[p].loaded
        /\ Blip
        /\ SetPass(p, NoPass)
        /\ UNCHANGED spec
  /\ UNCHANGED cache

\* TableEntry.gsis gets the verdict, TableSchema.gsis keeps what was loaded.
ReplaceSnapshot(p) ==
  /\ pass[p].at = "written"
  /\ cache' = [cache EXCEPT ![p[1]] = [gsis |-> Gate(pass[p].verdict),
                                       schema |-> Gate(pass[p].loaded)]]
  /\ SetPass(p, NoPass)
  /\ UNCHANGED <<spec, blips>>

RunPass(p) ==
  /\ p[1] \in up
  /\ \/ LoadSnapshot(p) \/ FetchColumns(p) \/ FetchIndexes(p)
     \/ WriteVerdict(p) \/ ReplaceSnapshot(p)
  /\ UNCHANGED <<phase, column, index, up, request, task, requests, crashes, checks>>

--------------------------------------------------------------------------------
(***************************************************************************)
(* A crash takes the node's memory; a statement PostgreSQL already runs,   *)
(* an index build, goes on without its client.                             *)
(***************************************************************************)
Crash(n) ==
  /\ n \in up /\ crashes < MaxCrashes
  /\ up' = up \ {n}
  /\ cache' = [cache EXCEPT ![n] = NoCache]
  /\ request' = [request EXCEPT ![n] = "none"]
  /\ task' = [t \in Task |-> IF t[1] = n THEN "off" ELSE task[t]]
  /\ pass' = [p \in DOMAIN pass |-> IF p[1] = n THEN NoPass ELSE pass[p]]
  /\ crashes' = crashes + 1
  /\ UNCHANGED <<pgVars, requests, checks, blips>>

\* Mutant of Boot: removals are not resumed.
BootCreatesOnly(n) ==
  /\ n \notin up
  /\ up' = up \cup {n}
  /\ \/ phase \in Creating /\ Spawn(n, "backfill")
     \/ phase \notin Creating /\ UNCHANGED task
  /\ UNCHANGED <<pgVars, cache, request, pass, countVars>>

\* boot_resume_in_flight; the first reconcile pass then fills the snapshot.
Boot(n) ==
  /\ n \notin up
  /\ up' = up \cup {n}
  /\ \/ phase \in Creating /\ Spawn(n, "backfill")
     \/ phase \in Removing /\ Spawn(n, "remove")
     \/ phase \notin InFlight /\ UNCHANGED task
  /\ UNCHANGED <<pgVars, cache, request, pass, countVars>>

Orphaned ==
  index = "building" /\ \A t \in Task : task[t] \notin {"build_1", "build_2"}

FinishOrphanBuild ==
  /\ Orphaned
  /\ index' \in {"valid", "invalid"}
  /\ UNCHANGED <<phase, column, spec, up, cache, request, task, pass, countVars>>

--------------------------------------------------------------------------------
Next ==
  \/ \E n \in Node :
        \/ \E op \in {"create", "delete"} : PlanUpdate(n, op)
        \/ CommitCreate(n) \/ CommitDelete(n)
        \/ StartCheck(n) \/ Crash(n) \/ Boot(n)
  \/ \E t \in Task : RunTask(t)
  \/ \E p \in Node \X PassSlot : RunPass(p)
  \/ FinishOrphanBuild

Spec == Init /\ [][Next]_vars

(***************************************************************************)
(* tokio runs every spawned task, the reconciler's timer keeps ticking,    *)
(* PostgreSQL finishes a build, and a supervisor restarts the process.     *)
(* Nothing makes a client send a request, or stops PostgreSQL from failing *)
(* a statement whose kind of error is in Faults.                           *)
(***************************************************************************)
Fairness ==
  /\ \A t \in Task : WF_vars(RunTask(t))
  /\ \A p \in Node \X PassSlot : WF_vars(RunPass(p))
  /\ \A n \in Node : WF_vars(CommitCreate(n) \/ CommitDelete(n)) /\ WF_vars(Boot(n))
  /\ WF_vars(FinishOrphanBuild)

FairSpec == Spec /\ Fairness

--------------------------------------------------------------------------------
\* The types of the state row, the spec entry, the index, the tasks and the
\* passes.  In particular an entry always carries the marks a pass may write.
TypeOK ==
  /\ phase \in Phase /\ column \in BOOLEAN /\ spec \in Entry
  /\ index \in {"none", "building", "invalid", "valid"}
  /\ up \subseteq Node
  /\ cache \in [Node -> Cached \cup {NoCache}]
  /\ request \in [Node -> {"none", "create", "delete"}]
  /\ task \in [Task -> Step]
  /\ pass \in [Node \X PassSlot -> Pass]
  /\ requests \in 0..MaxRequests /\ crashes \in 0..MaxCrashes /\ checks \in 0..MaxChecks
  /\ blips \in 0..MaxBlips

(***************************************************************************)
(* The lifecycle implements the contract: the phase a user sees moves      *)
(* along its edges, becomes active only over a column and a valid index,   *)
(* which then stay until the GSI is deleted, and is forgotten only when    *)
(* both are gone, whatever crashes, restarts and PostgreSQL errors do      *)
(* between the statements of the tasks.                                    *)
(***************************************************************************)
Status ==
  CASE phase \in {"none", "gone"} -> "absent"
    [] phase \in Creating -> "creating"
    [] phase \in Removing -> "deleting"
    [] OTHER -> phase

Built ==
  CASE ~column /\ index = "none" -> "none"
    [] column /\ index = "valid" -> "all"
    [] OTHER -> "some"

Contract == INSTANCE GsiContract WITH status <- Status, built <- Built

ImplementsContract == Contract!Spec

(***************************************************************************)
(* A GSI does not stay CREATING or DELETING for ever: crashes, restarts    *)
(* and the errors the tasks record end in active, failed or gone, and only *)
(* an error a task does not record can leave it there.                     *)
(***************************************************************************)
InFlightResolves ==
  phase \in InFlight ~> phase \notin InFlight \/ \E t \in Task : task[t] = "dead"

(***************************************************************************)
(* Passes on several nodes overwrite the catalog row without a lock and    *)
(* replace snapshots out of order, yet once the tasks are done the row     *)
(* settles on what PostgreSQL holds and every snapshot, in both of its     *)
(* copies, on the row.                                                     *)
(***************************************************************************)
SnapshotsConverge ==
  <>[](/\ spec = CheckGsi(spec, column, index)
       /\ \A n \in Node : cache[n] = [gsis |-> Gate(spec), schema |-> Gate(spec)])

--------------------------------------------------------------------------------
(***************************************************************************)
(* What comments and documentation say, and the code does not do.          *)
(***************************************************************************)

\* "Query against a CREATING GSI returns RNF"; a pass that sees an index
\* being built calls the GSI serveable.
CreatingIsNotServed ==
  phase \in Creating => \A n \in Node : cache[n].schema # "serveable"

\* A drift mismatch demotes the GSI "so dispatch returns RNF until an
\* operator rebuilds"; the next pass finds column and index in place.
DegradedIsNotServed ==
  <>[](phase = "degraded") => \A n \in Node : <>[](cache[n].schema # "serveable")

\* Delete flips serveable to false "so the data-plane gate kicks in
\* immediately"; a pass flips it back while the index is still there.
RemovingIsUnserveable == phase \in Removing => spec # "serveable"

\* The removal "[r]emoves the GSI entry from `_rektifier_tables.gsi_specs`";
\* a pass that loaded the row earlier writes the entry back.
GoneHasNoEntry == phase = "gone" => spec = "absent"

\* The removal coordinator "[r]uns to terminal phase `gone` (success) or
\* `failed`"; a create task that still runs takes the phase away from it.
RemovalCompletes == phase \in Removing ~> phase \in {"gone", "failed"}

================================================================================
