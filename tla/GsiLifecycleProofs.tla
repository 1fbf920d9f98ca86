--------------------------- MODULE GsiLifecycleProofs ---------------------------
(***************************************************************************)
(* Proof that GsiLifecycle implements GsiContract on one node whose        *)
(* operator waits for each operation to end, for any number of tasks,      *)
(* reconcile passes, requests, crashes, restarts and PostgreSQL errors.    *)
(***************************************************************************)
EXTENDS GsiLifecycle, TLAPS

OneNode == \A m, n \in Node : m = n

--------------------------------------------------------------------------------
(* The inductive invariant.                                                *)

Index == {"none", "building", "invalid", "valid"}
Free == {"none", "gone"}                     \* there is no GSI
Settled == {"active", "degraded", "failed"}  \* there is one, and nothing runs
Building == {"cic_1", "build_1", "drop_invalid", "cic_2", "build_2", "poll", "promote"}

Shape ==
  /\ phase \in Phase \ {"declared", "adding_column"}
  /\ column \in BOOLEAN /\ index \in Index /\ spec \in Entry
  /\ up \subseteq Node
  /\ request \in [Node -> {"none", "create", "delete"}]
  /\ task \in [Task -> Step]
  /\ pass \in [Node \X PassSlot -> Pass]

\* The phases in which a task may be at a step.
PhasesOf(step) ==
  CASE step \in {"backfill", "index"} -> Creating
    [] step \in {"chunks", "set_indexing"} -> {"backfilling"}
    [] step \in Building -> {"indexing"}
    [] step = "remove" -> Removing
    [] step \in {"drop_index", "set_column"} -> {"removing_index"}
    [] step = "drop_column" -> {"removing_column"}
    [] step = "mark_failed" -> InFlight
    [] step \in CheckStep -> {"active", "degraded"}

\* What a task at a step relies on.
Fits(step, ph, ix) ==
  /\ ph \in PhasesOf(step)
  /\ step = "promote" => ix = "valid"
  /\ step = "set_column" => ix = "none"
  /\ step = "mark_failed" => ix # "building"

Live(t) == task[t] \notin Ended
Quiet == \A t \in Task : ~Live(t)

\* A GSI has one task at most, which knows the phase.
OneTask ==
  /\ \A t, u \in Task : Live(t) /\ Live(u) => t = u
  /\ \A t \in Task : Live(t) => t[1] \in up /\ Fits(task[t], phase, index)

\* A request is planned when nothing runs, and then nothing starts.
Planned ==
  /\ \A n \in Node : request[n] = "create" => phase \in Free /\ Quiet
  /\ \A n \in Node : request[n] = "delete" => phase \in Settled /\ Quiet
  /\ \A n \in Node \ up : request[n] = "none"

\* What there is of the GSI in each phase.
Objects(ph, col, ix, sp) ==
  /\ ph \in Free => ~col /\ ix = "none"
  /\ ph \notin Free => col /\ sp # "absent"
  /\ ix = "building" => ph = "indexing"
  /\ ph = "removing_column" => ix = "none"

\* A pass never writes that there is no GSI.
PassesKeep ==
  \A p \in Node \X PassSlot :
    pass[p].at = "verdict" /\ pass[p].verdict = "absent" => pass[p].loaded = "absent"

IInv ==
  /\ Shape /\ OneTask /\ Planned /\ PassesKeep
  /\ Objects(phase, column, index, spec)
--------------------------------------------------------------------------------
(* What steps have in common.                                              *)

\* What every step keeps: the invariant, and the edges of the contract.
Kept == IInv' /\ [Contract!Next]_(Contract!vars)

\* What a step of a task leaves alone.
Apart == UNCHANGED <<up, request, pass>>

LEMMA PhasesAt ==
  /\ PhasesOf("backfill") = Creating /\ PhasesOf("index") = Creating
  /\ PhasesOf("chunks") = {"backfilling"} /\ PhasesOf("set_indexing") = {"backfilling"}
  /\ \A step \in Building : PhasesOf(step) = {"indexing"}
  /\ PhasesOf("remove") = Removing
  /\ PhasesOf("drop_index") = {"removing_index"} /\ PhasesOf("set_column") = {"removing_index"}
  /\ PhasesOf("drop_column") = {"removing_column"} /\ PhasesOf("mark_failed") = InFlight
  /\ \A step \in CheckStep : PhasesOf(step) = {"active", "degraded"}
  BY DEF PhasesOf, Building, CheckStep

LEMMA TaskFits ==
  ASSUME IInv, NEW t \in Task, Live(t)
  PROVE  Fits(task[t], phase, index)
  BY Zenon DEF IInv, OneTask

\* The only task goes on to a step that fits what it leaves.
LEMMA TaskMoves ==
  ASSUME IInv, NEW t \in Task, Live(t), NEW step \in Step, Goto(t, step), Apart,
         phase' \in Phase \ {"declared", "adding_column"},
         column' \in BOOLEAN, index' \in Index, spec' \in Entry,
         Objects(phase', column', index', spec'),
         step \in Ended \/ Fits(step, phase', index')
  PROVE  IInv'
<1>1. task \in [Task -> Step] /\ task' = [task EXCEPT ![t] = step]
  BY Zenon DEF IInv, Shape, Goto
<1>2. task' \in [Task -> Step] /\ task'[t] = step /\ \A u \in Task : u # t => task'[u] = task[u]
  BY <1>1, Zenon
<1>3. \A u \in Task : u # t => task[u] \in Ended
  BY Zenon DEF IInv, OneTask, Live
<1>4. t[1] \in up
  BY Zenon DEF IInv, OneTask
<1>5. Shape'
  BY <1>2, Zenon DEF IInv, Shape, Apart
<1>6. OneTask'
  BY <1>2, <1>3, <1>4, Zenon DEF OneTask, Live, Apart
<1>7. \A n \in Node : request[n] = "none"
  BY Zenon DEF IInv, Planned, Quiet, Shape
<1>8. Planned'
  BY <1>7, Zenon DEF Planned, Apart
<1>9. PassesKeep'
  BY Zenon DEF IInv, PassesKeep, Apart
<1> QED
  BY <1>5, <1>6, <1>8, <1>9, Zenon DEF IInv

LEMMA SameEdge ==
  ASSUME UNCHANGED <<phase, column, index>>
  PROVE  [Contract!Next]_(Contract!vars)
<1>1. Status' = Status /\ Built' = Built
  BY Zenon DEF Status, Built
<1> QED
  BY <1>1, Zenon DEF Contract!vars

\* A task that changes nothing in PostgreSQL.
LEMMA TaskReads ==
  ASSUME IInv, NEW t \in Task, Live(t), NEW step \in Step, Goto(t, step), Apart,
         UNCHANGED pgVars,
         step \in Ended \/ Fits(step, phase, index)
  PROVE  Kept
<1>1. /\ phase' \in Phase \ {"declared", "adding_column"}
      /\ column' \in BOOLEAN /\ index' \in Index /\ spec' \in Entry
      /\ Objects(phase', column', index', spec')
      /\ step \in Ended \/ Fits(step, phase', index')
  BY Zenon DEF IInv, Shape, pgVars
<1>2. IInv'
  BY <1>1, TaskMoves, Zenon
<1>3. UNCHANGED <<phase, column, index>>
  BY Zenon DEF pgVars
<1> QED
  BY <1>2, <1>3, SameEdge, Zenon DEF Kept

LEMMA GiveUpStep ==
  ASSUME IInv, NEW t \in Task, Live(t), NEW kind, GiveUp(t, kind), Apart
  PROVE  Kept
<1>1. "dead" \in Step /\ "dead" \in Ended /\ Goto(t, "dead") /\ UNCHANGED pgVars
  BY Zenon DEF GiveUp, Step, Ended
<1> QED
  BY <1>1, TaskReads, Zenon

--------------------------------------------------------------------------------
(* run_lifecycle_to_active                                                 *)

LEMMA StartBackfillStep ==
  ASSUME IInv, NEW t \in Task, Apart, StartBackfill(t)
  PROVE  Kept
<1>1. task[t] = "backfill" /\ Live(t) /\ UNCHANGED pgVars
  BY Zenon DEF StartBackfill, Live, Ended
<1>2. phase \in {"backfilling", "indexing"}
  BY <1>1, TaskFits, PhasesAt DEF Fits, Creating, IInv, Shape
<1>3. CASE phase = "backfilling"
  <2>1. Goto(t, "chunks") /\ "chunks" \in Step
    BY <1>3, Zenon DEF StartBackfill, Step, CreateStep
  <2>2. Fits("chunks", phase, index)
    BY <1>3, PhasesAt, Zenon DEF Fits
  <2> QED
    BY <1>1, <2>1, <2>2, TaskReads, Zenon
<1>4. CASE phase = "indexing"
  <2>1. Goto(t, "index") /\ "index" \in Step
    BY <1>4, Zenon DEF StartBackfill, Step, CreateStep
  <2>2. Fits("index", phase, index)
    BY <1>4, PhasesAt, Zenon DEF Fits, Creating
  <2> QED
    BY <1>1, <2>1, <2>2, TaskReads, Zenon
<1> QED
  BY <1>2, <1>3, <1>4, Zenon

LEMMA RunChunksStep ==
  ASSUME IInv, NEW t \in Task, Apart, RunChunks(t)
  PROVE  Kept
<1>1. task[t] = "chunks" /\ Live(t) /\ UNCHANGED pgVars
  BY Zenon DEF RunChunks, Live, Ended
<1>2. phase = "backfilling" /\ index # "building"
  BY <1>1, TaskFits, PhasesAt, Zenon DEF Fits, IInv, Objects
<1>3. Fits("index", phase, index) /\ Fits("mark_failed", phase, index)
  BY <1>2, PhasesAt, Zenon DEF Fits, Creating, InFlight
<1>4. /\ "index" \in Step /\ "mark_failed" \in Step
      /\ Goto(t, "index") \/ Goto(t, "mark_failed")
  BY Zenon DEF RunChunks, Step, CreateStep
<1> QED
  BY <1>1, <1>3, <1>4, TaskReads, Zenon

LEMMA StartIndexStep ==
  ASSUME IInv, NEW t \in Task, Apart, StartIndex(t)
  PROVE  Kept
<1>1. task[t] = "index" /\ Live(t)
  BY Zenon DEF StartIndex, Live, Ended
<1>2. CASE GiveUp(t, "index")
  BY <1>1, <1>2, GiveUpStep, Zenon
<1>3. CASE ~GiveUp(t, "index")
  <2>1. UNCHANGED pgVars
    BY <1>3, Zenon DEF StartIndex
  <2>2. phase \in {"backfilling", "indexing"}
    BY <1>1, TaskFits, PhasesAt DEF Fits, Creating, IInv, Shape
  <2>3. CASE phase = "backfilling"
    <3>1. Goto(t, "set_indexing") /\ "set_indexing" \in Step
      BY <1>3, <2>3, Zenon DEF StartIndex, Step, CreateStep
    <3>2. Fits("set_indexing", phase, index)
      BY <2>3, PhasesAt, Zenon DEF Fits
    <3> QED
      BY <1>1, <2>1, <3>1, <3>2, TaskReads, Zenon
  <2>4. CASE phase = "indexing"
    <3>1. Goto(t, "cic_1") /\ "cic_1" \in Step
      BY <1>3, <2>4, Zenon DEF StartIndex, Step, CreateStep
    <3>2. Fits("cic_1", phase, index)
      BY <2>4, PhasesAt DEF Fits, Building
    <3> QED
      BY <1>1, <2>1, <3>1, <3>2, TaskReads, Zenon
  <2> QED
    BY <2>2, <2>3, <2>4, Zenon
<1> QED
  BY <1>2, <1>3, Zenon

LEMMA PollStep ==
  ASSUME IInv, NEW t \in Task, Apart, Poll(t)
  PROVE  Kept
<1>1. task[t] = "poll" /\ Live(t) /\ index # "building"
  BY Zenon DEF Poll, Live, Ended
<1>2. CASE GiveUp(t, "index")
  BY <1>1, <1>2, GiveUpStep, Zenon
<1>3. CASE ~GiveUp(t, "index")
  <2>1. /\ UNCHANGED pgVars /\ "promote" \in Step /\ "mark_failed" \in Step
        /\ \/ index = "valid" /\ Goto(t, "promote")
           \/ Goto(t, "mark_failed")
    BY <1>3, Zenon DEF Poll, Step, CreateStep
  <2>2. phase = "indexing"
    BY <1>1, TaskFits, PhasesAt DEF Fits, Building
  <2>3. /\ index = "valid" => Fits("promote", phase, index)
        /\ Fits("mark_failed", phase, index)
    BY <1>1, <2>2, PhasesAt DEF Fits, Building, InFlight, Creating
  <2> QED
    BY <1>1, <2>1, <2>3, TaskReads, Zenon
<1> QED
  BY <1>2, <1>3, Zenon

\* A step that writes the phase of a row that there is.
LEMMA SetIndexingStep ==
  ASSUME IInv, NEW t \in Task, Apart, SetIndexing(t)
  PROVE  Kept
<1>1. task[t] = "set_indexing" /\ Live(t)
  BY Zenon DEF SetIndexing, Live, Ended
<1>2. CASE GiveUp(t, "index")
  BY <1>1, <1>2, GiveUpStep, Zenon
<1>3. CASE ~GiveUp(t, "index")
  <2>1. phase = "backfilling"
    BY <1>1, TaskFits, PhasesAt, Zenon DEF Fits
  <2>2. /\ phase' = "indexing" /\ UNCHANGED <<column, index, spec>>
        /\ Goto(t, "cic_1") /\ "cic_1" \in Step
    BY <1>3, <2>1, Zenon DEF SetIndexing, UpdatePhase, Step, CreateStep
  <2>3. /\ phase' \in Phase \ {"declared", "adding_column"}
        /\ column' \in BOOLEAN /\ index' \in Index /\ spec' \in Entry
        /\ Objects(phase', column', index', spec')
        /\ Fits("cic_1", phase', index')
    BY <2>1, <2>2, PhasesAt
       DEF IInv, Shape, Phase, Creating, Objects, Free, Fits, Building
  <2>4. IInv'
    BY <1>1, <2>2, <2>3, TaskMoves, Zenon
  <2>5. Status' = Status /\ Built' = Built
    BY <2>1, <2>2, Zenon DEF Status, Built, Creating, Removing
  <2> QED
    BY <2>4, <2>5, Zenon DEF Kept, Contract!vars
<1> QED
  BY <1>2, <1>3, Zenon

\* A step that builds or drops the index while the GSI is created.
LEMMA TaskBuilds ==
  ASSUME IInv, NEW t \in Task, Live(t), task[t] \in Building,
         NEW step \in Building \cup {"mark_failed"}, Goto(t, step), Apart,
         index' \in Index, UNCHANGED <<phase, column, spec>>,
         step = "promote" => index' = "valid",
         step = "mark_failed" => index' # "building"
  PROVE  Kept
<1>1. phase = "indexing" /\ phase' = "indexing" /\ column /\ spec # "absent"
  BY TaskFits, PhasesAt DEF Fits, IInv, Objects, Free
<1>2. step \in Step
  BY Zenon DEF Step, CreateStep, Building
<1>3. Fits(step, phase', index')
  BY <1>1, PhasesAt DEF Fits, Building, InFlight, Creating
<1>4. /\ phase' \in Phase \ {"declared", "adding_column"}
      /\ column' \in BOOLEAN /\ spec' \in Entry
      /\ Objects(phase', column', index', spec')
  BY <1>1, Zenon DEF IInv, Shape, Objects, Free
<1>5. IInv'
  BY <1>2, <1>3, <1>4, TaskMoves, Zenon
<1>6. Status = "creating" /\ Status' = Status
  BY <1>1, Zenon DEF Status, Creating, Removing
<1>7. Built' \in {"some", "all"}
  BY <1>1, Zenon DEF Built
<1> QED
  BY <1>5, <1>6, <1>7, Zenon DEF Kept, Contract!Next, Contract!Build

LEMMA CreateIndexStep ==
  ASSUME IInv, NEW t \in Task, Apart,
         NEW try \in {"cic_1", "cic_2"}, NEW building \in {"build_1", "build_2"},
         NEW failed, CreateIndex(t, try, building, failed)
  PROVE  Kept
<1>1. task[t] = try /\ try \in Building /\ Live(t) /\ UNCHANGED <<phase, column, spec>>
  BY Zenon DEF CreateIndex, Live, Ended, Building
<1>2. column
  BY <1>1, TaskFits, PhasesAt DEF Fits, IInv, Objects, Free
<1>3. CASE Goto(t, "poll") /\ UNCHANGED index
  BY <1>1, <1>3, TaskBuilds, Zenon DEF IInv, Shape, Building
<1>4. CASE index' = "building" /\ Goto(t, building)
  BY <1>1, <1>4, TaskBuilds DEF Index, Building
<1> QED
  BY <1>2, <1>3, <1>4, Zenon DEF CreateIndex

LEMMA EndBuildStep ==
  ASSUME IInv, NEW t \in Task, Apart,
         NEW building \in {"build_1", "build_2"},
         NEW failed \in {"drop_invalid", "mark_failed"},
         EndBuild(t, building, failed)
  PROVE  Kept
<1>1. /\ task[t] = building /\ building \in Building /\ Live(t)
      /\ UNCHANGED <<phase, column, spec>>
  BY DEF EndBuild, Live, Ended, Building
<1>2. CASE index' = "valid" /\ Goto(t, "poll")
  BY <1>1, <1>2, TaskBuilds, Zenon DEF Index, Building
<1>3. CASE index' = "invalid" /\ Goto(t, failed)
  BY <1>1, <1>3, TaskBuilds, Zenon DEF Index, Building
<1> QED
  BY <1>2, <1>3 DEF EndBuild

LEMMA DropInvalidStep ==
  ASSUME IInv, NEW t \in Task, Apart, DropInvalid(t)
  PROVE  Kept
<1>1. /\ task[t] = "drop_invalid" /\ "drop_invalid" \in Building /\ Live(t)
      /\ UNCHANGED <<phase, column, spec>>
      /\ Goto(t, "cic_2") /\ "cic_2" \in Building
  BY Zenon DEF DropInvalid, Live, Ended, Building
<1>2. index' \in Index
  BY Zenon DEF DropInvalid, Index, IInv, Shape
<1> QED
  BY <1>1, <1>2, TaskBuilds, Zenon

LEMMA PromoteStep ==
  ASSUME IInv, NEW t \in Task, Apart, Promote(t)
  PROVE  Kept
<1>1. task[t] = "promote" /\ Live(t)
  BY Zenon DEF Promote, Live, Ended
<1>2. CASE Goto(t, "dead") /\ UNCHANGED pgVars
  BY <1>1, <1>2, TaskReads DEF Step, Ended
<1>3. CASE ~(Goto(t, "dead") /\ UNCHANGED pgVars)
  <2>1. phase = "indexing" /\ index = "valid"
    BY <1>1, TaskFits, PhasesAt DEF Fits, Building
  <2>2. /\ phase' = "active" /\ spec' = "serveable" /\ Goto(t, "off")
        /\ UNCHANGED <<column, index>> /\ "off" \in Step /\ "off" \in Ended
    BY <1>3, <2>1 DEF Promote, UpdatePhase, Step, Ended
  <2>3. column
    BY <2>1 DEF IInv, Objects, Free
  <2>4. /\ phase' \in Phase \ {"declared", "adding_column"}
        /\ column' \in BOOLEAN /\ index' \in Index /\ spec' \in Entry
        /\ Objects(phase', column', index', spec')
    BY <2>1, <2>2, <2>3 DEF IInv, Shape, Phase, Entry, Index, Objects, Free
  <2>5. IInv'
    BY <1>1, <2>2, <2>4, TaskMoves, Zenon
  <2>6. Status = "creating" /\ Status' = "active" /\ Built = "all" /\ Built' = Built
    BY <2>1, <2>2, <2>3 DEF Status, Built, Creating, Removing
  <2> QED
    BY <2>5, <2>6 DEF Kept, Contract!Next, Contract!Activate
<1> QED
  BY <1>2, <1>3, Zenon

LEMMA MarkFailedStep ==
  ASSUME IInv, NEW t \in Task, Apart, MarkFailed(t)
  PROVE  Kept
<1>1. task[t] = "mark_failed" /\ Live(t)
  BY Zenon DEF MarkFailed, Live, Ended
<1>2. CASE GiveUp(t, "index")
  BY <1>1, <1>2, GiveUpStep, Zenon
<1>3. CASE ~GiveUp(t, "index")
  <2>1. phase \in InFlight /\ index # "building"
    BY <1>1, TaskFits, PhasesAt, Zenon DEF Fits
  <2>2. /\ phase' = "failed" /\ Goto(t, "off") /\ UNCHANGED <<column, index, spec>>
        /\ "off" \in Step /\ "off" \in Ended
    BY <1>3, <2>1
       DEF MarkFailed, UpdatePhase, InFlight, Creating, Removing, Step, Ended
  <2>3. /\ phase' \in Phase \ {"declared", "adding_column"}
        /\ column' \in BOOLEAN /\ index' \in Index /\ spec' \in Entry
        /\ Objects(phase', column', index', spec')
    BY <2>1, <2>2, Zenon DEF IInv, Shape, Phase, InFlight, Creating, Removing, Objects, Free
  <2>4. IInv'
    BY <1>1, <2>2, <2>3, TaskMoves, Zenon
  <2>5. Status \in {"creating", "deleting"} /\ Status' = "failed" /\ Built' = Built
    BY <2>1, <2>2 DEF Status, Built, InFlight, Creating, Removing
  <2> QED
    BY <2>4, <2>5, Zenon DEF Kept, Contract!Next, Contract!Fail
<1> QED
  BY <1>2, <1>3, Zenon

LEMMA CreateTaskStep ==
  ASSUME IInv, NEW t \in Task, Apart, CreateTask(t)
  PROVE  Kept
<1>1. CASE StartBackfill(t) \/ RunChunks(t) \/ StartIndex(t) \/ SetIndexing(t)
  BY <1>1, StartBackfillStep, RunChunksStep, StartIndexStep, SetIndexingStep, Zenon
<1>2. CASE \/ CreateIndex(t, "cic_1", "build_1", "drop_invalid")
           \/ CreateIndex(t, "cic_2", "build_2", "mark_failed")
  BY <1>2, CreateIndexStep
<1>3. CASE \/ EndBuild(t, "build_1", "drop_invalid")
           \/ EndBuild(t, "build_2", "mark_failed")
  BY <1>3, EndBuildStep
<1>4. CASE DropInvalid(t) \/ Poll(t) \/ Promote(t) \/ MarkFailed(t)
  BY <1>4, DropInvalidStep, PollStep, PromoteStep, MarkFailedStep, Zenon
<1> QED
  BY <1>1, <1>2, <1>3, <1>4, Zenon DEF CreateTask

--------------------------------------------------------------------------------
(* run_removal_to_gone and run_drift_check                                 *)

LEMMA StartRemovalStep ==
  ASSUME IInv, NEW t \in Task, Apart, StartRemoval(t)
  PROVE  Kept
<1>1. task[t] = "remove" /\ Live(t)
  BY Zenon DEF StartRemoval, Live, Ended
<1>2. CASE GiveUp(t, "column")
  BY <1>1, <1>2, GiveUpStep, Zenon
<1>3. CASE ~GiveUp(t, "column")
  <2>1. UNCHANGED pgVars
    BY <1>3, Zenon DEF StartRemoval
  <2>2. phase \in {"removing_index", "removing_column"}
    BY <1>1, TaskFits, PhasesAt DEF Fits, Removing
  <2>3. CASE phase = "removing_index"
    <3>1. Goto(t, "drop_index") /\ "drop_index" \in Step
      BY <1>3, <2>3 DEF StartRemoval, Step, RemoveStep
    <3>2. Fits("drop_index", phase, index)
      BY <2>3, PhasesAt DEF Fits
    <3> QED
      BY <1>1, <2>1, <3>1, <3>2, TaskReads, Zenon
  <2>4. CASE phase = "removing_column"
    <3>1. Goto(t, "drop_column") /\ "drop_column" \in Step
      BY <1>3, <2>4 DEF StartRemoval, Step, RemoveStep
    <3>2. Fits("drop_column", phase, index)
      BY <2>4, PhasesAt, Zenon DEF Fits
    <3> QED
      BY <1>1, <2>1, <3>1, <3>2, TaskReads, Zenon
  <2> QED
    BY <2>2, <2>3, <2>4
<1> QED
  BY <1>2, <1>3, Zenon

LEMMA DropIndexStep ==
  ASSUME IInv, NEW t \in Task, Apart, DropIndex(t)
  PROVE  Kept
<1>1. /\ task[t] = "drop_index" /\ Live(t) /\ index # "building"
      /\ UNCHANGED <<phase, column, spec>>
  BY Zenon DEF DropIndex, Live, Ended
<1>2. phase = "removing_index" /\ column /\ index \in Index
  BY <1>1, TaskFits, PhasesAt DEF Fits, IInv, Shape, Objects, Free
<1>3. CASE index' = "none" /\ Goto(t, "set_column")
  <2>1. "set_column" \in Step /\ Fits("set_column", phase', index')
    BY <1>1, <1>2, <1>3, PhasesAt, Zenon DEF Fits, Step, RemoveStep
  <2>2. /\ phase' \in Phase \ {"declared", "adding_column"}
        /\ column' \in BOOLEAN /\ index' \in Index /\ spec' \in Entry
        /\ Objects(phase', column', index', spec')
    BY <1>1, <1>2, <1>3, Zenon DEF IInv, Shape, Index, Objects, Free
  <2>3. IInv'
    BY <1>1, <1>3, <2>1, <2>2, TaskMoves, Zenon
  <2>4. /\ Status = "deleting" /\ Status' = Status
        /\ Built # "none" /\ Built' = "some"
    BY <1>1, <1>2, <1>3, Zenon DEF Status, Built, Creating, Removing
  <2> QED
    BY <2>3, <2>4, Zenon DEF Kept, Contract!Next, Contract!DropIndex
<1>4. CASE index' = index /\ Goto(t, "mark_failed")
  <2>1. "mark_failed" \in Step /\ Fits("mark_failed", phase, index)
    BY <1>1, <1>2, PhasesAt, Zenon DEF Fits, InFlight, Removing, Step
  <2> QED
    BY <1>1, <1>4, <2>1, TaskReads DEF pgVars
<1> QED
  BY <1>3, <1>4 DEF DropIndex

LEMMA SetRemovingColumnStep ==
  ASSUME IInv, NEW t \in Task, Apart, SetRemovingColumn(t)
  PROVE  Kept
<1>1. task[t] = "set_column" /\ Live(t)
  BY Zenon DEF SetRemovingColumn, Live, Ended
<1>2. CASE GiveUp(t, "column")
  BY <1>1, <1>2, GiveUpStep, Zenon
<1>3. CASE ~GiveUp(t, "column")
  <2>1. phase = "removing_index" /\ index = "none"
    BY <1>1, TaskFits, PhasesAt, Zenon DEF Fits
  <2>2. /\ phase' = "removing_column" /\ UNCHANGED <<column, index, spec>>
        /\ Goto(t, "drop_column") /\ "drop_column" \in Step
    BY <1>3, <2>1, Zenon DEF SetRemovingColumn, UpdatePhase, Step, RemoveStep
  <2>3. /\ phase' \in Phase \ {"declared", "adding_column"}
        /\ column' \in BOOLEAN /\ index' \in Index /\ spec' \in Entry
        /\ Objects(phase', column', index', spec')
        /\ Fits("drop_column", phase', index')
    BY <2>1, <2>2, PhasesAt DEF IInv, Shape, Phase, Removing, Objects, Free, Fits
  <2>4. IInv'
    BY <1>1, <2>2, <2>3, TaskMoves, Zenon
  <2>5. Status' = Status /\ Built' = Built
    BY <2>1, <2>2, Zenon DEF Status, Built, Creating, Removing
  <2> QED
    BY <2>4, <2>5 DEF Kept, Contract!vars
<1> QED
  BY <1>2, <1>3

LEMMA DropColumnStep ==
  ASSUME IInv, NEW t \in Task, Apart, DropColumn(t)
  PROVE  Kept
<1>1. task[t] = "drop_column" /\ Live(t)
  BY Zenon DEF DropColumn, Live, Ended
<1>2. CASE GiveUp(t, "column")
  BY <1>1, <1>2, GiveUpStep, Zenon
<1>3. CASE ~GiveUp(t, "column")
  <2>1. phase = "removing_column" /\ column /\ spec # "absent" /\ index = "none"
    BY <1>1, TaskFits, PhasesAt, Zenon DEF Fits, IInv, Objects, Free
  <2>2. /\ phase' = "gone" /\ column' = FALSE /\ index' = "none" /\ spec' = "absent"
        /\ Goto(t, "off") /\ "off" \in Step /\ "off" \in Ended
    BY <1>3, <2>1, Zenon DEF DropColumn, UpdatePhase, Step, Ended
  <2>3. /\ phase' \in Phase \ {"declared", "adding_column"}
        /\ column' \in BOOLEAN /\ index' \in Index /\ spec' \in Entry
        /\ Objects(phase', column', index', spec')
    BY <2>2, Zenon DEF Phase, Index, Entry, Objects, Free
  <2>4. IInv'
    BY <1>1, <2>2, <2>3, TaskMoves, Zenon
  <2>5. Status = "deleting" /\ Status' = "absent" /\ Built = "some" /\ Built' = "none"
    BY <2>1, <2>2, Zenon DEF Status, Built, Creating, Removing
  <2> QED
    BY <2>4, <2>5 DEF Kept, Contract!Next, Contract!Forget
<1> QED
  BY <1>2, <1>3, Zenon

LEMMA VerifyStep ==
  ASSUME IInv, NEW t \in Task, Apart, Verify(t)
  PROVE  Kept
<1>1. task[t] = "verify" /\ Live(t) /\ UNCHANGED pgVars
  BY Zenon DEF Verify, Live, Ended
<1>2. CASE phase \in {"active", "degraded"} /\ Goto(t, "demote")
  <2>1. "demote" \in Step /\ Fits("demote", phase, index)
    BY <1>2, PhasesAt, Zenon DEF Fits, CheckStep, Step
  <2> QED
    BY <1>1, <1>2, <2>1, TaskReads, Zenon
<1>3. CASE Goto(t, "off")
  BY <1>1, <1>3, TaskReads, Zenon DEF Step, Ended
<1> QED
  BY <1>2, <1>3, Zenon DEF Verify

LEMMA DemoteStep ==
  ASSUME IInv, NEW t \in Task, Apart, Demote(t)
  PROVE  Kept
<1>1. /\ task[t] = "demote" /\ Live(t) /\ Goto(t, "off")
      /\ "off" \in Step /\ "off" \in Ended
  BY Zenon DEF Demote, Live, Ended, Step
<1>2. /\ phase \in {"active", "degraded"}
      /\ column /\ spec # "absent" /\ index # "building"
  BY <1>1, TaskFits, PhasesAt DEF Fits, CheckStep, IInv, Objects, Free
<1>3. phase' = "degraded" /\ spec' = "held" /\ UNCHANGED <<column, index>>
  BY <1>2 DEF Demote, UpdatePhase
<1>4. /\ phase' \in Phase \ {"declared", "adding_column"}
      /\ column' \in BOOLEAN /\ index' \in Index /\ spec' \in Entry
      /\ Objects(phase', column', index', spec')
  BY <1>2, <1>3, Zenon DEF IInv, Shape, Phase, Entry, Unserveable, Objects, Free
<1>5. IInv'
  BY <1>1, <1>4, TaskMoves, Zenon
<1>6. Status \in {"active", "degraded"} /\ Status' = "degraded" /\ Built' = Built
  BY <1>2, <1>3 DEF Status, Built, Creating, Removing
<1> QED
  BY <1>5, <1>6, Zenon DEF Kept, Contract!Next, Contract!Degrade, Contract!vars

LEMMA RunTaskStep ==
  ASSUME IInv, NEW t \in Task, RunTask(t)
  PROVE  Kept
<1>1. Apart
  BY Zenon DEF RunTask, Apart
<1>2. CASE CreateTask(t)
  BY <1>1, <1>2, CreateTaskStep, Zenon
<1>3. CASE RemoveTask(t)
  BY <1>1, <1>3, StartRemovalStep, DropIndexStep, SetRemovingColumnStep, DropColumnStep, Zenon
     DEF RemoveTask
<1>4. CASE CheckTask(t)
  BY <1>1, <1>4, VerifyStep, DemoteStep, Zenon DEF CheckTask
<1> QED
  BY <1>2, <1>3, <1>4, Zenon DEF RunTask

--------------------------------------------------------------------------------
(* Requests, checks, crashes and restarts.                                 *)

\* No task runs in a phase that no task leaves behind.
LEMMA QuietWhen ==
  ASSUME IInv, phase \in Free \cup Settled, ~Checking
  PROVE  Quiet
<1> SUFFICES ASSUME NEW t \in Task, Live(t) PROVE FALSE
  BY Zenon DEF Quiet
<1>1. phase \in PhasesOf(task[t])
  BY TaskFits, Zenon DEF Fits
<1>2. task[t] \in Step \ (Ended \cup CheckStep)
  BY Zenon DEF IInv, Shape, Live, Checking
<1>3. PhasesOf(task[t]) \subseteq InFlight
  BY <1>2, PhasesAt DEF Step, CreateStep, RemoveStep, Ended, CheckStep, Building,
     InFlight, Creating, Removing
<1> QED
  BY <1>1, <1>3 DEF Free, Settled, InFlight, Creating, Removing

\* Where nothing runs one task may start.
LEMMA TaskStarts ==
  ASSUME task \in [Task -> Step], Quiet, NEW n \in Node, n \in up',
         NEW step \in Step, Spawn(n, step),
         step \in Ended \/ Fits(step, phase', index')
  PROVE  task' \in [Task -> Step] /\ OneTask'
<1>1. PICK s \in Slot : task' = [task EXCEPT ![<<n, s>>] = step]
  BY Zenon DEF Spawn, Goto, FreeSlots
<1>2. <<n, s>> \in Task /\ <<n, s>>[1] = n
  BY DEF Task
<1>3. /\ task' \in [Task -> Step] /\ task'[<<n, s>>] = step
      /\ \A u \in Task : u # <<n, s>> => task'[u] \in Ended
  BY <1>1, <1>2 DEF Quiet, Live
<1> QED
  BY <1>2, <1>3, Zenon DEF OneTask, Live

LEMMA NoneStarts ==
  ASSUME Quiet, UNCHANGED task
  PROVE  OneTask'
  BY Zenon DEF Quiet, OneTask, Live

LEMMA PlanUpdateStep ==
  ASSUME OneNode, ClientWaits, IInv, NEW n \in Node, NEW op \in {"create", "delete"},
         PlanUpdate(n, op)
  PROVE  Kept
<1>1. /\ UNCHANGED <<phase, column, index, spec, up, task, pass>>
      /\ n \in up /\ request' = [request EXCEPT ![n] = op]
  BY DEF PlanUpdate, pgVars
<1>2. /\ op = "create" => phase \in Free
      /\ op = "delete" => phase \in Settled
      /\ ~Checking
  BY Zenon DEF PlanUpdate, MayRequest, Free, Settled
<1>3. Quiet
  BY <1>2, QuietWhen
<1>4. /\ request' \in [Node -> {"none", "create", "delete"}]
      /\ \A m \in Node : request'[m] = op
  BY <1>1 DEF IInv, Shape, OneNode
<1>5. Shape' /\ PassesKeep' /\ Objects(phase', column', index', spec')
  BY <1>1, <1>4 DEF IInv, Shape, PassesKeep
<1>6. OneTask' /\ Quiet'
  BY <1>1, <1>3 DEF Quiet, OneTask, Live
<1>7. Planned'
  BY <1>1, <1>2, <1>4, <1>6 DEF Planned, OneNode
<1>8. IInv'
  BY <1>5, <1>6, <1>7, Zenon DEF IInv
<1> QED
  BY <1>1, <1>8, SameEdge, Zenon DEF Kept

LEMMA CommitCreateStep ==
  ASSUME OneNode, IInv, NEW n \in Node, CommitCreate(n)
  PROVE  Kept
<1>1. /\ UNCHANGED <<index, up, pass>> /\ n \in up /\ request[n] = "create"
      /\ phase' = "backfilling" /\ column' = TRUE /\ spec' = "held"
      /\ request' = [request EXCEPT ![n] = "none"]
      /\ Spawn(n, "backfill") \/ Spawn(n, "dead")
  BY Zenon DEF CommitCreate, AfterCommit
<1>2. phase \in Free /\ Quiet
  BY <1>1, Zenon DEF IInv, Planned
<1>3. ~column /\ index = "none"
  BY <1>2, Zenon DEF IInv, Objects
<1>4. /\ phase' \in Phase \ {"declared", "adding_column"}
      /\ column' \in BOOLEAN /\ index' \in Index /\ spec' \in Entry
      /\ Objects(phase', column', index', spec')
      /\ Fits("backfill", phase', index')
  BY <1>1, <1>3, PhasesAt
     DEF Phase, Creating, Index, Entry, Unserveable, Objects, Free, Fits
<1>5. task' \in [Task -> Step] /\ OneTask'
  BY <1>1, <1>2, <1>4, TaskStarts, Zenon DEF IInv, Shape, Step, CreateStep, Ended
<1>6. /\ request' \in [Node -> {"none", "create", "delete"}]
      /\ \A m \in Node : request'[m] = "none"
  BY <1>1 DEF IInv, Shape, OneNode
<1>7. Shape' /\ PassesKeep'
  BY <1>1, <1>4, <1>5, <1>6 DEF IInv, Shape, PassesKeep
<1>8. Planned'
  BY <1>6 DEF Planned
<1>9. IInv'
  BY <1>4, <1>5, <1>7, <1>8, Zenon DEF IInv
<1>10. Status = "absent" /\ Status' = "creating" /\ Built' = "some"
  BY <1>1, <1>2, <1>3 DEF Status, Built, Free, Creating, Removing
<1> QED
  BY <1>9, <1>10, Zenon DEF Kept, Contract!Next, Contract!Create

LEMMA CommitDeleteStep ==
  ASSUME OneNode, IInv, NEW n \in Node, CommitDelete(n)
  PROVE  Kept
<1>1. /\ UNCHANGED <<column, index, up, pass>> /\ n \in up /\ request[n] = "delete"
      /\ phase' = IF phase = "none" THEN phase ELSE "removing_index"
      /\ spec' = "held" /\ request' = [request EXCEPT ![n] = "none"]
      /\ Spawn(n, "remove") \/ Spawn(n, "dead")
  BY Zenon DEF CommitDelete, AfterCommit
<1>2. phase \in Settled /\ Quiet
  BY <1>1, Zenon DEF IInv, Planned
<1>3. phase' = "removing_index" /\ column /\ index # "building"
  BY <1>1, <1>2, Zenon DEF IInv, Objects, Free, Settled
<1>4. /\ phase' \in Phase \ {"declared", "adding_column"}
      /\ column' \in BOOLEAN /\ index' \in Index /\ spec' \in Entry
      /\ Objects(phase', column', index', spec')
      /\ Fits("remove", phase', index')
  BY <1>1, <1>3, PhasesAt, Zenon
     DEF IInv, Shape, Phase, Removing, Entry, Unserveable, Objects, Free, Fits
<1>5. task' \in [Task -> Step] /\ OneTask'
  BY <1>1, <1>2, <1>4, TaskStarts, Zenon DEF IInv, Shape, Step, RemoveStep, Ended
<1>6. /\ request' \in [Node -> {"none", "create", "delete"}]
      /\ \A m \in Node : request'[m] = "none"
  BY <1>1, Zenon DEF IInv, Shape, OneNode
<1>7. Shape' /\ PassesKeep'
  BY <1>1, <1>4, <1>5, <1>6 DEF IInv, Shape, PassesKeep
<1>8. Planned'
  BY <1>6 DEF Planned
<1>9. IInv'
  BY <1>4, <1>5, <1>7, <1>8, Zenon DEF IInv
<1>10. /\ Status \in {"active", "degraded", "failed"} /\ Status' = "deleting"
       /\ Built' = Built
  BY <1>1, <1>2, <1>3 DEF Status, Built, Settled, Creating, Removing
<1> QED
  BY <1>9, <1>10 DEF Kept, Contract!Next, Contract!Delete

LEMMA StartCheckStep ==
  ASSUME OneNode, ClientWaits, IInv, NEW n \in Node, StartCheck(n)
  PROVE  Kept
<1>1. /\ UNCHANGED <<phase, column, index, spec, up, request, pass>>
      /\ n \in up /\ phase \in {"active", "degraded"} /\ ~Checking
      /\ Spawn(n, "verify") /\ \A m \in Node : request[m] = "none"
  BY Zenon DEF StartCheck, pgVars
<1>2. Quiet
  BY <1>1, QuietWhen, Zenon DEF Settled
<1>3. Fits("verify", phase', index') /\ "verify" \in Step
  BY <1>1, PhasesAt, Zenon DEF Fits, CheckStep, Step
<1>4. task' \in [Task -> Step] /\ OneTask'
  BY <1>1, <1>2, <1>3, TaskStarts, Zenon DEF IInv, Shape
<1>5. Shape' /\ PassesKeep' /\ Objects(phase', column', index', spec')
  BY <1>1, <1>4 DEF IInv, Shape, PassesKeep
<1>6. Planned'
  BY <1>1 DEF Planned
<1>7. IInv'
  BY <1>4, <1>5, <1>6, Zenon DEF IInv
<1> QED
  BY <1>1, <1>7, SameEdge, Zenon DEF Kept

LEMMA CrashStep ==
  ASSUME OneNode, IInv, NEW n \in Node, Crash(n)
  PROVE  Kept
<1>1. /\ UNCHANGED <<phase, column, index, spec>> /\ up' = up \ {n}
      /\ request' = [request EXCEPT ![n] = "none"]
      /\ task' = [t \in Task |-> IF t[1] = n THEN "off" ELSE task[t]]
      /\ pass' = [p \in DOMAIN pass |-> IF p[1] = n THEN NoPass ELSE pass[p]]
  BY Zenon DEF Crash, pgVars
<1>2. task' = [t \in Task |-> "off"]
  <2>1. \A t \in Task : t[1] = n
    BY Zenon DEF Task, OneNode
  <2> QED
    BY <1>1, <2>1, Zenon
<1>3. /\ request' \in [Node -> {"none", "create", "delete"}]
      /\ \A m \in Node : request'[m] = "none"
  BY <1>1 DEF IInv, Shape, OneNode
<1>4. NoPass \in Pass /\ NoPass.at = "off"
  BY Zenon DEF NoPass, Pass, PassAt, Entry
<1>5. /\ pass' \in [Node \X PassSlot -> Pass]
      /\ \A p \in Node \X PassSlot : pass'[p].at = "off" \/ pass'[p] = pass[p]
  BY <1>1, <1>4 DEF IInv, Shape
<1>6. Shape'
  BY <1>1, <1>2, <1>3, <1>5 DEF IInv, Shape, Step
<1>7. OneTask'
  BY <1>2 DEF OneTask, Live, Ended
<1>8. Planned'
  BY <1>3 DEF Planned
<1>9. PassesKeep'
  BY <1>5 DEF IInv, PassesKeep
<1>10. IInv'
  BY <1>1, <1>6, <1>7, <1>8, <1>9 DEF IInv
<1> QED
  BY <1>1, <1>10, SameEdge, Zenon DEF Kept

LEMMA BootStep ==
  ASSUME OneNode, IInv, NEW n \in Node, Boot(n)
  PROVE  Kept
<1>1. /\ UNCHANGED <<phase, column, index, spec, request, pass>>
      /\ n \notin up /\ up' = up \cup {n}
  BY Zenon DEF Boot, pgVars
<1>2. Quiet
  <2> SUFFICES ASSUME NEW t \in Task, Live(t) PROVE FALSE
    BY DEF Quiet
  <2>1. t[1] \in up /\ t[1] \in Node
    BY Zenon DEF IInv, OneTask, Task
  <2> QED
    BY <1>1, <2>1, Zenon DEF OneNode
<1>3. task' \in [Task -> Step] /\ OneTask'
  <2>1. CASE phase \in Creating /\ Spawn(n, "backfill")
    <3>1. Fits("backfill", phase', index') /\ "backfill" \in Step
      BY <1>1, <2>1, PhasesAt DEF Fits, Step, CreateStep
    <3> QED
      BY <1>1, <1>2, <2>1, <3>1, TaskStarts DEF IInv, Shape
  <2>2. CASE phase \in Removing /\ Spawn(n, "remove")
    <3>1. Fits("remove", phase', index') /\ "remove" \in Step
      BY <1>1, <2>2, PhasesAt DEF Fits, Step, RemoveStep
    <3> QED
      BY <1>1, <1>2, <2>2, <3>1, TaskStarts DEF IInv, Shape
  <2>3. CASE UNCHANGED task
    BY <1>2, <2>3, NoneStarts, Zenon DEF IInv, Shape
  <2> QED
    BY <2>1, <2>2, <2>3, Zenon DEF Boot
<1>4. Shape' /\ PassesKeep' /\ Objects(phase', column', index', spec')
  BY <1>1, <1>3, Zenon DEF IInv, Shape, PassesKeep
<1>5. \A m \in Node : request'[m] = "none"
  BY <1>1, Zenon DEF IInv, Planned, OneNode
<1>6. Planned'
  BY <1>5, Zenon DEF Planned
<1>7. IInv'
  BY <1>3, <1>4, <1>6, Zenon DEF IInv
<1> QED
  BY <1>1, <1>7, SameEdge, Zenon DEF Kept

LEMMA FinishOrphanBuildStep ==
  ASSUME IInv, FinishOrphanBuild
  PROVE  Kept
<1>1. /\ UNCHANGED <<phase, column, spec, up, request, task, pass>>
      /\ index = "building" /\ index' \in {"valid", "invalid"}
  BY Zenon DEF FinishOrphanBuild, Orphaned
<1>2. phase = "indexing" /\ column
  BY <1>1, Zenon DEF IInv, Objects, Free
<1>3. Shape' /\ PassesKeep' /\ Planned' /\ Objects(phase', column', index', spec')
  BY <1>1, <1>2 DEF IInv, Shape, Index, PassesKeep, Planned, Quiet, Live, Objects, Free
<1>4. OneTask'
  <2>1. \A t \in Task : Live(t) => Fits(task[t], phase', index')
    BY <1>1, <1>2, TaskFits, PhasesAt DEF Fits
  <2> QED
    BY <1>1, <2>1, Zenon DEF IInv, OneTask, Live
<1>5. IInv'
  BY <1>3, <1>4, Zenon DEF IInv
<1>6. Status = "creating" /\ Status' = Status /\ Built' \in {"some", "all"}
  BY <1>1, <1>2 DEF Status, Built, Creating, Removing
<1> QED
  BY <1>5, <1>6 DEF Kept, Contract!Next, Contract!Build

--------------------------------------------------------------------------------
(* The reconciler.                                                         *)

\* What a pass may do: go on, and write a verdict that there is a GSI.
LEMMA PassMoves ==
  ASSUME IInv, NEW p \in Node \X PassSlot, NEW r \in Pass, SetPass(p, r),
         UNCHANGED <<phase, column, index, up, request, task>>,
         r.at = "verdict" /\ r.verdict = "absent" => r.loaded = "absent",
         spec' \in Entry, spec' = spec \/ spec' # "absent"
  PROVE  Kept
<1>1. /\ pass' \in [Node \X PassSlot -> Pass] /\ pass'[p] = r
      /\ \A q \in Node \X PassSlot : q # p => pass'[q] = pass[q]
  BY Zenon DEF IInv, Shape, SetPass
<1>2. Shape' /\ OneTask' /\ Planned'
  BY <1>1 DEF IInv, Shape, OneTask, Planned, Quiet, Live
<1>3. PassesKeep'
  BY <1>1 DEF IInv, PassesKeep
<1>4. Objects(phase', column', index', spec')
  BY Zenon DEF IInv, Objects
<1>5. IInv'
  BY <1>2, <1>3, <1>4, Zenon DEF IInv
<1> QED
  BY <1>5, SameEdge, Zenon DEF Kept

LEMMA NoPassIsPass == NoPass \in Pass /\ NoPass.at = "off"
  BY Zenon DEF NoPass, Pass, PassAt, Entry

LEMMA VerdictIsEntry ==
  \A loaded \in Entry, col \in BOOLEAN, idx \in Index :
    /\ CheckGsi(loaded, col, idx) \in Entry
    /\ CheckGsi(loaded, col, idx) = "absent" => loaded = "absent"
  BY DEF CheckGsi, Entry, Unserveable, Index

LEMMA RunPassStep ==
  ASSUME IInv, NEW p \in Node \X PassSlot, RunPass(p)
  PROVE  Kept
<1>1. UNCHANGED <<phase, column, index, up, request, task>>
  BY Zenon DEF RunPass
<1>2. pass[p] \in Pass /\ spec \in Entry /\ column \in BOOLEAN /\ index \in Index
  BY DEF IInv, Shape
<1>3. CASE LoadSnapshot(p)
  <2> DEFINE r == [NoPass EXCEPT !.at = "loaded", !.loaded = spec]
  <2>1. SetPass(p, r) /\ spec' = spec
    BY <1>3 DEF LoadSnapshot
  <2>2. r \in Pass /\ r.at = "loaded"
    BY <1>2, NoPassIsPass, Zenon DEF Pass, PassAt
  <2> QED
    BY <1>1, <1>2, <2>1, <2>2, PassMoves, Zenon
<1>4. CASE (FetchColumns(p) \/ FetchIndexes(p)) /\ SkipTable(p)
  <2> DEFINE r == [pass[p] EXCEPT !.at = "written", !.verdict = pass[p].loaded]
  <2>1. SetPass(p, r) /\ spec' = spec
    BY <1>4 DEF FetchColumns, FetchIndexes, SkipTable
  <2>2. r \in Pass /\ r.at = "written"
    BY <1>2, Zenon DEF Pass, PassAt
  <2> QED
    BY <1>1, <1>2, <2>1, <2>2, PassMoves, Zenon
<1>5. CASE FetchColumns(p) /\ ~SkipTable(p)
  <2> DEFINE r == [pass[p] EXCEPT !.at = "columns", !.column = column]
  <2>1. SetPass(p, r) /\ spec' = spec
    BY <1>5 DEF FetchColumns
  <2>2. r \in Pass /\ r.at = "columns"
    BY <1>2, Zenon DEF Pass, PassAt
  <2> QED
    BY <1>1, <1>2, <2>1, <2>2, PassMoves, Zenon
<1>6. CASE FetchIndexes(p) /\ ~SkipTable(p)
  <2> DEFINE v == CheckGsi(pass[p].loaded, pass[p].column, index)
             r == [pass[p] EXCEPT !.at = "verdict", !.verdict = v]
  <2>1. SetPass(p, r) /\ spec' = spec
    BY <1>6, Zenon DEF FetchIndexes
  <2>2. v \in Entry /\ (v = "absent" => pass[p].loaded = "absent")
    BY <1>2, VerdictIsEntry, Zenon DEF Pass
  <2> HIDE DEF v
  <2>3. r \in Pass /\ r.verdict = v /\ r.loaded = pass[p].loaded
    BY <1>2, <2>2, Zenon DEF Pass, PassAt
  <2> QED
    BY <1>1, <1>2, <2>1, <2>2, <2>3, PassMoves, Zenon
<1>7. CASE WriteVerdict(p)
  <2> DEFINE r == [pass[p] EXCEPT !.at = "written"]
  <2>1. r \in Pass /\ r.at = "written" /\ pass[p].verdict \in Entry
    BY <1>2, Zenon DEF Pass, PassAt
  <2>2. pass[p].verdict = "absent" => pass[p].loaded = "absent"
    BY <1>7, Zenon DEF WriteVerdict, IInv, PassesKeep
  <2>3. CASE pass[p].verdict # pass[p].loaded /\ spec' = pass[p].verdict /\ SetPass(p, r)
    <3>1. spec' \in Entry /\ spec' # "absent"
      BY <2>1, <2>2, <2>3
    <3> QED
      BY <1>1, <2>1, <2>3, <3>1, PassMoves, Zenon
  <2>4. CASE SetPass(p, r) /\ spec' = spec
    BY <1>1, <1>2, <2>1, <2>4, PassMoves, Zenon
  <2>5. CASE SetPass(p, NoPass) /\ spec' = spec
    BY <1>1, <1>2, <2>5, NoPassIsPass, PassMoves
  <2> QED
    BY <1>7, <2>3, <2>4, <2>5 DEF WriteVerdict
<1>8. CASE ReplaceSnapshot(p)
  <2>1. SetPass(p, NoPass) /\ spec' = spec
    BY <1>8, Zenon DEF ReplaceSnapshot
  <2> QED
    BY <1>1, <1>2, <2>1, NoPassIsPass, PassMoves
<1> QED
  BY <1>3, <1>4, <1>5, <1>6, <1>7, <1>8 DEF RunPass

--------------------------------------------------------------------------------

LEMMA InitIInv == ASSUME Init PROVE IInv
<1>1. Shape
  BY NoPassIsPass, Zenon DEF Init, Shape, Phase, Creating, Removing, Index, Entry, Step
<1>2. OneTask /\ Planned
  BY Zenon DEF Init, OneTask, Planned, Live, Ended
<1>3. PassesKeep
  BY NoPassIsPass, Zenon DEF Init, PassesKeep
<1>4. Objects(phase, column, index, spec)
  BY Zenon DEF Init, Objects, Free
<1> QED
  BY <1>1, <1>2, <1>3, <1>4, Zenon DEF IInv

LEMMA Stutter ==
  ASSUME IInv, UNCHANGED vars
  PROVE  Kept
<1>1. UNCHANGED <<phase, column, index, spec, up, request, task, pass>>
  BY Zenon DEF vars
<1>2. Shape' /\ OneTask' /\ Planned' /\ PassesKeep'
  BY <1>1 DEF IInv, Shape, OneTask, Planned, Quiet, Live, PassesKeep
<1>3. IInv'
  BY <1>1, <1>2, Zenon DEF IInv
<1> QED
  BY <1>1, <1>3, SameEdge, Zenon DEF Kept

LEMMA StepKept ==
  ASSUME OneNode, ClientWaits, IInv, [Next]_vars
  PROVE  Kept
<1>1. ASSUME NEW n \in Node,
             \/ \E op \in {"create", "delete"} : PlanUpdate(n, op)
             \/ CommitCreate(n) \/ CommitDelete(n)
      PROVE  Kept
  BY <1>1, PlanUpdateStep, CommitCreateStep, CommitDeleteStep, Zenon
<1>2. ASSUME NEW n \in Node, StartCheck(n) \/ Crash(n) \/ Boot(n) PROVE Kept
  BY <1>2, StartCheckStep, CrashStep, BootStep, Zenon
<1>3. ASSUME NEW t \in Task, RunTask(t) PROVE Kept
  BY <1>3, RunTaskStep, Zenon
<1>4. ASSUME NEW p \in Node \X PassSlot, RunPass(p) PROVE Kept
  BY <1>4, RunPassStep, Zenon
<1>5. CASE FinishOrphanBuild
  BY <1>5, FinishOrphanBuildStep, Zenon
<1>6. CASE UNCHANGED vars
  BY <1>6, Stutter, Zenon
<1> QED
  BY <1>1, <1>2, <1>3, <1>4, <1>5, <1>6, Zenon DEF Next

(***************************************************************************)
(* UpdateTable, the create, removal and drift tasks, the reconciler and    *)
(* boot_resume_in_flight implement GsiContract on one node whose operator  *)
(* waits for each operation to end.  Whatever crashes, restarts, orphaned  *)
(* index builds, PostgreSQL errors and overlapping reconcile passes do     *)
(* between two statements, the phase moves along the documented edges,     *)
(* becomes active only over a column and a valid index, and is forgotten   *)
(* only with both of them.                                                 *)
(***************************************************************************)
THEOREM LifecycleImplementsContract ==
  ASSUME OneNode, ClientWaits
  PROVE  Spec => ImplementsContract
<1>1. Init => IInv
  BY InitIInv
<1>2. IInv /\ [Next]_vars => IInv'
  BY StepKept DEF Kept
<1>3. Init => Contract!Init
  BY Zenon DEF Init, Contract!Init, Status, Built, Creating, Removing
<1>4. IInv /\ [Next]_vars => [Contract!Next]_(Contract!vars)
  BY StepKept, Zenon DEF Kept
<1> QED
  BY <1>1, <1>2, <1>3, <1>4, PTL DEF Spec, ImplementsContract, Contract!Spec

================================================================================
