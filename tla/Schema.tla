-------------------------------- MODULE Schema --------------------------------
(***************************************************************************)
(* The columns and indexes of one table: validation of CreateTable and     *)
(* UpdateTable (crates/rekt-ddl/src/validation.rs), the DDL they emit      *)
(* (create.rs, naming.rs, lib.rs), the row of _rektifier_tables            *)
(* (rekt-catalog/src/metadata.rs), the reconciler's verdict on it          *)
(* (reconciler.rs), DescribeTable (rekt-server/src/ddl.rs) and the column  *)
(* accounting of index creation and removal (rekt-gsi/src/).               *)
(*                                                                         *)
(* One rektifier node.  A reconcile pass is one step here and its steps    *)
(* are GsiLifecycle's and Catalog's subject; so are crashes and failing    *)
(* statements.                                                             *)
(***************************************************************************)
EXTENDS Integers, Sequences, SequencesExt, FiniteSets

CONSTANTS
  Column,          \* attribute name |-> the column PostgreSQL makes of it unquoted
  Sanitize,        \* index name |-> what derive_index_name keeps of it
  CreateRequests, UpdateRequests,
  Client,
  Waits,           \* administrative requests come one after the other
  MaxTables, MaxUpdates

Attr == DOMAIN Column
IndexName == DOMAIN Sanitize
KeyType == {"S", "N", "B"}
None == "none"
NotAName == "not a name"   \* a keyword, a digit first: a syntax error unquoted
Jsonb == "data"

(***************************************************************************)
(* Requests.  A key schema is a sequence of [attr, role].  `names` and     *)
(* `options` are the outcome of the checks that decide on one name or one  *)
(* option by itself; what the table does not depend on is left out.        *)
(***************************************************************************)
KeySchemaElement == [attr : Attr, role : STRING]
AttributeDefinition == [attr : Attr, type : STRING]
SecondaryIndex == [name : IndexName, key : Seq(KeySchemaElement), projection : STRING]
CreateTableRequest ==
  [names : BOOLEAN, options : BOOLEAN, key : Seq(KeySchemaElement), defs : Seq(AttributeDefinition),
   lsis : Seq(SecondaryIndex), gsis : Seq(SecondaryIndex), billing : STRING]
UpdateTableRequest ==
  [names : BOOLEAN, options : BOOLEAN, defs : Seq(AttributeDefinition), creates : Seq(SecondaryIndex),
   deletes : Seq(IndexName), billing : STRING]

ASSUME ParamAssumption ==
  /\ None \notin Attr
  /\ CreateRequests \subseteq CreateTableRequest
  /\ UpdateRequests \subseteq UpdateTableRequest
  /\ Waits \in BOOLEAN
  /\ MaxTables \in Nat /\ MaxUpdates \in Nat

VARIABLES
  columns,   \* the table's columns: name |-> type and whether it is GENERATED
  primary,   \* the columns of its primary key
  pgIndex,   \* the indexes: PostgreSQL name |-> columns
  row,       \* the row of _rektifier_tables
  cache,     \* the entry of the node's snapshot
  state,     \* _rektifier_gsi_state: GSI name |-> phase and columns
  request,   \* the UpdateTable each client has in progress
  tasks,     \* the GSI tasks that run
  reply,     \* what the last step answered
  live,      \* the GSIs created and not deleted since, as clients see it
  tables, updates   \* how many there were

pgVars == <<columns, primary, pgIndex>>
vars == <<columns, primary, pgIndex, row, cache, state, request, tasks, reply,
          live, tables, updates>>

--------------------------------------------------------------------------------
(***************************************************************************)
(* Validation.                                                             *)
(***************************************************************************)

Entries(key, role) == {i \in DOMAIN key : key[i].role = role}
Named(key, role) == IF Entries(key, role) = {} THEN None
                    ELSE key[CHOOSE i \in Entries(key, role) : TRUE].attr

\* validate_gsi_key_schema, and the same of the base table
KeySchema(key) ==
  /\ Len(key) \in 1..2
  /\ \A i \in DOMAIN key : key[i].role \in {"HASH", "RANGE"}
  /\ Cardinality(Entries(key, "HASH")) = 1
  /\ Cardinality(Entries(key, "RANGE")) <= 1

Key(key) == [hash |-> Named(key, "HASH"), range |-> Named(key, "RANGE")]
KeyAttrs(key) == {key[i].attr : i \in DOMAIN key}
Distinct(s, Field(_)) == \A i, j \in DOMAIN s : Field(s[i]) = Field(s[j]) => i = j

\* The definitions as the map they are collected in: the last one counts.
TypeOf(defs, a) ==
  LET Of == {i \in DOMAIN defs : defs[i].attr = a}
  IN  IF a = None \/ Of = {} THEN None
      ELSE defs[CHOOSE i \in Of : \A j \in Of : j <= i].type

\* validate_key_schema_and_attrs
Keyed(req) ==
  KeyAttrs(req.key)
    \cup UNION {KeyAttrs(req.gsis[i].key) : i \in DOMAIN req.gsis}
    \cup UNION {KeyAttrs(req.lsis[i].key) : i \in DOMAIN req.lsis}

AttrsDefined(req) ==
  /\ Len(req.defs) >= 1
  /\ \A i \in DOMAIN req.defs : req.defs[i].type \in KeyType
  /\ Distinct(req.defs, LAMBDA d : d.attr)
  /\ Keyed(req) = {req.defs[i].attr : i \in DOMAIN req.defs}

\* The GSI's key schema is not the table's, nor its partition key alone.
NotRedundant(key, base) ==
  key.hash = base.hash => key.range \notin {None, base.range}

\* validate_gsi_structures
GsiStructuresValid(req) ==
  /\ Distinct(req.gsis, LAMBDA g : g.name)
  /\ \A i \in DOMAIN req.gsis : KeySchema(req.gsis[i].key)

\* validate_gsi_plans, which runs once the structures are known to be valid.
GsisValid(req) ==
  /\ GsiStructuresValid(req)
  /\ \A i \in DOMAIN req.gsis : NotRedundant(Key(req.gsis[i].key), Key(req.key))

\* validate_lsi_structures
LsisValid(req) ==
  LET base == Key(req.key)
  IN  req.lsis # <<>> =>
        /\ Len(req.lsis) <= 5
        /\ base.range # None
        /\ Distinct(req.lsis, LAMBDA l : l.name)
        /\ \A i \in DOMAIN req.lsis :
             LET key == req.lsis[i].key
             IN  /\ KeySchema(key) /\ Len(key) = 2
                 /\ Key(key).hash = base.hash
                 /\ Key(key).range \notin {base.hash, base.range}
        /\ Distinct(req.lsis, LAMBDA l : Key(l.key).range)

\* Lengths and characters of names; streams, billing mode, throughput.
NamesValid(req) == req.names
OptionsValid(req) == req.options

\* validate_create_table
ValidateCreateTable(req) ==
  /\ NamesValid(req)
  /\ KeySchema(req.key)
  /\ AttrsDefined(req)
  /\ GsisValid(req)
  /\ LsisValid(req)
  /\ OptionsValid(req)

\* validate_update_table_gsi_create; `names` are those of the cached entry.
ValidateGsiCreate(gsi, defs, base, names) ==
  /\ gsi.name \notin names
  /\ KeySchema(gsi.key)
  /\ \A i \in DOMAIN defs : defs[i].type \in KeyType
  /\ KeyAttrs(gsi.key) \subseteq {defs[i].attr : i \in DOMAIN defs}
  /\ NotRedundant(Key(gsi.key), base)

--------------------------------------------------------------------------------
(***************************************************************************)
(* The catalog row.                                                        *)
(***************************************************************************)

\* build_lsi_specs
LsiSpec(lsi, defs) ==
  LET sort == Key(lsi.key).range
  IN  [name |-> lsi.name, sort |-> sort, type |-> TypeOf(defs, sort),
       projection |-> lsi.projection, serveable |-> TRUE]

\* build_gsi_specs, and the spec UpdateTable builds
GsiSpec(gsi, defs, mode) ==
  LET key == Key(gsi.key)
  IN  [name |-> gsi.name, hash |-> key.hash, hashType |-> TypeOf(defs, key.hash),
       range |-> key.range, rangeType |-> TypeOf(defs, key.range),
       projection |-> gsi.projection, mode |-> mode,
       serveable |-> mode = "generated"]

\* INSERT_CREATING_SQL and UPDATE_TO_ACTIVE_SQL
NewRow(req) ==
  LET key == Key(req.key)
  IN  [hash |-> key.hash, hashType |-> TypeOf(req.defs, key.hash),
       range |-> key.range, rangeType |-> TypeOf(req.defs, key.range),
       billing |-> req.billing, serveable |-> TRUE,
       lsis |-> [i \in DOMAIN req.lsis |-> LsiSpec(req.lsis[i], req.defs)],
       gsis |-> [i \in DOMAIN req.gsis |-> GsiSpec(req.gsis[i], req.defs, "generated")]]

Absent == [serveable |-> FALSE, lsis |-> <<>>, gsis |-> <<>>]
Exists(r) == r # Absent

NamesOf(specs) == {specs[i].name : i \in DOMAIN specs}

\* row_to_entry keeps the GSIs in a map: of two entries of a name the last.
RowToEntry(r) ==
  LET Counts(i) == \A j \in DOMAIN r.gsis : r.gsis[j].name = r.gsis[i].name => j <= i
  IN  [r EXCEPT !.gsis = SetToSeq({@[i] : i \in {k \in DOMAIN @ : Counts(k)}})]

\* The columns of an index, partition first.
Cols(hash, range) == IF range = None THEN <<hash>> ELSE <<hash, range>>
GsiCols(g) == Cols(g.hash, g.range)
LsiCols(l, r) == <<r.hash, l.sort>>

--------------------------------------------------------------------------------
(***************************************************************************)
(* create_table_sql.  Names are unquoted, so PostgreSQL folds them.  The   *)
(* columns are compared as the request spells them.                        *)
(***************************************************************************)

ColumnType(r) ==
  LET Typed == {<<r.hash, r.hashType>>, <<r.range, r.rangeType>>}
                 \cup {<<r.lsis[i].sort, r.lsis[i].type>> : i \in DOMAIN r.lsis}
                 \cup {<<r.gsis[i].hash, r.gsis[i].hashType>> : i \in DOMAIN r.gsis}
                 \cup {<<r.gsis[i].range, r.gsis[i].rangeType>> : i \in DOMAIN r.gsis}
  IN  {t \in Typed : t[1] # None}
Emitted(r) == {t[1] : t \in ColumnType(r)}

\* What PostgreSQL accepts: every column a name, and no name twice.
Creatable(r) ==
  /\ r.hash # r.range
  /\ \A a \in Emitted(r) : Column[a] \notin {NotAName, Jsonb}
  /\ \A a, b \in Emitted(r) : Column[a] = Column[b] => a = b

CreatedColumns(r) ==
  [c \in {Jsonb} \cup {Column[a] : a \in Emitted(r)} |->
     IF c = Jsonb THEN [type |-> "jsonb", generated |-> FALSE]
     ELSE [type |-> (CHOOSE t \in ColumnType(r) : Column[t[1]] = c)[2],
           generated |-> TRUE]]

Folded(cols) == [i \in DOMAIN cols |-> Column[cols[i]]]

\* derive_lsi_index_name, derive_gsi_index_name
PgName(kind, name) == <<kind, Sanitize[name]>>

\* CREATE INDEX IF NOT EXISTS, in order: the first of a name is the one.
CreatedIndexes(r) ==
  LET all == [i \in DOMAIN r.lsis |-> <<PgName("lsi", r.lsis[i].name),
                                       Folded(LsiCols(r.lsis[i], r))>>]
             \o [i \in DOMAIN r.gsis |-> <<PgName("gsi", r.gsis[i].name),
                                          Folded(GsiCols(r.gsis[i]))>>]
      First(n) == CHOOSE i \in DOMAIN all :
                    all[i][1] = n /\ \A j \in DOMAIN all : all[j][1] = n => i <= j
  IN  [n \in {all[i][1] : i \in DOMAIN all} |-> all[First(n)][2]]

--------------------------------------------------------------------------------
(***************************************************************************)
(* The reconciler's verdict.  Names are compared as they are stored.       *)
(***************************************************************************)

\* check_column_with_mode
CheckColumn(col, type, generated) ==
  /\ col \in DOMAIN columns
  /\ columns[col] = [type |-> type, generated |-> generated]

\* The part of introspect that decides on the table.
BaseServeable(r) ==
  /\ columns # <<>>
  /\ CheckColumn(r.hash, r.hashType, TRUE)
  /\ r.range # None => CheckColumn(r.range, r.rangeType, TRUE)
  /\ primary = Cols(r.hash, r.range)

\* fetch_indexes and the comparison with its definition
CheckIndex(name, cols) == name \in DOMAIN pgIndex /\ pgIndex[name] = cols

CheckLsi(l, r) ==
  /\ CheckColumn(l.sort, l.type, TRUE)
  /\ CheckIndex(PgName("lsi", l.name), LsiCols(l, r))

\* Mutant of CheckGsi: the column must be GENERATED whatever the mode.
CheckGsiGenerated(g) ==
  /\ CheckColumn(g.hash, g.hashType, TRUE)
  /\ g.range # None => CheckColumn(g.range, g.rangeType, TRUE)
  /\ CheckIndex(PgName("gsi", g.name), GsiCols(g))

CheckGsi(g) ==
  /\ CheckColumn(g.hash, g.hashType, g.mode = "generated")
  /\ g.range # None => CheckColumn(g.range, g.rangeType, g.mode = "generated")
  /\ CheckIndex(PgName("gsi", g.name), GsiCols(g))

Introspect(r) ==
  LET base == BaseServeable(r)
      Lsi(l) == [l EXCEPT !.serveable = base /\ CheckLsi(l, r)]
      Gsi(g) == [g EXCEPT !.serveable = base /\ CheckGsi(g)]
  IN  [r EXCEPT !.serveable = base,
                !.lsis = [i \in DOMAIN @ |-> Lsi(@[i])],
                !.gsis = [i \in DOMAIN @ |-> Gsi(@[i])]]

\* reconcile_now: the verdict goes to the row and to the snapshot.
Reconciled(r) == IF Exists(r) THEN Introspect(RowToEntry(r)) ELSE r
ReconcileNow == row' = Reconciled(row) /\ cache' = row'

--------------------------------------------------------------------------------
(***************************************************************************)
(* DescribeTable: table_description_from_entry.  A description's           *)
(* attribute definitions name each attribute once, first come first.       *)
(***************************************************************************)

Projected(p) == IF p = None THEN "ALL" ELSE p
IndexKey(hash, range) == [hash |-> hash, range |-> range]

LsiDescription(l, e) ==
  [name |-> l.name, key |-> IndexKey(e.hash, l.sort), projection |-> Projected(l.projection)]

\* Mutant of GsiDescription: the sort key of an index is not shown.
GsiDescriptionHashOnly(g) ==
  [name |-> g.name, key |-> IndexKey(g.hash, None), projection |-> Projected(g.projection),
   status |-> IF g.serveable THEN "ACTIVE" ELSE "CREATING"]

GsiDescription(g) ==
  [name |-> g.name, key |-> IndexKey(g.hash, g.range), projection |-> Projected(g.projection),
   status |-> IF g.serveable THEN "ACTIVE" ELSE "CREATING"]

DescribeTable(e) ==
  [key |-> IndexKey(e.hash, e.range), attrs |-> ColumnType(e), billing |-> e.billing,
   lsis |-> {LsiDescription(e.lsis[i], e) : i \in DOMAIN e.lsis},
   gsis |-> {GsiDescription(e.gsis[i]) : i \in DOMAIN e.gsis}]

--------------------------------------------------------------------------------
NoReply == [op |-> "none", result |-> "none", req |-> [names |-> FALSE]]
NoTable == <<>>
Planned(u, e) == [at |-> "planned", update |-> u, entry |-> e]
Committed == [at |-> "committed"]
Free == [at |-> "free"]

Quiet == (\A c \in Client : request[c] = Free) /\ tasks = {}
MayUpdate(c) == Waits => \A d \in Client : request[d] = Free

Init ==
  /\ columns = NoTable /\ primary = <<>> /\ pgIndex = NoTable
  /\ row = Absent /\ cache = Absent
  /\ state = [g \in IndexName |-> [phase |-> "none", cols |-> <<>>]]
  /\ request = [c \in Client |-> Free]
  /\ tasks = {} /\ reply = NoReply /\ live = {}
  /\ tables = 0 /\ updates = 0

(***************************************************************************)
(* create_table: one transaction, then a reconcile pass.  A statement that *)
(* PostgreSQL refuses rolls all of it back.                                *)
(***************************************************************************)
CreateTable(req) ==
  /\ tables < MaxTables /\ ~Exists(row) /\ ~Exists(cache) /\ (Waits => Quiet)
  /\ \/ /\ ~ValidateCreateTable(req)
        /\ reply' = [NoReply EXCEPT !.op = "create", !.result = "validation"]
        /\ UNCHANGED <<pgVars, row, cache, live, tables>>
     \/ /\ ValidateCreateTable(req) /\ ~Creatable(NewRow(req))
        /\ reply' = [op |-> "create", result |-> "internal", req |-> req]
        /\ UNCHANGED <<pgVars, row, cache, live, tables>>
     \/ /\ ValidateCreateTable(req) /\ Creatable(NewRow(req))
        /\ columns' = CreatedColumns(NewRow(req))
        /\ primary' = Folded(Cols(NewRow(req).hash, NewRow(req).range))
        /\ pgIndex' = CreatedIndexes(NewRow(req))
        /\ row' = Introspect(NewRow(req))'
        /\ cache' = row'
        /\ live' = NamesOf(req.gsis)
        /\ tables' = tables + 1
        /\ reply' = [op |-> "create", result |-> "ok", req |-> req]
  /\ UNCHANGED <<state, request, tasks, updates>>

(***************************************************************************)
(* delete_table: the table and its row; the GSIs' state rows stay.         *)
(***************************************************************************)
DeleteTable ==
  /\ Exists(cache) /\ Exists(row) /\ (Waits => Quiet)
  /\ columns' = NoTable /\ primary' = <<>> /\ pgIndex' = NoTable
  /\ row' = Absent /\ cache' = Absent /\ live' = {}
  /\ reply' = NoReply
  /\ UNCHANGED <<state, request, tasks, tables, updates>>

--------------------------------------------------------------------------------
(***************************************************************************)
(* update_table.  The entry comes from the snapshot and is used after the  *)
(* lock is taken: for the names that exist, for the columns that other     *)
(* indexes use, and for the array that replaces gsi_specs.                 *)
(***************************************************************************)

ValidateUpdate(u, e) ==
  /\ NamesValid(u) /\ OptionsValid(u)
  /\ Range(u.deletes) \subseteq NamesOf(e.gsis)
  /\ \A i \in DOMAIN u.creates :
       ValidateGsiCreate(u.creates[i], u.defs, IndexKey(e.hash, e.range), NamesOf(e.gsis))

PlanUpdate(c, u) ==
  /\ request[c] = Free /\ updates < MaxUpdates /\ Exists(cache) /\ MayUpdate(c)
  /\ \/ /\ ValidateUpdate(u, cache)
        /\ request' = [request EXCEPT ![c] = Planned(u, cache)]
        /\ updates' = updates + 1
        /\ reply' = NoReply
     \/ /\ ~ValidateUpdate(u, cache)
        /\ reply' = [NoReply EXCEPT !.op = "update", !.result = "validation"]
        /\ UNCHANGED <<request, updates>>
  /\ UNCHANGED <<pgVars, row, cache, state, tasks, live, tables>>

\* build_referenced_columns, refcount_referenced_columns
Referenced(r, others) ==
  {r.hash, r.range} \cup {r.lsis[i].sort : i \in DOMAIN r.lsis}
    \cup UNION {Range(GsiCols(g)) : g \in others}

Others(r, name) == {g \in Range(r.gsis) : g.name # name}
Without(f, S) == [x \in DOMAIN f \ S |-> f[x]]

\* DROP COLUMN also drops the indexes on the column.
DropColumns(ixs, S) == Without(ixs, {n \in DOMAIN ixs : Range(ixs[n]) \cap S # {}})

GeneratedDeletes(u, e) ==
  {g \in Range(e.gsis) : g.name \in Range(u.deletes) /\ g.mode = "generated"}

\* Mutant of DroppedBy: the columns of the index, whoever else uses them.
DroppedByOwner(u, e) == UNION {Range(GsiCols(g)) : g \in GeneratedDeletes(u, e)}

\* drop_generated_gsi_in_tx, for each such index by itself
DroppedBy(u, e) ==
  UNION {Range(GsiCols(g)) \ Referenced(e, Others(e, g.name)) : g \in GeneratedDeletes(u, e)}

\* Mutant of Merged: only entries that are served are carried over.
MergedServed(u, e) ==
  LET Kept(g) == g.serveable /\ ~(g.name \in Range(u.deletes) /\ g.mode = "generated")
      Held(g) == [g EXCEPT !.serveable = @ /\ g.name \notin Range(u.deletes)]
      kept == SelectSeq(e.gsis, Kept)
  IN  [i \in DOMAIN kept |-> Held(kept[i])]
        \o [i \in DOMAIN u.creates |-> GsiSpec(u.creates[i], u.defs, "dual_write")]

\* The new gsi_specs: the entry's, without the Generated ones that go.
Merged(u, e) ==
  LET Kept(g) == ~(g.name \in Range(u.deletes) /\ g.mode = "generated")
      Held(g) == [g EXCEPT !.serveable = @ /\ g.name \notin Range(u.deletes)]
      kept == SelectSeq(e.gsis, Kept)
  IN  [i \in DOMAIN kept |-> Held(kept[i])]
        \o [i \in DOMAIN u.creates |-> GsiSpec(u.creates[i], u.defs, "dual_write")]

ColumnSpecs(g) ==
  LET cols == GsiCols(g)
  IN  [i \in DOMAIN cols |-> [col |-> cols[i],
                              type |-> IF i = 1 THEN g.hashType ELSE g.rangeType]]

\* ALTER TABLE ADD COLUMN IF NOT EXISTS, unquoted, for the new specs in order
Added(specs, cols) ==
  LET all == FoldLeft(LAMBDA s, g : s \o ColumnSpecs(g), <<>>, specs)
      New == {i \in DOMAIN all :
                /\ Column[all[i].col] \notin DOMAIN cols
                /\ \A j \in 1..(i - 1) : Column[all[j].col] # Column[all[i].col]}
  IN  [c \in {Column[all[i].col] : i \in New} |->
         [type |-> all[CHOOSE i \in New : Column[all[i].col] = c].type, generated |-> FALSE]]

Task(id, job, name) == [id |-> id, job |-> job, gsi |-> name,
                        at |-> IF job = "create" THEN "backfill" ELSE "drop_index"]
Unused(name) == CHOOSE n \in 0..Cardinality(tasks) :
                  \A t \in tasks : t.gsi = name => t.id[1] # n

(***************************************************************************)
(* insert_state_row keeps a row that is there; update_phase sets the phase *)
(* whatever it was.                                                        *)
(***************************************************************************)
StateAfter(specs, removed) ==
  [g \in IndexName |->
     LET Mine == {i \in DOMAIN specs : specs[i].name = g}
     IN  CASE Mine # {} ->
                [phase |-> "backfilling",
                 cols |-> IF state[g].phase # "none" THEN state[g].cols
                          ELSE ColumnSpecs(specs[CHOOSE i \in Mine : \A j \in Mine : i <= j])]
           [] Mine = {} /\ g \in removed /\ state[g].phase # "none" ->
                [state[g] EXCEPT !.phase = "removing_index"]
           [] OTHER -> state[g]]

Keeping(old, new) == IF new = None THEN old ELSE new   \* COALESCE

(***************************************************************************)
(* The transaction, under the table's lock: billing, the Generated indexes *)
(* dropped, gsi_specs replaced, then columns and state rows of new GSIs.   *)
(* The tasks are spawned once it has committed.                            *)
(***************************************************************************)
CommitUpdate(c) ==
  /\ request[c].at = "planned"
  /\ LET u == request[c].update
         e == request[c].entry
         specs == [i \in DOMAIN u.creates |-> GsiSpec(u.creates[i], u.defs, "dual_write")]
         gone == GeneratedDeletes(u, e)
         removed == {g.name : g \in Range(e.gsis) \ gone} \cap Range(u.deletes)
         dropped == DroppedBy(u, e)
         kept == Without(columns, dropped)
         indexes == Without(pgIndex, {PgName("gsi", g.name) : g \in gone})
         needsUpdate == u.creates # <<>> \/ u.deletes # <<>>
         Runs == /\ columns # NoTable \/ (specs = <<>> /\ dropped = {})
                 /\ \A i \in DOMAIN specs : NotAName \notin Range(Folded(GsiCols(specs[i])))
     IN  \/ /\ Runs
            /\ columns' = Added(specs, kept) @@ kept
            /\ primary' = IF Range(primary) \cap dropped = {} THEN primary ELSE <<>>
            /\ pgIndex' = DropColumns(indexes, dropped)
            /\ row' = IF ~Exists(row) THEN row
                      ELSE [row EXCEPT !.gsis = IF needsUpdate THEN Merged(u, e) ELSE @,
                                       !.billing = Keeping(@, u.billing)]
            /\ state' = StateAfter(specs, removed)
            /\ tasks' = tasks
                 \cup {Task(<<Unused(specs[i].name), i>>, "create", specs[i].name)
                         : i \in DOMAIN specs}
                 \cup {Task(<<Unused(g), 0>>, "remove", g) : g \in removed}
            /\ live' = (live \ Range(u.deletes)) \cup NamesOf(specs)
            /\ request' = [request EXCEPT ![c] = Committed]
            /\ reply' = NoReply
         \/ /\ ~Runs
            /\ reply' = [NoReply EXCEPT !.op = "update", !.result = "internal"]
            /\ request' = [request EXCEPT ![c] = Free]
            /\ UNCHANGED <<pgVars, row, state, tasks, live>>
  /\ UNCHANGED <<cache, tables, updates>>

\* reconcile_now, and the answer from the entry it left.
FinishUpdate(c) ==
  /\ request[c] = Committed
  /\ ReconcileNow
  /\ request' = [request EXCEPT ![c] = Free]
  /\ reply' = [NoReply EXCEPT !.op = "update",
                              !.result = IF Exists(row) THEN "ok" ELSE "internal"]
  /\ UNCHANGED <<pgVars, state, tasks, live, tables, updates>>

\* spawn_periodic
Reconcile ==
  /\ cache # Reconciled(row) \/ row # Reconciled(row)
  /\ ReconcileNow
  /\ reply' = NoReply
  /\ UNCHANGED <<pgVars, state, request, tasks, live, tables, updates>>

--------------------------------------------------------------------------------
(***************************************************************************)
(* The tasks.  They work from the state row.                               *)
(***************************************************************************)

Goto(t, at) == tasks' = (tasks \ {t}) \cup {[t EXCEPT !.at = at]}
EndTask(t) == tasks' = tasks \ {t}
SetPhase(t, phase) ==
  state' = IF state[t.gsi].phase = "none" THEN state ELSE [state EXCEPT ![t.gsi].phase = phase]
FailTask(t) == SetPhase(t, "failed") /\ EndTask(t)
StateCols(t) == {state[t.gsi].cols[i].col : i \in DOMAIN state[t.gsi].cols}

\* Assigning to a text column converts; a GENERATED column refuses.
Assignable(spec) ==
  /\ spec.col \in DOMAIN columns
  /\ ~columns[spec.col].generated
  /\ columns[spec.col].type \in {spec.type, "S"}

\* run_backfill
Backfill(t) ==
  /\ t.at = "backfill"
  /\ LET Works == \A i \in DOMAIN state[t.gsi].cols : Assignable(state[t.gsi].cols[i])
     IN  IF state[t.gsi].phase = "none" \/ (state[t.gsi].phase = "backfilling" /\ ~Works)
         THEN FailTask(t)
         ELSE Goto(t, "index") /\ UNCHANGED state
  /\ UNCHANGED <<pgVars, row, live>>

\* run_index_creation up to the poll; the columns are quoted here.
BuildIndex(t) ==
  /\ t.at = "index"
  /\ LET name == PgName("gsi", t.gsi)
         cols == [i \in DOMAIN state[t.gsi].cols |-> state[t.gsi].cols[i].col]
     IN  CASE state[t.gsi].phase \notin {"backfilling", "indexing"} ->
                EndTask(t) /\ UNCHANGED <<state, pgIndex>>
           [] state[t.gsi].phase \in {"backfilling", "indexing"}
                /\ Range(cols) \subseteq DOMAIN columns ->
                /\ pgIndex' = pgIndex @@ (name :> cols)
                /\ SetPhase(t, "indexing")
                /\ Goto(t, "promote")
           [] OTHER -> FailTask(t) /\ pgIndex' = Without(pgIndex, {name})
  /\ UNCHANGED <<columns, primary, row, live>>

\* flip_gsi_serveable with the phase; without an entry to flip it fails.
Promote(t) ==
  /\ t.at = "promote"
  /\ CASE PgName("gsi", t.gsi) \notin DOMAIN pgIndex -> FailTask(t) /\ UNCHANGED row
       [] PgName("gsi", t.gsi) \in DOMAIN pgIndex /\ row.gsis # <<>> ->
            /\ row' = [row EXCEPT !.gsis = [i \in DOMAIN @ |->
                          [@[i] EXCEPT !.serveable = @ \/ row.gsis[i].name = t.gsi]]]
            /\ SetPhase(t, "active")
            /\ EndTask(t)
       [] OTHER -> EndTask(t) /\ UNCHANGED <<row, state>>
  /\ UNCHANGED <<pgVars, live>>

\* run_removal_to_gone: DROP INDEX CONCURRENTLY
DropIndex(t) ==
  /\ t.at = "drop_index"
  /\ CASE state[t.gsi].phase = "removing_index" ->
            /\ pgIndex' = Without(pgIndex, {PgName("gsi", t.gsi)})
            /\ SetPhase(t, "removing_column")
            /\ Goto(t, "drop_column")
       [] state[t.gsi].phase = "removing_column" ->
            Goto(t, "drop_column") /\ UNCHANGED <<state, pgIndex>>
       [] OTHER -> EndTask(t) /\ UNCHANGED <<state, pgIndex>>
  /\ UNCHANGED <<columns, primary, row, live>>

\* The columns only this GSI uses, by the row as it is now, under the lock.
DropColumn(t) ==
  /\ t.at = "drop_column"
  /\ LET mine == {g \in Range(row.gsis) : g.name = t.gsi}
         dropped == UNION {Range(GsiCols(g)) : g \in mine}
                      \ Referenced(row, Others(row, t.gsi))
     IN  IF ~Exists(row) THEN UNCHANGED <<pgVars, row, state>>
         ELSE /\ columns' = Without(columns, dropped)
              /\ primary' = IF Range(primary) \cap dropped = {} THEN primary ELSE <<>>
              /\ pgIndex' = DropColumns(pgIndex, dropped)
              /\ row' = [row EXCEPT !.gsis = SelectSeq(@, LAMBDA g : g.name # t.gsi)]
              /\ SetPhase(t, "gone")
  /\ EndTask(t)
  /\ UNCHANGED live

RunTask ==
  /\ \E t \in tasks :
       Backfill(t) \/ BuildIndex(t) \/ Promote(t) \/ DropIndex(t) \/ DropColumn(t)
  /\ reply' = NoReply
  /\ UNCHANGED <<cache, request, tables, updates>>

\* What goes on without a new request: handlers, tasks and the timer.
Work ==
  \/ \E c \in Client : CommitUpdate(c) \/ FinishUpdate(c)
  \/ RunTask
  \/ Reconcile

Next ==
  \/ \E req \in CreateRequests : CreateTable(req)
  \/ DeleteTable
  \/ \E c \in Client, u \in UpdateRequests : PlanUpdate(c, u)
  \/ Work

Spec == Init /\ [][Next]_vars

(***************************************************************************)
(* As long as something can go on by itself, something does.               *)
(***************************************************************************)
FairSpec == Spec /\ WF_vars(Work)

--------------------------------------------------------------------------------
GsiSpecs == [name : IndexName, hash : Attr, hashType : KeyType,
             range : Attr \cup {None}, rangeType : KeyType \cup {None},
             projection : STRING, mode : {"generated", "dual_write"}, serveable : BOOLEAN]
LsiSpecs == [name : IndexName, sort : Attr, type : KeyType,
             projection : STRING, serveable : BOOLEAN]

\* A row or a cached entry: its keys have types, its specs are specs.
RowOK(r) ==
  Exists(r) => /\ r.hash \in Attr /\ r.hashType \in KeyType
               /\ r.range \in Attr \cup {None} /\ r.rangeType \in KeyType \cup {None}
               /\ (r.range = None) = (r.rangeType = None)
               /\ Range(r.lsis) \subseteq LsiSpecs /\ Range(r.gsis) \subseteq GsiSpecs
               /\ \A g \in Range(r.gsis) : (g.range = None) = (g.rangeType = None)

(***************************************************************************)
(* The table has its jsonb column and a primary key exactly when it has a  *)
(* row, row and cached entry are well formed (row_to_entry would refuse    *)
(* them otherwise), indexes are on columns the table has, and tasks and    *)
(* state rows go together.                                                 *)
(***************************************************************************)
TypeOK ==
  /\ Exists(row) = (Jsonb \in DOMAIN columns) /\ Exists(row) = (primary # <<>>)
  /\ \A n \in DOMAIN pgIndex : Range(pgIndex[n]) \subseteq DOMAIN columns
  /\ RowOK(row) /\ RowOK(cache)
  /\ live \subseteq IndexName
  /\ \A t \in tasks : state[t.gsi].phase # "none"

(***************************************************************************)
(* A CreateTable request whose attribute names survive as column names and *)
(* whose index names stay apart as PostgreSQL names.                       *)
(***************************************************************************)
Apart(indexes) == Distinct(indexes, LAMBDA i : Sanitize[i.name])
Ordinary(req) ==
  /\ \A a \in Keyed(req) : Column[a] = a /\ a # Jsonb
  /\ Key(req.key).hash # Key(req.key).range
  /\ Apart(req.lsis) /\ Apart(req.gsis)

\* What the client asked for, in the terms of DescribeTable.
Asked(req) ==
  LET Index(i) == [name |-> i.name, key |-> Key(i.key), projection |-> Projected(i.projection)]
      Active(i) == [name |-> i.name, key |-> Key(i.key), projection |-> Projected(i.projection),
                    status |-> "ACTIVE"]
  IN  [key |-> Key(req.key), attrs |-> {<<d.attr, d.type>> : d \in Range(req.defs)},
       billing |-> req.billing,
       lsis |-> {Index(l) : l \in Range(req.lsis)},
       gsis |-> {Active(g) : g \in Range(req.gsis)}]

(***************************************************************************)
(* What validate_create_table lets through, PostgreSQL creates, the        *)
(* reconciler finds fit to serve with every index, and DescribeTable shows *)
(* as it was asked for: through plan, DDL, catalog row and introspection.  *)
(* For ordinary names; others are refused by PostgreSQL or found missing.  *)
(***************************************************************************)
CreateHonoured ==
  reply.op = "create" /\ reply.result # "validation" /\ Ordinary(reply.req) =>
    /\ reply.result = "ok"
    /\ cache.serveable
    /\ \A l \in Range(cache.lsis) : l.serveable
    /\ DescribeTable(cache) = Asked(reply.req)

(***************************************************************************)
(* An index that was created and not deleted is in the catalog row: no     *)
(* UpdateTable, removal or reconcile pass that read an older state of      *)
(* gsi_specs writes it away.  With clients that wait for each other.       *)
(***************************************************************************)
NoIndexLost == live \subseteq NamesOf(row.gsis)

\* The only index of its kind with its PostgreSQL name.
Alone(specs, i) == \A j \in Range(specs) : Sanitize[i.name] = Sanitize[j.name] => i.name = j.name

(***************************************************************************)
(* Reference counting: whatever indexes are created or removed beside it,  *)
(* by UpdateTable or by a task, an index that stays keeps its columns and  *)
(* its PostgreSQL index.                                                   *)
(***************************************************************************)
UsableStays ==
  [][/\ \A g \in Range(row.gsis) :
          g.name \in live' /\ Alone(row.gsis, g) /\ CheckGsi(g) => CheckGsi(g)'
     /\ Exists(row') => \A l \in Range(row.lsis) :
          Alone(row.lsis, l) /\ CheckLsi(l, row) => CheckLsi(l, row)']_vars

(***************************************************************************)
(* A DualWrite GSI that can work: its columns have its type and are not    *)
(* GENERATED, no index name is taken for its own, and the state row, which *)
(* a former GSI of that name may have left, is its own.                    *)
(***************************************************************************)
Fits(g) ==
  /\ g.mode = "dual_write"
  /\ \A n \in IndexName : Sanitize[n] = Sanitize[g.name] => n = g.name
  /\ CheckColumn(g.hash, g.hashType, FALSE)
  /\ g.range # None => CheckColumn(g.range, g.rangeType, FALSE)
  /\ state[g.name].cols = ColumnSpecs(g)

(***************************************************************************)
(* In the end every GSI that UpdateTable created, that was not deleted and *)
(* that can work is served, whatever else was created and removed beside   *)
(* it: its task finds the columns, builds the index, and the reconciler's  *)
(* verdict reaches the snapshot.                                           *)
(***************************************************************************)
IndexesSettle ==
  <>[](\A g \in Range(row.gsis) :
         g.name \in live /\ Fits(g) => [g EXCEPT !.serveable = TRUE] \in Range(cache.gsis))

====
