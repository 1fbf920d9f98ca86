-------------------------------- MODULE Catalog --------------------------------
(***************************************************************************)
(* The table catalog: CreateTable and DeleteTable (crates/rekt-ddl/src/    *)
(* lib.rs), the catalog row and PostgreSQL table they make and drop, the   *)
(* reconciler and the snapshot it replaces (crates/rekt-catalog/src/), the *)
(* connection pool they share and process restarts, on one or more         *)
(* rektifier nodes over one database.                                      *)
(*                                                                         *)
(* Each SQL statement is a step; what a transaction has done is visible    *)
(* once it commits.  A request holds its pooled connection until it is     *)
(* answered, and the reconcile pass it runs takes two more.                *)
(***************************************************************************)
EXTENDS Integers, FiniteSets

CONSTANTS
  Node,          \* rektifier processes
  Client,        \* administrative clients, one request at a time each
  Name,          \* DynamoDB table names
  Pg,            \* PostgreSQL table names
  Sanitize,      \* sanitize_pg_table_name: several names may share one
  Keys,          \* the key schema each CreateTable declares
  PoolSize,      \* pg.max_pool_size
  Invalidate,    \* catalog.invalidate_on_local_ddl
  None,          \* no row, no table
  MaxRequests,   \* bound: requests
  MaxEvents,     \* bound: requests and troubles together
  MaxTroubles    \* bound: tables altered by hand, process crashes, failed
                 \* statements and request timeouts, together

ASSUME ParamAssumption ==
  /\ Sanitize \in [Name -> Pg]
  /\ DOMAIN Keys = 0..MaxRequests
  /\ PoolSize \in Nat \ {0} /\ Invalidate \in BOOLEAN
  /\ MaxRequests \in Nat /\ MaxTroubles \in Nat /\ MaxEvents \in Nat
  /\ Node \cap Client = {}

VARIABLES
  rows,      \* _rektifier_tables: per name, the committed row
  tables,    \* per PostgreSQL name, the committed table
  up,        \* per node: up, booting or down
  cache,     \* per node: the catalog snapshot
  req,       \* per client: the request in progress
  pass,      \* per owner: the reconcile pass in progress
  reply,     \* the answer the last step gave, if it gave one
  requests, troubles   \* how many there have been

countVars == <<requests, troubles>>
vars == <<rows, tables, up, cache, req, pass, reply, requests, troubles>>

(***************************************************************************)
(* A CreateTable is told by its number: it declares the key schema Keys    *)
(* has for it, and its LSIs are in the row as its number.  The verdict is  *)
(* the row's status and its serveable bits: "new" as CreateTable leaves it *)
(* (ACTIVE, LSIs not confirmed), "active", "no_lsi" (ACTIVE, LSIs          *)
(* unserveable) or "degraded".  Number 0 made the tables of the start.     *)
(***************************************************************************)
Id == 0..MaxRequests
Verdict == {"new", "active", "no_lsi", "degraded"}
Row == [id : Id, lsis : Id, verdict : Verdict]
Table == [id : Id, sound : BOOLEAN]
ASSUME NoneAssumption == None \notin Row /\ None \notin Table
Snapshot == [Name -> Row \cup {None}]
Empty == [name \in Name |-> None]
Present(snapshot) == {name \in Name : snapshot[name] # None}

(***************************************************************************)
(* A request waits for a connection, for its table's advisory lock, is in  *)
(* its transaction, or has committed and reconciles, then describes.       *)
(***************************************************************************)
TxStep == {"check", "insert", "create", "drop", "row"}
Step == {"idle", "conn", "lock", "reconcile", "describe"} \cup TxStep
Idle == [pc |-> "idle"]
Request == [pc : Step \ {"idle"}, op : {"create", "delete"}, name : Name,
            node : Node, id : Id]

\* A request's own pass, and each node's periodic one.
Owner == Client \cup Node
Off == [at |-> "off"]
Pass == [at : {"conn", "load"}]
          \cup [at : {"introspect"}, todo : SUBSET Name, view : Snapshot]
          \cup [at : {"write"}, todo : SUBSET Name, view : Snapshot, name : Name]

NoReply == [op |-> "none"]
Answer == [op : {"create", "delete"}, id : Id,
           is : {"ok", "in_use", "pg_name_in_use", "not_found", "error"}]

Active(c) == req[c].pc # "idle"
NodeOf(o) == IF o \in Node THEN o ELSE req[o].node
OnNode(o, n) == IF o \in Node THEN o = n ELSE Active(o) /\ req[o].node = n

\* derive_pg_table
PgTable(name) == Sanitize[name]

(***************************************************************************)
(* deadpool: a request keeps its connection to the end, a pass the one it  *)
(* reads PostgreSQL's catalogs with; load_snapshot borrows another.        *)
(***************************************************************************)
Held(n) ==
  Cardinality({c \in Client : OnNode(c, n) /\ req[c].pc # "conn"})
    + Cardinality({o \in Owner : OnNode(o, n) /\ pass[o].at \notin {"off", "conn"}})
Free(n) == PoolSize - Held(n)

\* What an earlier run left, confirmed and in every snapshot: some tables, with
\* the PostgreSQL names the UNIQUE constraint on pg_table keeps apart.
EarlierRow == [id |-> 0, lsis |-> 0, verdict |-> "active"]
EarlierTable == [id |-> 0, sound |-> TRUE]

Init ==
  /\ \E earlier \in SUBSET Name :
       /\ \A x, y \in earlier : PgTable(x) = PgTable(y) => x = y
       /\ rows = [name \in Name |-> IF name \in earlier THEN EarlierRow ELSE None]
       /\ tables = [p \in Pg |-> IF \E name \in earlier : PgTable(name) = p
                                THEN EarlierTable ELSE None]
  /\ up = [n \in Node |-> "up"]
  /\ cache = [n \in Node |-> rows]
  /\ req = [c \in Client |-> Idle]
  /\ pass = [o \in Owner |-> Off]
  /\ reply = NoReply
  /\ requests = 0 /\ troubles = 0

\* There is room for another request, for another trouble.
MayAsk == requests < MaxRequests /\ requests + troubles < MaxEvents
MayFail == troubles < MaxTroubles /\ requests + troubles < MaxEvents

Goto(c, pc) == req' = [req EXCEPT ![c].pc = pc] /\ reply' = NoReply

Reply(c, answer) ==
  /\ req' = [req EXCEPT ![c] = Idle]
  /\ reply' = [op |-> req[c].op, id |-> req[c].id, is |-> answer]

--------------------------------------------------------------------------------
(***************************************************************************)
(* CreateTable and DeleteTable.  Create is refused when the snapshot has   *)
(* the name, Delete when it has not, before PostgreSQL is asked; those     *)
(* change nothing and are not modelled further.                            *)
(***************************************************************************)
Accept(c, n, op, name) ==
  /\ up[n] = "up" /\ ~Active(c) /\ MayAsk
  /\ (op = "create") <=> (cache[n][name] = None)
  /\ requests' = requests + 1
  /\ req' = [req EXCEPT ![c] = [pc |-> "conn", op |-> op, name |-> name, node |-> n,
                                id |-> requests + 1]]
  /\ reply' = NoReply
  /\ UNCHANGED <<rows, tables, up, cache, pass, troubles>>

CreateTable(c, n) == \E name \in Name : Accept(c, n, "create", name)
DeleteTable(c, n) == \E name \in Name : Accept(c, n, "delete", name)

\* pool.get
Connect(c) ==
  /\ req[c].pc = "conn" /\ Free(req[c].node) > 0
  /\ Goto(c, "lock")
  /\ UNCHANGED <<rows, tables, up, cache, pass, countVars>>

\* pg_advisory_xact_lock on the table's name, held to the end of the transaction.
Lock(c) ==
  /\ req[c].pc = "lock"
  /\ \A d \in Client : req[d].pc \in TxStep => req[d].name # req[c].name
  /\ Goto(c, IF req[c].op = "create" THEN "check" ELSE "drop")
  /\ UNCHANGED <<rows, tables, up, cache, pass, countVars>>

\* PG_TABLE_EXISTS_SQL
Check(c) ==
  /\ req[c].pc = "check"
  /\ IF tables[PgTable(req[c].name)] # None THEN Reply(c, "pg_name_in_use")
                                             ELSE Goto(c, "insert")
  /\ UNCHANGED <<rows, tables, up, cache, pass, countVars>>

(***************************************************************************)
(* INSERT_CREATING_SQL.  Both table_name and pg_table are unique: the      *)
(* INSERT waits for a transaction that has inserted the same one, and      *)
(* fails on a committed one.                                               *)
(***************************************************************************)
SameTable(name) == {other \in Name : PgTable(other) = PgTable(name)}

Insert(c) ==
  /\ req[c].pc = "insert"
  /\ \A d \in Client : req[d].pc = "create" => req[d].name \notin SameTable(req[c].name)
  /\ IF SameTable(req[c].name) \cap Present(rows) # {} THEN Reply(c, "in_use")
                                                       ELSE Goto(c, "create")
  /\ UNCHANGED <<rows, tables, up, cache, pass, countVars>>

\* When the knob is off, no pass runs before the snapshot is read.
AfterCommit(c) ==
  IF Invalidate
  THEN Goto(c, "reconcile") /\ pass' = [pass EXCEPT ![c] = [at |-> "conn"]]
  ELSE Goto(c, "describe") /\ UNCHANGED pass

(***************************************************************************)
(* CREATE TABLE, which a table of that name would stop, the flip to        *)
(* ACTIVE, and the commit that shows all of it.                            *)
(***************************************************************************)
CommitCreate(c) ==
  LET r == req[c] IN
  /\ r.pc = "create" /\ tables[PgTable(r.name)] = None
  /\ rows' = [rows EXCEPT ![r.name] = [id |-> r.id, lsis |-> r.id, verdict |-> "new"]]
  /\ tables' = [tables EXCEPT ![PgTable(r.name)] = [id |-> r.id, sound |-> TRUE]]
  /\ AfterCommit(c)
  /\ UNCHANGED <<up, cache, countVars>>

(***************************************************************************)
(* DROP TABLE IF EXISTS of the snapshot's pg_table waits for a transaction *)
(* that has dropped it.  It takes effect at the commit.                    *)
(***************************************************************************)
Drop(c) ==
  LET p == PgTable(req[c].name) IN
  /\ req[c].pc = "drop"
  /\ tables[p] # None =>
       \A d \in Client : req[d].pc = "row" => PgTable(req[d].name) # p
  /\ Goto(c, "row")
  /\ UNCHANGED <<rows, tables, up, cache, pass, countVars>>

\* Mutant of DeleteRow: commits the DROP TABLE though no row was deleted.
DeleteRowOrNot(c) ==
  LET r == req[c] IN
  /\ r.pc = "row"
  /\ rows' = [rows EXCEPT ![r.name] = None]
  /\ tables' = [tables EXCEPT ![PgTable(r.name)] = None]
  /\ AfterCommit(c)
  /\ UNCHANGED <<up, cache, countVars>>

(***************************************************************************)
(* DELETE_METADATA_ROW_SQL and the commit.  When there was no row to       *)
(* delete, the transaction is rolled back, the DROP TABLE with it.         *)
(***************************************************************************)
DeleteRow(c) ==
  LET r == req[c] IN
  /\ r.pc = "row"
  /\ \/ /\ rows[r.name] = None
        /\ Reply(c, "not_found")
        /\ UNCHANGED <<rows, tables, pass>>
     \/ /\ rows[r.name] # None
        /\ rows' = [rows EXCEPT ![r.name] = None]
        /\ tables' = [tables EXCEPT ![PgTable(r.name)] = None]
        /\ AfterCommit(c)
  /\ UNCHANGED <<up, cache, countVars>>

\* Delete answers from the entry it began with, create from the snapshot.
Describe(c) ==
  /\ req[c].pc = "describe"
  /\ IF req[c].op = "create" /\ cache[req[c].node][req[c].name] = None
     THEN Reply(c, "error")
     ELSE Reply(c, "ok")
  /\ UNCHANGED <<rows, tables, up, cache, pass, countVars>>

\* pg.wait_timeout_ms has passed and every connection is held.
PoolTimeout(c) ==
  /\ req[c].pc = "conn" /\ Free(req[c].node) = 0
  /\ Reply(c, "error")
  /\ UNCHANGED <<rows, tables, up, cache, pass, countVars>>

(***************************************************************************)
(* A statement fails, or the request timeout drops the handler at an       *)
(* await: the transaction rolls back; what is committed stays.  A pass the *)
(* request was running goes with it.                                       *)
(***************************************************************************)
Fail(c) ==
  /\ Active(c) /\ req[c].pc # "describe" /\ MayFail
  /\ troubles' = troubles + 1
  /\ Reply(c, "error")
  /\ pass' = [pass EXCEPT ![c] = Off]
  /\ UNCHANGED <<rows, tables, up, cache, requests>>

--------------------------------------------------------------------------------
(***************************************************************************)
(* reconcile_now, run by a request, by the timer and before a node serves. *)
(***************************************************************************)
Tick(n) ==
  /\ up[n] = "up" /\ pass[n] = Off
  /\ pass' = [pass EXCEPT ![n] = [at |-> "conn"]]
  /\ reply' = NoReply
  /\ UNCHANGED <<rows, tables, up, cache, req, countVars>>

PassConnect(o) ==
  /\ pass[o].at = "conn" /\ Free(NodeOf(o)) > 0
  /\ pass' = [pass EXCEPT ![o].at = "load"]
  /\ reply' = NoReply
  /\ UNCHANGED <<rows, tables, up, cache, req, countVars>>

\* load_snapshot reads every row on a second connection.
Load(o) ==
  /\ pass[o].at = "load" /\ Free(NodeOf(o)) > 0
  /\ pass' = [pass EXCEPT ![o] =
                [at |-> "introspect", todo |-> Present(rows), view |-> rows]]
  /\ reply' = NoReply
  /\ UNCHANGED <<rows, tables, up, cache, req, countVars>>

(***************************************************************************)
(* introspect: the key columns and the primary key of the row's PostgreSQL *)
(* table, then the LSIs' columns and indexes.                              *)
(***************************************************************************)
Introspect(entry, table) ==
  IF table = None \/ Keys[table.id] # Keys[entry.id] \/ ~table.sound
  THEN "degraded"
  ELSE IF table.id = entry.lsis THEN "active" ELSE "no_lsi"

(***************************************************************************)
(* One row, in any order.  A verdict other than the one loaded is written. *)
(***************************************************************************)
Judge(o, name) ==
  LET p == pass[o]
      verdict == Introspect(p.view[name], tables[PgTable(name)])
      rest == p.todo \ {name} IN
  /\ p.at = "introspect" /\ name \in p.todo
  /\ pass' = [pass EXCEPT ![o] =
       IF verdict = p.view[name].verdict THEN [p EXCEPT !.todo = rest]
       ELSE [at |-> "write", todo |-> rest, name |-> name,
             view |-> [p.view EXCEPT ![name].verdict = verdict]]]
  /\ reply' = NoReply
  /\ UNCHANGED <<rows, tables, up, cache, req, countVars>>

\* A failed introspection keeps the row as it was loaded.
Skip(o, name) ==
  /\ pass[o].at = "introspect" /\ name \in pass[o].todo /\ MayFail
  /\ troubles' = troubles + 1
  /\ pass' = [pass EXCEPT ![o].todo = @ \ {name}]
  /\ reply' = NoReply
  /\ UNCHANGED <<rows, tables, up, cache, req, requests>>

(***************************************************************************)
(* UPDATE_VERDICT_SQL, keyed on the name alone: it writes the verdict and  *)
(* the index specs that were loaded, to whichever row has the name now.    *)
(***************************************************************************)
WriteVerdict(o) ==
  LET p == pass[o] IN
  /\ p.at = "write"
  /\ rows' = IF rows[p.name] = None THEN rows
             ELSE [rows EXCEPT ![p.name].verdict = p.view[p.name].verdict,
                               ![p.name].lsis = p.view[p.name].lsis]
  /\ pass' = [pass EXCEPT ![o] = [at |-> "introspect", todo |-> p.todo, view |-> p.view]]
  /\ reply' = NoReply
  /\ UNCHANGED <<tables, up, cache, req, countVars>>

\* Mutant of ReplaceSnapshot: merges what was loaded into the snapshot.
MergeSnapshot(o) ==
  LET p == pass[o] IN
  /\ p.at = "introspect" /\ p.todo = {}
  /\ cache' = [cache EXCEPT ![NodeOf(o)] =
                 [name \in Name |-> IF p.view[name] = None THEN @[name] ELSE p.view[name]]]
  /\ pass' = [pass EXCEPT ![o] = Off]
  /\ up' = [up EXCEPT ![NodeOf(o)] = "up"]
  /\ IF o \in Client THEN Goto(o, "describe") ELSE UNCHANGED req /\ reply' = NoReply
  /\ UNCHANGED <<rows, tables, countVars>>

(***************************************************************************)
(* TableCatalog::replace, whatever has been put there since this pass      *)
(* loaded its rows; a node that was booting now serves.                    *)
(***************************************************************************)
ReplaceSnapshot(o) ==
  LET p == pass[o] IN
  /\ p.at = "introspect" /\ p.todo = {}
  /\ cache' = [cache EXCEPT ![NodeOf(o)] = p.view]
  /\ pass' = [pass EXCEPT ![o] = Off]
  /\ up' = [up EXCEPT ![NodeOf(o)] = "up"]
  /\ IF o \in Client THEN Goto(o, "describe") ELSE UNCHANGED req /\ reply' = NoReply
  /\ UNCHANGED <<rows, tables, countVars>>

\* An error ends the pass: the request gets it, a node that was booting exits.
PassError(o) ==
  /\ pass' = [pass EXCEPT ![o] = Off]
  /\ IF o \in Client THEN Reply(o, "error") ELSE UNCHANGED req /\ reply' = NoReply
  /\ up' = [up EXCEPT ![NodeOf(o)] = IF @ = "booting" THEN "down" ELSE @]
  /\ UNCHANGED <<rows, tables, cache, requests>>

\* Mutant of PassTimeout: a request's pass waits for a connection without end.
PassNeverTimesOut(o) ==
  /\ o \in Node /\ pass[o].at \in {"conn", "load"} /\ Free(o) = 0
  /\ PassError(o) /\ UNCHANGED troubles

PassTimeout(o) ==
  /\ pass[o].at \in {"conn", "load"} /\ Free(NodeOf(o)) = 0
  /\ PassError(o) /\ UNCHANGED troubles

PassFail(o) ==
  /\ o \in Node /\ pass[o].at \in {"load", "write"} /\ MayFail
  /\ PassError(o) /\ troubles' = troubles + 1

--------------------------------------------------------------------------------
(***************************************************************************)
(* The operator, crashes and restarts.                                     *)
(***************************************************************************)

\* A table is altered, or put right again, by hand.
Drift(p) ==
  /\ tables[p] # None /\ MayFail
  /\ tables' = [tables EXCEPT ![p].sound = ~@]
  /\ troubles' = troubles + 1
  /\ reply' = NoReply
  /\ UNCHANGED <<rows, up, cache, req, pass, requests>>

Crash(n) ==
  /\ up[n] # "down" /\ MayFail
  /\ up' = [up EXCEPT ![n] = "down"]
  /\ cache' = [cache EXCEPT ![n] = Empty]
  /\ req' = [c \in Client |-> IF OnNode(c, n) THEN Idle ELSE req[c]]
  /\ pass' = [o \in Owner |-> IF OnNode(o, n) THEN Off ELSE pass[o]]
  /\ troubles' = troubles + 1
  /\ reply' = NoReply
  /\ UNCHANGED <<rows, tables, requests>>

\* main reconciles before it binds its socket.
Boot(n) ==
  /\ up[n] = "down"
  /\ up' = [up EXCEPT ![n] = "booting"]
  /\ pass' = [pass EXCEPT ![n] = [at |-> "conn"]]
  /\ reply' = NoReply
  /\ UNCHANGED <<rows, tables, cache, req, countVars>>

Handle(c) ==
  \/ Connect(c) \/ Lock(c) \/ Check(c) \/ Insert(c) \/ CommitCreate(c)
  \/ Drop(c) \/ DeleteRow(c) \/ Describe(c) \/ PoolTimeout(c)

Reconcile(o) ==
  \/ PassConnect(o) \/ Load(o) \/ WriteVerdict(o) \/ ReplaceSnapshot(o) \/ PassTimeout(o)
  \/ \E name \in Name : Judge(o, name)

Next ==
  \/ \E c \in Client, n \in Node : CreateTable(c, n) \/ DeleteTable(c, n)
  \/ \E c \in Client : Handle(c) \/ Fail(c)
  \/ \E o \in Owner : Reconcile(o) \/ PassFail(o) \/ \E name \in Name : Skip(o, name)
  \/ \E n \in Node : Tick(n) \/ Crash(n) \/ Boot(n)
  \/ \E p \in Pg : Drift(p)

Spec == Init /\ [][Next]_vars

(***************************************************************************)
(* Handlers and passes run on, waits end in pg.wait_timeout_ms, the timer  *)
(* ticks and a supervisor restarts the process.  Nothing makes a client    *)
(* ask, an operator alter a table, a statement fail or a node crash.       *)
(***************************************************************************)
FairSpec ==
  /\ Spec
  /\ \A c \in Client : WF_vars(Handle(c))
  /\ \A o \in Owner : WF_vars(Reconcile(o))
  /\ \A n \in Node : WF_vars(Tick(n)) /\ WF_vars(Boot(n))

--------------------------------------------------------------------------------
\* The types of rows, tables, snapshots, requests and passes.  In particular the
\* catalog table holds only whole rows: the reconciler's verdict never makes one.
TypeOK ==
  /\ rows \in Snapshot
  /\ tables \in [Pg -> Table \cup {None}]
  /\ up \in [Node -> {"up", "booting", "down"}]
  /\ cache \in [Node -> Snapshot]
  /\ req \in [Client -> Request \cup {Idle}]
  /\ pass \in [Owner -> Pass \cup {Off}]
  /\ reply \in Answer \cup {NoReply}
  /\ requests \in 0..MaxRequests /\ troubles \in 0..MaxTroubles

(***************************************************************************)
(* Every row has the table that the same CreateTable made and every table  *)
(* has one row: no crash, no failed statement, and no DeleteTable working  *)
(* from a snapshot that is out of date (its name gone, its PostgreSQL name *)
(* reused by another) leaves one without the other.                        *)
(***************************************************************************)
RowsMatchTables ==
  /\ \A name \in Present(rows) :
       /\ tables[PgTable(name)] # None
       /\ tables[PgTable(name)].id = rows[name].id
  /\ \A p \in Pg : tables[p] # None => \E name \in Present(rows) : PgTable(name) = p

(***************************************************************************)
(* Every request is answered: no cycle of advisory locks, unique-index and *)
(* DROP TABLE waits, and pooled connections held while more are asked for, *)
(* lasts.                                                                  *)
(***************************************************************************)
DdlAnswered == []<>(\A c \in Client : ~Active(c))

(***************************************************************************)
(* Once the requests and the operator are done, the rows come to say which *)
(* tables are sound and each node's snapshot what the rows say, and they   *)
(* stay so: passes that replace each other's snapshots out of order, skip  *)
(* rows or lose their connection delay this, and never prevent it.         *)
(***************************************************************************)
CatalogConverges ==
  <>[](/\ \A name \in Present(rows) :
            /\ rows[name].verdict # "new"
            /\ rows[name].verdict = "degraded" <=> ~tables[PgTable(name)].sound
       /\ \A n \in Node : up[n] = "up" /\ cache[n] = rows)

--------------------------------------------------------------------------------
(***************************************************************************)
(* What comments say, and the code does not do.                            *)
(***************************************************************************)

(***************************************************************************)
(* "every CreateTable request returns with status=ACTIVE on success or     *)
(* undoes everything on failure": a pass that loaded its rows before the   *)
(* commit can replace the snapshot just before create_table reads it.      *)
(***************************************************************************)
FailedCreateUndone ==
  reply.op = "create" /\ reply.is = "error" =>
    \A name \in Present(rows) : rows[name].id # reply.id

(***************************************************************************)
(* The verdict's fields are written together "so a partial write can't     *)
(* leave the row in a half-consistent state": the specs of a table deleted *)
(* since the pass loaded them replace those of its successor.              *)
(***************************************************************************)
SpecsAreTheTables == \A name \in Present(rows) : rows[name].lsis = rows[name].id

================================================================================
