----------------------------- MODULE CatalogProofs -----------------------------
(***************************************************************************)
(* Proofs about Catalog for any number of nodes, clients, table names and  *)
(* requests: the catalog's rows and PostgreSQL's tables stay in step.      *)
(***************************************************************************)
EXTENDS Catalog, TLAPS

\* A client's pass is run by the request that has committed.
PassOwned == \A c \in Client : pass[c].at # "off" => req[c].pc = "reconcile"

\* A pass looks at rows it has loaded.
Loaded ==
  \A o \in Owner :
    /\ pass[o].at = "introspect" => pass[o].todo \subseteq Present(pass[o].view)
    /\ pass[o].at = "write" => /\ pass[o].todo \subseteq Present(pass[o].view)
                               /\ pass[o].name \in Present(pass[o].view)

Typed == TypeOK /\ PassOwned /\ Loaded

\* The UNIQUE constraint on pg_table, for committed rows, for a row inserted and
\* a committed one, and for two rows inserted.
Unique ==
  /\ \A x, y \in Present(rows) : PgTable(x) = PgTable(y) => x = y
  /\ \A c \in Client : req[c].pc = "create" => SameTable(req[c].name) \cap Present(rows) = {}
  /\ \A c, d \in Client : req[c].pc = "create" /\ req[d].pc = "create"
                            /\ PgTable(req[c].name) = PgTable(req[d].name) => c = d

IInv == Typed /\ Unique /\ RowsMatchTables

USE ParamAssumption, NoneAssumption

--------------------------------------------------------------------------------
(* Requests and answers.                                                   *)

LEMMA Told == NoReply.op = "none" /\ Idle.pc = "idle" /\ Off.at = "off"
  BY Zenon DEF NoReply, Idle, Off

LEMMA ActiveRequest ==
  ASSUME TypeOK, NEW c \in Client, req[c].pc # "idle"
  PROVE  req[c] \in Request
  BY DEF TypeOK, Idle

\* Goto moves one request on.
LEMMA Moves ==
  ASSUME TypeOK, NEW c \in Client, req[c].pc # "idle", NEW pc \in Step \ {"idle"}, Goto(c, pc)
  PROVE  /\ req' \in [Client -> Request \cup {Idle}] /\ reply' = NoReply
         /\ req'[c].pc = pc /\ req'[c].name = req[c].name
         /\ \A d \in Client \ {c} : req'[d] = req[d]
<1> DEFINE x == [req[c] EXCEPT !.pc = pc]
<1>1. req[c] \in Request
  BY ActiveRequest, Zenon
<1>2. x \in Request /\ x.pc = pc /\ x.name = req[c].name
  BY <1>1, Zenon DEF Request
<1>3. req \in [Client -> Request \cup {Idle}]
  BY Zenon DEF TypeOK
<1>4. req' = [req EXCEPT ![c] = x]
  BY <1>3, Zenon DEF Goto
<1> HIDE DEF x
<1>5. /\ req' \in [Client -> Request \cup {Idle}]
      /\ req'[c] = x /\ \A d \in Client \ {c} : req'[d] = req[d]
  BY <1>2, <1>3, <1>4, Zenon
<1> QED
  BY <1>2, <1>5, Zenon DEF Goto

\* Reply ends one.
LEMMA Ends ==
  ASSUME TypeOK, NEW c \in Client, req[c].pc # "idle",
         NEW answer \in {"ok", "in_use", "pg_name_in_use", "not_found", "error"},
         Reply(c, answer)
  PROVE  /\ req' \in [Client -> Request \cup {Idle}] /\ reply' \in Answer
         /\ req'[c] = Idle /\ \A d \in Client \ {c} : req'[d] = req[d]
<1>1. req[c] \in Request
  BY ActiveRequest, Zenon
<1>2. reply' \in Answer
  BY <1>1, Zenon DEF Reply, Answer, Request
<1>3. req \in [Client -> Request \cup {Idle}] /\ req' = [req EXCEPT ![c] = Idle]
  BY Zenon DEF TypeOK, Reply
<1> QED
  BY <1>2, <1>3, Zenon

LEMMA InitIInv == Init => IInv
<1> SUFFICES ASSUME Init PROVE IInv
  BY Zenon
<1>1. PICK earlier \in SUBSET Name :
        /\ \A x, y \in earlier : PgTable(x) = PgTable(y) => x = y
        /\ rows = [name \in Name |-> IF name \in earlier THEN EarlierRow ELSE None]
        /\ tables = [p \in Pg |-> IF \E name \in earlier : PgTable(name) = p
                                 THEN EarlierTable ELSE None]
  BY Zenon DEF Init
<1>2. EarlierRow \in Row /\ EarlierRow.id = 0 /\ EarlierTable \in Table /\ EarlierTable.id = 0
  BY DEF EarlierRow, Row, EarlierTable, Table, Id, Verdict
<1>3. Present(rows) = earlier
  BY <1>1, <1>2, Zenon DEF Present
<1>4. Typed
  <2>1. rows \in Snapshot /\ tables \in [Pg -> Table \cup {None}]
    BY <1>1, <1>2, Zenon DEF Snapshot
  <2>2. TypeOK
    BY <2>1, SMTT(30) DEF Init, TypeOK
  <2>3. PassOwned /\ Loaded
    BY Told, Zenon DEF Init, PassOwned, Loaded, Owner
  <2> QED
    BY <2>2, <2>3 DEF Typed
<1>5. Unique
  BY <1>1, <1>3, Told, Zenon DEF Init, Unique
<1>6. RowsMatchTables
  BY <1>1, <1>2, <1>3, Zenon DEF RowsMatchTables, PgTable
<1> QED
  BY <1>4, <1>5, <1>6 DEF IInv

--------------------------------------------------------------------------------
(* Steps of a request that change neither rows nor tables.                 *)

\* What the request's row and the others' say is all Unique needs to know.
LEMMA RowsKept ==
  ASSUME IInv, rows' = rows, tables' = tables, NEW c \in Client,
         req'[c].pc # "create", \A d \in Client \ {c} : req'[d] = req[d]
  PROVE  Unique' /\ RowsMatchTables'
  BY DEF IInv, Unique, RowsMatchTables, Present, SameTable, PgTable

LEMMA AcceptStep ==
  ASSUME IInv, NEW c \in Client, NEW n \in Node, NEW op \in {"create", "delete"},
         NEW name \in Name, Accept(c, n, op, name)
  PROVE  IInv'
<1> DEFINE x == [pc |-> "conn", op |-> op, name |-> name, node |-> n, id |-> requests + 1]
<1>1. /\ req' = [req EXCEPT ![c] = x] /\ requests' = requests + 1 /\ reply' = NoReply
      /\ UNCHANGED <<rows, tables, up, cache, pass, troubles>>
      /\ requests < MaxRequests /\ req[c].pc = "idle"
  BY Zenon DEF Accept, Active, MayAsk
<1>2. TypeOK /\ PassOwned /\ Loaded /\ requests \in 0..MaxRequests
  BY Zenon DEF IInv, Typed, TypeOK
<1>3. x \in Request /\ x.pc = "conn" /\ requests + 1 \in 0..MaxRequests
  BY <1>1, <1>2 DEF Request, Step, TxStep, Id
<1> HIDE DEF x
<1>4. /\ req' \in [Client -> Request \cup {Idle}] /\ req'[c] = x
      /\ \A d \in Client \ {c} : req'[d] = req[d]
  BY <1>1, <1>2, <1>3, Zenon DEF TypeOK
<1>5. TypeOK'
  BY <1>1, <1>2, <1>3, <1>4, Zenon DEF TypeOK
<1>6. PassOwned'
  BY <1>1, <1>2, <1>4 DEF PassOwned
<1>7. Loaded'
  BY <1>1, <1>2 DEF Loaded, Present
<1>8. Unique' /\ RowsMatchTables'
  BY <1>1, <1>3, <1>4, RowsKept, Zenon
<1> QED
  BY <1>5, <1>6, <1>7, <1>8 DEF IInv, Typed

\* A request that moves on without touching the database, or is answered.
LEMMA Proceeds ==
  ASSUME IInv, NEW c \in Client, req[c].pc \notin {"idle", "reconcile"},
         UNCHANGED <<rows, tables, up, cache, pass, countVars>>,
         NEW pc \in Step \ {"idle", "create"}, Goto(c, pc)
  PROVE  IInv'
<1>1. TypeOK /\ PassOwned /\ Loaded
  BY Zenon DEF IInv, Typed
<1>2. /\ req' \in [Client -> Request \cup {Idle}] /\ reply' = NoReply
      /\ req'[c].pc = pc /\ \A d \in Client \ {c} : req'[d] = req[d]
  BY <1>1, Moves, Zenon
<1>3. TypeOK'
  BY <1>1, <1>2, Zenon DEF TypeOK, countVars
<1>4. PassOwned'
  BY <1>1, <1>2, Zenon DEF PassOwned
<1>5. Loaded'
  BY <1>1 DEF Loaded, Present
<1>6. Unique' /\ RowsMatchTables'
  BY <1>2, RowsKept, Zenon
<1> QED
  BY <1>3, <1>4, <1>5, <1>6 DEF IInv, Typed

LEMMA Finishes ==
  ASSUME IInv, NEW c \in Client, req[c].pc \notin {"idle", "reconcile"},
         UNCHANGED <<rows, tables, up, cache, pass, countVars>>,
         NEW answer \in {"ok", "in_use", "pg_name_in_use", "not_found", "error"},
         Reply(c, answer)
  PROVE  IInv'
<1>1. TypeOK /\ PassOwned /\ Loaded
  BY Zenon DEF IInv, Typed
<1>2. /\ req' \in [Client -> Request \cup {Idle}] /\ reply' \in Answer
      /\ req'[c] = Idle /\ \A d \in Client \ {c} : req'[d] = req[d]
  BY <1>1, Ends, Zenon
<1>3. TypeOK'
  BY <1>1, <1>2, Zenon DEF TypeOK, countVars
<1>4. PassOwned'
  BY <1>1, <1>2 DEF PassOwned
<1>5. Loaded'
  BY <1>1, Zenon DEF Loaded, Present
<1>6. Unique' /\ RowsMatchTables'
  BY <1>2, Told, RowsKept, Zenon
<1> QED
  BY <1>3, <1>4, <1>5, <1>6, Zenon DEF IInv, Typed

LEMMA QuietSteps ==
  ASSUME IInv, NEW c \in Client,
         Connect(c) \/ Lock(c) \/ Check(c) \/ Drop(c) \/ Describe(c) \/ PoolTimeout(c)
  PROVE  IInv'
<1> USE DEF Step, TxStep
<1>1. CASE Connect(c)
  BY <1>1, Proceeds, Zenon DEF Connect
<1>2. CASE Lock(c)
  BY <1>2, Proceeds, Zenon DEF Lock
<1>3. CASE Check(c)
  BY <1>3, Proceeds, Finishes, Zenon DEF Check
<1>4. CASE Drop(c)
  BY <1>4, Proceeds, Zenon DEF Drop
<1>5. CASE Describe(c)
  BY <1>5, Finishes, Zenon DEF Describe
<1>6. CASE PoolTimeout(c)
  BY <1>6, Finishes, Zenon DEF PoolTimeout
<1> QED
  BY <1>1, <1>2, <1>3, <1>4, <1>5, <1>6

\* INSERT_CREATING_SQL: neither a committed row nor another open transaction has
\* the PostgreSQL name.
LEMMA InsertStep ==
  ASSUME IInv, NEW c \in Client, Insert(c)
  PROVE  IInv'
<1>1. /\ req[c].pc = "insert" /\ UNCHANGED <<rows, tables, up, cache, pass, countVars>>
      /\ \A d \in Client : req[d].pc = "create" => req[d].name \notin SameTable(req[c].name)
  BY Zenon DEF Insert
<1>2. CASE SameTable(req[c].name) \cap Present(rows) # {}
  BY <1>1, <1>2, Finishes, Zenon DEF Insert
<1>3. CASE SameTable(req[c].name) \cap Present(rows) = {}
  <2>1. TypeOK /\ PassOwned /\ Loaded
    BY Zenon DEF IInv, Typed
  <2>2. Goto(c, "create")
    BY <1>3, Zenon DEF Insert
  <2>3. /\ req' \in [Client -> Request \cup {Idle}] /\ reply' = NoReply
        /\ req'[c].pc = "create" /\ req'[c].name = req[c].name
        /\ \A d \in Client \ {c} : req'[d] = req[d]
    BY <1>1, <2>1, <2>2, Moves, Zenon DEF Step, TxStep
  <2>4. TypeOK'
    BY <1>1, <2>1, <2>3, Zenon DEF TypeOK, countVars
  <2>5. PassOwned'
    BY <1>1, <2>1, <2>3 DEF PassOwned
  <2>6. Loaded'
    BY <1>1, <2>1 DEF Loaded, Present
  <2>7. \A d \in Client : req[d].pc = "create" =>
          req[d].name \in Name /\ PgTable(req[d].name) # PgTable(req[c].name)
    BY <1>1, <2>1, ActiveRequest, Zenon DEF SameTable, Request
  <2>8. Unique'
    BY <1>1, <1>3, <2>3, <2>7 DEF IInv, Unique, SameTable, Present, PgTable
  <2>9. RowsMatchTables'
    BY <1>1, Zenon DEF IInv, RowsMatchTables, Present, PgTable
  <2> QED
    BY <2>4, <2>5, <2>6, <2>8, <2>9 DEF IInv, Typed
<1> QED
  BY <1>2, <1>3, Zenon

LEMMA FailStep ==
  ASSUME IInv, NEW c \in Client, Fail(c)
  PROVE  IInv'
<1>1. /\ req[c].pc # "idle" /\ troubles < MaxTroubles /\ troubles' = troubles + 1
      /\ Reply(c, "error") /\ pass' = [pass EXCEPT ![c] = Off]
      /\ UNCHANGED <<rows, tables, up, cache, requests>>
  BY Zenon DEF Fail, Active, MayFail
<1>2. TypeOK /\ PassOwned /\ Loaded
  BY Zenon DEF IInv, Typed
<1>3. /\ req' \in [Client -> Request \cup {Idle}] /\ reply' \in Answer
      /\ req'[c] = Idle /\ \A d \in Client \ {c} : req'[d] = req[d]
  BY <1>1, <1>2, Ends, Zenon
<1>4. /\ pass' \in [Owner -> Pass \cup {Off}] /\ pass'[c] = Off
      /\ \A o \in Owner \ {c} : pass'[o] = pass[o]
  BY <1>1, <1>2, Zenon DEF TypeOK, Owner
<1>5. TypeOK'
  BY <1>1, <1>2, <1>3, <1>4 DEF TypeOK
<1>6. PassOwned'
  BY <1>2, <1>3, <1>4, Told DEF PassOwned, Owner
<1>7. Loaded'
  BY <1>2, <1>4, Told DEF Loaded, Present
<1>8. Unique' /\ RowsMatchTables'
  BY <1>1, <1>3, Told, RowsKept, Zenon
<1> QED
  BY <1>5, <1>6, <1>7, <1>8 DEF IInv, Typed

--------------------------------------------------------------------------------
(* The commits.                                                            *)

LEMMA AfterCommitStep ==
  ASSUME Typed, NEW c \in Client, req[c].pc \in {"create", "row"}, AfterCommit(c)
  PROVE  /\ req' \in [Client -> Request \cup {Idle}] /\ reply' = NoReply
         /\ req'[c].pc \in {"reconcile", "describe"}
         /\ \A d \in Client \ {c} : req'[d] = req[d]
         /\ pass' \in [Owner -> Pass \cup {Off}]
         /\ PassOwned' /\ Loaded'
<1>1. TypeOK /\ PassOwned /\ Loaded
  BY Zenon DEF Typed
<1>2. CASE Invalidate
  <2>1. Goto(c, "reconcile") /\ pass' = [pass EXCEPT ![c] = [at |-> "conn"]]
    BY <1>2, Zenon DEF AfterCommit
  <2>2. /\ req' \in [Client -> Request \cup {Idle}] /\ reply' = NoReply
        /\ req'[c].pc = "reconcile" /\ \A d \in Client \ {c} : req'[d] = req[d]
    BY <1>1, <2>1, Moves, Zenon DEF Step, TxStep
  <2>3. [at |-> "conn"] \in Pass
    BY Zenon DEF Pass
  <2>4. /\ pass' \in [Owner -> Pass \cup {Off}] /\ pass'[c].at = "conn"
        /\ \A o \in Owner \ {c} : pass'[o] = pass[o]
    BY <1>1, <2>1, <2>3, Zenon DEF TypeOK, Owner
  <2>5. PassOwned'
    BY <1>1, <2>2, <2>4 DEF PassOwned, Owner
  <2>6. Loaded'
    BY <1>1, <2>4 DEF Loaded, Present
  <2> QED
    BY <2>2, <2>4, <2>5, <2>6
<1>3. CASE ~Invalidate
  <2>1. Goto(c, "describe") /\ pass' = pass
    BY <1>3, Zenon DEF AfterCommit
  <2>2. /\ req' \in [Client -> Request \cup {Idle}] /\ reply' = NoReply
        /\ req'[c].pc = "describe" /\ \A d \in Client \ {c} : req'[d] = req[d]
    BY <1>1, <2>1, Moves, Zenon DEF Step, TxStep
  <2>3. PassOwned' /\ Loaded'
    BY <1>1, <2>1, <2>2 DEF PassOwned, Loaded, Present
  <2> QED
    BY <1>1, <2>1, <2>2, <2>3 DEF TypeOK
<1> QED
  BY <1>2, <1>3, Zenon

LEMMA CommitCreateStep ==
  ASSUME IInv, NEW c \in Client, CommitCreate(c)
  PROVE  IInv'
<1> DEFINE r == req[c]
           row == [id |-> r.id, lsis |-> r.id, verdict |-> "new"]
           table == [id |-> r.id, sound |-> TRUE]
<1>1. /\ r.pc = "create" /\ AfterCommit(c) /\ UNCHANGED <<up, cache, countVars>>
      /\ rows' = [rows EXCEPT ![r.name] = row]
      /\ tables' = [tables EXCEPT ![PgTable(r.name)] = table]
  BY Zenon DEF CommitCreate
<1>2. TypeOK /\ Typed
  BY SMTT(30) DEF IInv, Typed
<1>3. r.name \in Name /\ r.id \in Id /\ PgTable(r.name) \in Pg
  BY <1>1, <1>2, ActiveRequest, Zenon DEF Request, PgTable
<1>4. row \in Row /\ table \in Table /\ row.id = r.id /\ table.id = r.id
  BY <1>3, Zenon DEF Row, Table, Verdict
<1>5. /\ req' \in [Client -> Request \cup {Idle}] /\ reply' = NoReply
      /\ req'[c].pc \in {"reconcile", "describe"}
      /\ \A d \in Client \ {c} : req'[d] = req[d]
      /\ pass' \in [Owner -> Pass \cup {Off}]
      /\ PassOwned' /\ Loaded'
  BY <1>1, <1>2, AfterCommitStep, Zenon
<1> HIDE DEF row, table
<1>6. /\ rows' \in Snapshot /\ tables' \in [Pg -> Table \cup {None}]
      /\ rows'[r.name] = row /\ tables'[PgTable(r.name)] = table
      /\ \A name \in Name \ {r.name} : rows'[name] = rows[name]
      /\ \A p \in Pg \ {PgTable(r.name)} : tables'[p] = tables[p]
  BY <1>1, <1>2, <1>3, <1>4 DEF TypeOK, Snapshot
<1>7. TypeOK'
  BY <1>1, <1>2, <1>5, <1>6, Zenon DEF TypeOK, countVars
<1>8. Present(rows') = Present(rows) \cup {r.name}
  BY <1>3, <1>4, <1>6, SMTT(30) DEF Present
<1>9. \A name \in Present(rows) : PgTable(name) # PgTable(r.name) /\ name # r.name
  BY <1>1, Zenon DEF IInv, Unique, SameTable, Present
<1>10. \A d \in Client \ {c} : req[d].pc = "create" =>
         req[d].name \in Name /\ PgTable(req[d].name) # PgTable(r.name)
  BY <1>1, <1>2, ActiveRequest, Zenon DEF IInv, Unique, Request
<1> HIDE DEF r
<1>11. Unique'
  <2>1. \A x, y \in Present(rows') : PgTable(x) = PgTable(y) => x = y
    BY <1>8, <1>9 DEF IInv, Unique
  <2>2. \A d \in Client : req'[d].pc = "create" => SameTable(req'[d].name) \cap Present(rows') = {}
    BY <1>5, <1>8, <1>10 DEF IInv, Unique, SameTable
  <2>3. \A d, e \in Client : req'[d].pc = "create" /\ req'[e].pc = "create"
                             /\ PgTable(req'[d].name) = PgTable(req'[e].name) => d = e
    BY <1>5 DEF IInv, Unique
  <2> QED
    BY <2>1, <2>2, <2>3, Zenon DEF Unique, Present, SameTable, PgTable
<1>12. RowsMatchTables'
  <2>1. \A name \in Present(rows') : /\ tables'[PgTable(name)] # None
                                     /\ tables'[PgTable(name)].id = rows'[name].id
    BY <1>3, <1>4, <1>6, <1>8, <1>9 DEF IInv, RowsMatchTables, Present, PgTable
  <2>2. \A p \in Pg : tables'[p] # None => \E name \in Present(rows') : PgTable(name) = p
    BY <1>3, <1>6, <1>8 DEF IInv, RowsMatchTables
  <2> QED
    BY <2>1, <2>2, Zenon DEF RowsMatchTables, Present, PgTable
<1> QED
  BY <1>5, <1>7, <1>11, <1>12, Zenon DEF IInv, Typed

LEMMA DeleteRowStep ==
  ASSUME IInv, NEW c \in Client, DeleteRow(c)
  PROVE  IInv'
<1> DEFINE r == req[c]
<1>1. r.pc = "row" /\ UNCHANGED <<up, cache, countVars>>
  BY Zenon DEF DeleteRow
<1>2. TypeOK /\ Typed
  BY Zenon DEF IInv, Typed
<1>3. r.name \in Name /\ PgTable(r.name) \in Pg
  BY <1>1, <1>2, ActiveRequest, SMTT(30) DEF Request, PgTable
<1>4. CASE rows[r.name] = None
  BY <1>1, <1>4, Finishes, SMTT(30) DEF DeleteRow
<1>5. CASE rows[r.name] # None
  <2>1. /\ AfterCommit(c)
        /\ rows' = [rows EXCEPT ![r.name] = None]
        /\ tables' = [tables EXCEPT ![PgTable(r.name)] = None]
    BY <1>5, SMTT(30) DEF DeleteRow
  <2>2. /\ req' \in [Client -> Request \cup {Idle}] /\ reply' = NoReply
        /\ req'[c].pc \in {"reconcile", "describe"}
        /\ \A d \in Client \ {c} : req'[d] = req[d]
        /\ pass' \in [Owner -> Pass \cup {Off}]
        /\ PassOwned' /\ Loaded'
    BY <1>1, <1>2, <2>1, AfterCommitStep, Zenon
  <2> HIDE DEF r
  <2>3. /\ rows' \in Snapshot /\ tables' \in [Pg -> Table \cup {None}]
        /\ rows'[r.name] = None /\ tables'[PgTable(r.name)] = None
        /\ \A name \in Name \ {r.name} : rows'[name] = rows[name]
        /\ \A p \in Pg \ {PgTable(r.name)} : tables'[p] = tables[p]
    BY <1>2, <1>3, <2>1 DEF TypeOK, Snapshot
  <2>4. TypeOK'
    BY <1>1, <1>2, <2>2, <2>3, Zenon DEF TypeOK, countVars
  <2>5. Present(rows') = Present(rows) \ {r.name} /\ r.name \in Present(rows)
    BY <1>3, <1>5, <2>3 DEF Present
  <2>6. \A name \in Present(rows') : PgTable(name) # PgTable(r.name) /\ name \in Name
    BY <2>5, Zenon DEF IInv, Unique, Present
  <2>7. Unique'
    <3>1. \A x, y \in Present(rows') : PgTable(x) = PgTable(y) => x = y
      BY <2>5, Zenon DEF IInv, Unique
    <3>2. \A d \in Client : req'[d].pc = "create" => SameTable(req'[d].name) \cap Present(rows') = {}
      BY <2>2, <2>5 DEF IInv, Unique
    <3>3. \A d, e \in Client : req'[d].pc = "create" /\ req'[e].pc = "create"
                               /\ PgTable(req'[d].name) = PgTable(req'[e].name) => d = e
      BY <2>2 DEF IInv, Unique
    <3> QED
      BY <3>1, <3>2, <3>3, Zenon DEF Unique, Present, SameTable, PgTable
  <2>8. RowsMatchTables'
    <3>1. \A name \in Present(rows') : /\ tables'[PgTable(name)] # None
                                       /\ tables'[PgTable(name)].id = rows'[name].id
      BY <2>3, <2>5, <2>6 DEF IInv, RowsMatchTables, PgTable
    <3>2. \A p \in Pg : tables'[p] # None => \E name \in Present(rows') : PgTable(name) = p
      BY <2>3, <2>5, SMTT(30) DEF IInv, RowsMatchTables
    <3> QED
      BY <3>1, <3>2, Zenon DEF RowsMatchTables, Present, PgTable
  <2> QED
    BY <2>2, <2>4, <2>7, <2>8, Zenon DEF IInv, Typed
<1> QED
  BY <1>4, <1>5

USE ParamAssumption, NoneAssumption

--------------------------------------------------------------------------------
(* Reconcile passes.                                                       *)

\* What a pass carries, and that it has rows for what it looks at.
Fits(x) ==
  /\ x \in Pass \cup {Off}
  /\ x.at = "introspect" => x.todo \subseteq Present(x.view)
  /\ x.at = "write" => x.todo \subseteq Present(x.view) /\ x.name \in Present(x.view)

LEMMA PassShapes ==
  ASSUME Typed, NEW o \in Owner
  PROVE  /\ pass[o].at \in {"off", "conn", "load", "introspect", "write"}
         /\ Fits(pass[o])
         /\ pass[o].at \in {"conn", "load"} => pass[o] = [at |-> pass[o].at]
         /\ pass[o].at = "introspect" =>
              /\ pass[o].todo \in SUBSET Name /\ pass[o].view \in Snapshot
              /\ pass[o] = [at |-> "introspect", todo |-> pass[o].todo, view |-> pass[o].view]
         /\ pass[o].at = "write" =>
              /\ pass[o].todo \in SUBSET Name /\ pass[o].view \in Snapshot
              /\ pass[o].name \in Name
<1>1. pass[o] \in Pass \cup {Off}
  BY Zenon DEF Typed, TypeOK
<1>2. CASE pass[o] = Off
  BY <1>2 DEF Off, Fits
<1>3. CASE pass[o] \in [at : {"conn", "load"}]
  BY <1>1, <1>3, Zenon DEF Fits
<1>4. CASE pass[o] \in [at : {"introspect"}, todo : SUBSET Name, view : Snapshot]
  BY <1>1, <1>4, Zenon DEF Fits, Typed, Loaded
<1>5. CASE pass[o] \in [at : {"write"}, todo : SUBSET Name, view : Snapshot, name : Name]
  BY <1>1, <1>5, SMTT(30) DEF Fits, Typed, Loaded
<1> QED
  BY <1>1, <1>2, <1>3, <1>4, <1>5, Zenon DEF Pass

\* One pass moves on and nothing else changes.
LEMMA PassMoves ==
  ASSUME IInv, NEW o \in Owner, NEW x, pass' = [pass EXCEPT ![o] = x], Fits(x),
         o \in Client /\ x.at # "off" => req[o].pc = "reconcile",
         UNCHANGED <<rows, tables, up, cache, req, requests>>,
         troubles' \in 0..MaxTroubles, reply' = NoReply
  PROVE  IInv'
<1>1. TypeOK /\ PassOwned /\ Loaded
  BY Zenon DEF IInv, Typed
<1>2. /\ pass' \in [Owner -> Pass \cup {Off}] /\ pass'[o] = x
      /\ \A q \in Owner \ {o} : pass'[q] = pass[q]
  BY <1>1, Zenon DEF TypeOK, Fits
<1>3. TypeOK'
  BY <1>1, <1>2, Zenon DEF TypeOK
<1>4. PassOwned'
  BY <1>1, <1>2 DEF PassOwned, Owner
<1>5. Loaded'
  BY <1>1, <1>2, SMTT(30) DEF Loaded, Present, Fits
<1>6. Unique' /\ RowsMatchTables'
  BY SMTT(40) DEF IInv, Unique, RowsMatchTables, Present, SameTable, PgTable
<1> QED
  BY <1>3, <1>4, <1>5, <1>6, Zenon DEF IInv, Typed

LEMMA PassSteps ==
  ASSUME IInv, NEW o \in Owner, PassConnect(o) \/ Load(o)
  PROVE  IInv'
<1>1. Typed /\ troubles \in 0..MaxTroubles /\ rows \in Snapshot /\ pass \in [Owner -> Pass \cup {Off}]
  BY Zenon DEF IInv, Typed, TypeOK
<1>2. o \in Client /\ pass[o].at # "off" => req[o].pc = "reconcile"
  BY <1>1, Zenon DEF Typed, PassOwned
<1>3. CASE PassConnect(o)
  <2>1. pass[o] = [at |-> "conn"]
    BY <1>1, <1>3, PassShapes, Zenon DEF PassConnect
  <2>2. pass' = [pass EXCEPT ![o] = [at |-> "load"]]
    <3>1. pass' = [pass EXCEPT ![o] = [pass[o] EXCEPT !.at = "load"]]
      BY <1>1, <1>3, Zenon DEF PassConnect
    <3>2. [pass[o] EXCEPT !.at = "load"] = [at |-> "load"]
      BY <2>1
    <3> QED
      BY <3>1, <3>2, Zenon
  <2>3. Fits([at |-> "load"])
    BY Zenon DEF Fits, Pass
  <2> QED
    BY <1>1, <1>2, <1>3, <2>2, <2>3, PassMoves, Zenon DEF PassConnect, countVars
<1>4. CASE Load(o)
  <2> DEFINE x == [at |-> "introspect", todo |-> Present(rows), view |-> rows]
  <2>1. Fits(x)
    BY <1>1, Zenon DEF Fits, Pass, Present
  <2>2. pass' = [pass EXCEPT ![o] = x] /\ x.at # "off"
    BY <1>4, Zenon DEF Load
  <2> HIDE DEF x
  <2> QED
    BY <1>1, <1>2, <1>4, <2>1, <2>2, PassMoves, Zenon DEF Load, countVars
<1> QED
  BY <1>3, <1>4

LEMMA JudgeStep ==
  ASSUME IInv, NEW o \in Owner, NEW name \in Name, Judge(o, name)
  PROVE  IInv'
<1> DEFINE p == pass[o]
           verdict == Introspect(p.view[name], tables[PgTable(name)])
           rest == p.todo \ {name}
           same == [p EXCEPT !.todo = rest]
           view == [p.view EXCEPT ![name].verdict = verdict]
           other == [at |-> "write", todo |-> rest, name |-> name, view |-> view]
<1>1. /\ p.at = "introspect" /\ name \in p.todo /\ reply' = NoReply
      /\ pass' = [pass EXCEPT ![o] = IF verdict = p.view[name].verdict THEN same ELSE other]
      /\ UNCHANGED <<rows, tables, up, cache, req, requests, troubles>>
  BY Zenon DEF Judge, countVars
<1>2. Typed /\ troubles \in 0..MaxTroubles
  BY Zenon DEF IInv, Typed, TypeOK
<1>3. o \in Client => req[o].pc = "reconcile"
  BY <1>1, <1>2, Zenon DEF Typed, PassOwned
<1>4. /\ p.todo \in SUBSET Name /\ p.view \in Snapshot /\ p.todo \subseteq Present(p.view)
      /\ p = [at |-> "introspect", todo |-> p.todo, view |-> p.view]
  BY <1>1, <1>2, PassShapes, Zenon DEF Fits
<1>5. Fits(same) /\ same.at = "introspect"
  <2>1. same = [at |-> "introspect", todo |-> rest, view |-> p.view]
    <3>1. PICK t, v : p = [at |-> "introspect", todo |-> t, view |-> v]
      BY <1>4, Zenon
    <3>2. t = p.todo /\ v = p.view
      BY <3>1
    <3> HIDE DEF p, rest
    <3>3. [p EXCEPT !.todo = rest] = [at |-> "introspect", todo |-> rest, view |-> v]
      BY <3>1
    <3> QED
      BY <3>2, <3>3, Zenon
  <2> HIDE DEF same
  <2> QED
    BY <1>4, <2>1, Zenon DEF Fits, Pass
<1>6. Fits(other) /\ other.at = "write"
  <2>1. verdict \in Verdict
    BY Zenon DEF Introspect, Verdict
  <2>2. p.view[name] \in Row
    BY <1>1, <1>4, Zenon DEF Snapshot, Present
  <2> HIDE DEF verdict, p
  <2>3. [p.view[name] EXCEPT !.verdict = verdict] \in Row
    BY <2>1, <2>2, Zenon DEF Row
  <2>4. view = [p.view EXCEPT ![name] = [p.view[name] EXCEPT !.verdict = verdict]]
    BY <1>4 DEF Snapshot
  <2> HIDE DEF view
  <2>5. view \in Snapshot /\ Present(view) = Present(p.view)
    BY <1>4, <2>2, <2>3, <2>4, Zenon DEF Snapshot, Present
  <2> QED
    BY <1>1, <1>4, <2>5, Zenon DEF Fits, Pass
<1>7. PICK x : Fits(x) /\ x.at # "off" /\ pass' = [pass EXCEPT ![o] = x]
  BY <1>1, <1>5, <1>6, Zenon
<1> QED
  BY <1>1, <1>2, <1>3, <1>7, PassMoves, Zenon

LEMMA SkipStep ==
  ASSUME IInv, NEW o \in Owner, NEW name \in Name, Skip(o, name)
  PROVE  IInv'
<1> DEFINE p == pass[o]
           x == [at |-> "introspect", todo |-> p.todo \ {name}, view |-> p.view]
<1>1. /\ p.at = "introspect" /\ reply' = NoReply
      /\ pass' = [pass EXCEPT ![o].todo = @ \ {name}]
      /\ UNCHANGED <<rows, tables, up, cache, req, requests>>
      /\ troubles < MaxTroubles /\ troubles' = troubles + 1
  BY Zenon DEF Skip, MayFail
<1>2. Typed /\ troubles \in 0..MaxTroubles /\ pass \in [Owner -> Pass \cup {Off}]
  BY Zenon DEF IInv, Typed, TypeOK
<1>3. o \in Client => req[o].pc = "reconcile"
  BY <1>1, <1>2, Zenon DEF Typed, PassOwned
<1>4. /\ p.todo \in SUBSET Name /\ p.view \in Snapshot /\ p.todo \subseteq Present(p.view)
      /\ p = [at |-> "introspect", todo |-> p.todo, view |-> p.view]
  BY <1>1, <1>2, PassShapes, Zenon DEF Fits
<1>5. pass' = [pass EXCEPT ![o] = x]
  <2>1. pass' = [pass EXCEPT ![o] = [p EXCEPT !.todo = p.todo \ {name}]]
    BY <1>1, <1>2, Zenon
  <2>2. [p EXCEPT !.todo = p.todo \ {name}] = x
    <3> DEFINE rest == p.todo \ {name}
    <3>1. PICK t, v : p = [at |-> "introspect", todo |-> t, view |-> v]
      BY <1>4, Zenon
    <3>2. t = p.todo /\ v = p.view
      BY <3>1
    <3> HIDE DEF p, rest
    <3>3. [p EXCEPT !.todo = rest] = [at |-> "introspect", todo |-> rest, view |-> v]
      BY <3>1
    <3>4. [p EXCEPT !.todo = rest] = [at |-> "introspect", todo |-> rest, view |-> p.view]
      BY <3>2, <3>3
    <3> QED
      BY <3>4, Zenon DEF rest
  <2> QED
    BY <2>1, <2>2, Zenon
<1>6. Fits(x) /\ x.at # "off"
  BY <1>4, Zenon DEF Fits, Pass
<1>7. troubles' \in 0..MaxTroubles
  BY <1>1, <1>2
<1> HIDE DEF x
<1> QED
  BY <1>1, <1>3, <1>5, <1>6, <1>7, PassMoves, Zenon

\* UPDATE_VERDICT_SQL makes no row and keeps the one it updates where it was.
LEMMA WriteVerdictStep ==
  ASSUME IInv, NEW o \in Owner, WriteVerdict(o)
  PROVE  IInv'
<1> DEFINE p == pass[o]
           x == [at |-> "introspect", todo |-> p.todo, view |-> p.view]
           w == p.view[p.name]
<1>1. /\ p.at = "write" /\ reply' = NoReply /\ pass' = [pass EXCEPT ![o] = x]
      /\ UNCHANGED <<tables, up, cache, req, requests, troubles>>
  BY Zenon DEF WriteVerdict, countVars
<1>2. Typed /\ TypeOK /\ PassOwned /\ Loaded /\ rows \in Snapshot
  BY Zenon DEF IInv, Typed, TypeOK
<1>3. /\ p.todo \in SUBSET Name /\ p.view \in Snapshot /\ p.name \in Name
      /\ p.todo \subseteq Present(p.view) /\ p.name \in Present(p.view)
  BY <1>1, <1>2, PassShapes, Zenon DEF Fits
<1>4. w \in Row
  BY <1>3, Zenon DEF Snapshot, Present
<1>5. /\ rows' \in Snapshot /\ Present(rows') = Present(rows)
      /\ \A name \in Present(rows) : rows'[name].id = rows[name].id
  <2>1. CASE rows[p.name] = None
    BY <1>2, <2>1, Zenon DEF WriteVerdict
  <2>2. CASE rows[p.name] # None
    <3> DEFINE y == [rows[p.name] EXCEPT !.verdict = w.verdict, !.lsis = w.lsis]
    <3>1. rows[p.name] \in Row
      BY <1>2, <1>3, <2>2, SMTT(30) DEF Snapshot
    <3>2. rows' = [rows EXCEPT ![p.name] = y]
      BY <1>2, <1>3, <2>2, Zenon DEF WriteVerdict, Snapshot
    <3> HIDE DEF w, p
    <3>3. y \in Row /\ y.id = rows[p.name].id
      BY <1>4, <3>1, Zenon DEF Row
    <3> HIDE DEF y
    <3> QED
      BY <1>2, <1>3, <2>2, <3>2, <3>3 DEF Snapshot, Present
  <2> QED
    BY <2>1, <2>2, Zenon
<1>6. Fits(x) /\ x.at = "introspect"
  BY <1>3, SMTT(30) DEF Fits, Pass
<1> HIDE DEF x, p
<1>7. /\ pass' \in [Owner -> Pass \cup {Off}] /\ pass'[o] = x
      /\ \A q \in Owner \ {o} : pass'[q] = pass[q]
  BY <1>1, <1>2, <1>6, Zenon DEF TypeOK, Fits
<1>8. TypeOK'
  BY <1>1, <1>2, <1>5, <1>7, SMTT(30) DEF TypeOK
<1>9. PassOwned'
  BY <1>1, <1>2, <1>7, SMTT(30) DEF PassOwned, Owner, p
<1>10. Loaded'
  BY <1>2, <1>6, <1>7, SMTT(30) DEF Loaded, Present, Fits
<1>11. Unique'
  <2>1. \A c \in Client : req'[c].pc = "create" => SameTable(req'[c].name) \cap Present(rows') = {}
    BY <1>1, <1>5, Zenon DEF IInv, Unique
  <2>2. \A y, z \in Present(rows') : PgTable(y) = PgTable(z) => y = z
    BY <1>5, Zenon DEF IInv, Unique
  <2>3. \A c, d \in Client : req'[c].pc = "create" /\ req'[d].pc = "create"
                             /\ PgTable(req'[c].name) = PgTable(req'[d].name) => c = d
    BY <1>1, Zenon DEF IInv, Unique
  <2> QED
    BY <2>1, <2>2, <2>3, Zenon DEF Unique, Present, SameTable, PgTable
<1>12. RowsMatchTables'
  <2>1. \A name \in Present(rows') : /\ tables'[PgTable(name)] # None
                                     /\ tables'[PgTable(name)].id = rows'[name].id
    BY <1>1, <1>5, Zenon DEF IInv, RowsMatchTables
  <2>2. \A q \in Pg : tables'[q] # None => \E name \in Present(rows') : PgTable(name) = q
    BY <1>1, <1>5, Zenon DEF IInv, RowsMatchTables
  <2> QED
    BY <2>1, <2>2, Zenon DEF RowsMatchTables, Present, PgTable
<1> QED
  BY <1>8, <1>9, <1>10, <1>11, <1>12 DEF IInv, Typed

\* A pass ends, and with it, or not, the request that ran it.
LEMMA PassEnds ==
  ASSUME IInv, NEW o \in Owner, pass' = [pass EXCEPT ![o] = Off],
         UNCHANGED <<rows, tables, requests>>, troubles' \in 0..MaxTroubles,
         up' \in [Node -> {"up", "booting", "down"}], cache' \in [Node -> Snapshot],
         reply' \in Answer \cup {NoReply},
         req' \in [Client -> Request \cup {Idle}],
         o \in Client => /\ req'[o].pc # "create"
                         /\ \A d \in Client \ {o} : req'[d] = req[d],
         o \notin Client => req' = req
  PROVE  IInv'
<1>1. TypeOK /\ PassOwned /\ Loaded
  BY Zenon DEF IInv, Typed
<1>2. /\ pass' \in [Owner -> Pass \cup {Off}] /\ pass'[o] = Off
      /\ \A q \in Owner \ {o} : pass'[q] = pass[q]
  BY <1>1 DEF TypeOK
<1>3. TypeOK'
  BY <1>1, <1>2, Zenon DEF TypeOK
<1>4. PassOwned'
  BY <1>1, <1>2, Told, SMTT(30) DEF PassOwned, Owner
<1>5. Loaded'
  BY <1>1, <1>2, Told, SMTT(40) DEF Loaded, Present
<1>6. Unique' /\ RowsMatchTables'
  <2>1. CASE o \in Client
    BY <2>1, RowsKept, SMTT(30)
  <2>2. CASE o \notin Client
    BY <2>2, SMTT(40) DEF IInv, Unique, RowsMatchTables, Present, SameTable, PgTable
  <2> QED
    BY <2>1, <2>2, Zenon
<1> QED
  BY <1>3, <1>4, <1>5, <1>6 DEF IInv, Typed

LEMMA ReplaceSnapshotStep ==
  ASSUME IInv, NEW o \in Owner, ReplaceSnapshot(o)
  PROVE  IInv'
<1>1. /\ pass[o].at = "introspect" /\ pass' = [pass EXCEPT ![o] = Off]
      /\ cache' = [cache EXCEPT ![NodeOf(o)] = pass[o].view]
      /\ up' = [up EXCEPT ![NodeOf(o)] = "up"]
      /\ UNCHANGED <<rows, tables, requests, troubles>>
  BY Zenon DEF ReplaceSnapshot, countVars
<1>2. /\ Typed /\ TypeOK /\ PassOwned /\ up \in [Node -> {"up", "booting", "down"}]
      /\ cache \in [Node -> Snapshot] /\ troubles \in 0..MaxTroubles
      /\ req \in [Client -> Request \cup {Idle}]
  BY Zenon DEF IInv, Typed, TypeOK
<1>3. pass[o].view \in Snapshot
  BY <1>1, <1>2, PassShapes, Zenon
<1>4. up' \in [Node -> {"up", "booting", "down"}] /\ cache' \in [Node -> Snapshot]
  BY <1>1, <1>2, <1>3, Zenon
<1>5. CASE o \in Client
  <2>1. req[o].pc = "reconcile" /\ Goto(o, "describe")
    BY <1>1, <1>2, <1>5, Zenon DEF PassOwned, ReplaceSnapshot
  <2>2. /\ req' \in [Client -> Request \cup {Idle}] /\ reply' = NoReply
        /\ req'[o].pc = "describe" /\ \A d \in Client \ {o} : req'[d] = req[d]
    BY <1>2, <1>5, <2>1, Moves DEF Step, TxStep
  <2> QED
    BY <1>1, <1>2, <1>4, <1>5, <2>2, PassEnds, Zenon
<1>6. CASE o \notin Client
  <2>1. req' = req /\ reply' = NoReply
    BY <1>6 DEF ReplaceSnapshot
  <2> QED
    BY <1>1, <1>2, <1>4, <1>6, <2>1, PassEnds, Zenon
<1> QED
  BY <1>5, <1>6, SMTT(30)

LEMMA PassErrorStep ==
  ASSUME IInv, NEW o \in Owner, PassTimeout(o) \/ PassFail(o)
  PROVE  IInv'
<1>1. /\ pass[o].at # "off" /\ PassError(o)
      /\ \/ troubles' = troubles
         \/ troubles < MaxTroubles /\ troubles' = troubles + 1
  BY Zenon DEF PassTimeout, PassFail, MayFail
<1>2. /\ Typed /\ TypeOK /\ PassOwned /\ up \in [Node -> {"up", "booting", "down"}]
      /\ cache \in [Node -> Snapshot] /\ troubles \in 0..MaxTroubles
      /\ req \in [Client -> Request \cup {Idle}]
  BY Zenon DEF IInv, Typed, TypeOK
<1>3. /\ pass' = [pass EXCEPT ![o] = Off] /\ UNCHANGED <<rows, tables, cache, requests>>
      /\ up' = [up EXCEPT ![NodeOf(o)] = IF @ = "booting" THEN "down" ELSE @]
  BY <1>1, Zenon DEF PassError
<1>4. up' \in [Node -> {"up", "booting", "down"}] /\ troubles' \in 0..MaxTroubles
  <2>1. \A n \in Node : up'[n] = IF n = NodeOf(o) /\ up[n] = "booting" THEN "down" ELSE up[n]
    BY <1>2, <1>3, Zenon
  <2>2. \A n \in Node : up'[n] \in {"up", "booting", "down"}
    BY <1>2, <2>1, Zenon
  <2>3. up' \in [Node -> {"up", "booting", "down"}]
    BY <1>2, <1>3, <2>2, Zenon
  <2> QED
    BY <1>1, <1>2, <2>3
<1>5. CASE o \in Client
  <2>1. req[o].pc = "reconcile" /\ Reply(o, "error")
    BY <1>1, <1>2, <1>5, Zenon DEF PassOwned, PassError
  <2>2. /\ req' \in [Client -> Request \cup {Idle}] /\ reply' \in Answer
        /\ req'[o] = Idle /\ \A d \in Client \ {o} : req'[d] = req[d]
    BY <1>2, <1>5, <2>1, Ends, Zenon
  <2> QED
    BY <1>2, <1>3, <1>4, <1>5, <2>2, Told, PassEnds, Zenon
<1>6. CASE o \notin Client
  <2>1. req' = req /\ reply' = NoReply
    BY <1>1, <1>6, Zenon DEF PassError
  <2> QED
    BY <1>2, <1>3, <1>4, <1>6, <2>1, PassEnds, Zenon
<1> QED
  BY <1>5, <1>6, Zenon

--------------------------------------------------------------------------------
(* The operator, crashes and restarts.                                     *)

LEMMA TickBootStep ==
  ASSUME IInv, NEW n \in Node, Tick(n) \/ Boot(n)
  PROVE  IInv'
<1>1. /\ pass' = [pass EXCEPT ![n] = [at |-> "conn"]] /\ reply' = NoReply
      /\ UNCHANGED <<rows, tables, cache, req, requests, troubles>>
      /\ up' = up \/ up' = [up EXCEPT ![n] = "booting"]
  BY Zenon DEF Tick, Boot, countVars
<1>2. TypeOK /\ PassOwned /\ Loaded /\ n \in Owner /\ n \notin Client
  BY Zenon DEF IInv, Typed, Owner
<1>3. [at |-> "conn"] \in Pass
  BY Zenon DEF Pass
<1>4. /\ pass' \in [Owner -> Pass \cup {Off}] /\ pass'[n].at = "conn"
      /\ \A q \in Owner \ {n} : pass'[q] = pass[q]
  BY <1>1, <1>2, <1>3 DEF TypeOK
<1>5. TypeOK'
  BY <1>1, <1>2, <1>4, Zenon DEF TypeOK
<1>6. PassOwned'
  BY <1>1, <1>2, <1>4, Zenon DEF PassOwned, Owner
<1>7. Loaded'
  BY <1>2, <1>4, SMTT(40) DEF Loaded, Present
<1>8. Unique' /\ RowsMatchTables'
  BY <1>1, SMTT(40) DEF IInv, Unique, RowsMatchTables, Present, SameTable, PgTable
<1> QED
  BY <1>5, <1>6, <1>7, <1>8, Zenon DEF IInv, Typed

LEMMA CrashStep ==
  ASSUME IInv, NEW n \in Node, Crash(n)
  PROVE  IInv'
<1>1. /\ troubles < MaxTroubles /\ troubles' = troubles + 1 /\ reply' = NoReply
      /\ up' = [up EXCEPT ![n] = "down"] /\ cache' = [cache EXCEPT ![n] = Empty]
      /\ req' = [c \in Client |-> IF OnNode(c, n) THEN Idle ELSE req[c]]
      /\ pass' = [o \in Owner |-> IF OnNode(o, n) THEN Off ELSE pass[o]]
      /\ UNCHANGED <<rows, tables, requests>>
  BY Zenon DEF Crash, MayFail
<1>2. TypeOK /\ PassOwned /\ Loaded
  BY Zenon DEF IInv, Typed
<1>3. Empty \in Snapshot
  BY Zenon DEF Empty, Snapshot
<1>4. TypeOK'
  BY <1>1, <1>2, <1>3, SMTT(30) DEF TypeOK
<1>5. PassOwned'
  BY <1>1, <1>2, Told, SMTT(30) DEF PassOwned, Owner
<1>6. Loaded'
  BY <1>1, <1>2, Told, SMTT(30) DEF Loaded, Present
<1>7. \A c \in Client : req'[c].pc = "create" => req'[c] = req[c]
  BY <1>1, Told, SMTT(30)
<1>8. Unique' /\ RowsMatchTables'
  BY <1>1, <1>7, SMTT(40) DEF IInv, Unique, RowsMatchTables, Present, SameTable, PgTable
<1> QED
  BY <1>4, <1>5, <1>6, <1>8 DEF IInv, Typed

LEMMA DriftStep ==
  ASSUME IInv, NEW p \in Pg, Drift(p)
  PROVE  IInv'
<1> DEFINE b == ~ tables[p].sound
           x == [tables[p] EXCEPT !.sound = b]
<1>1. /\ tables[p] # None /\ tables' = [tables EXCEPT ![p].sound = ~@]
      /\ troubles < MaxTroubles /\ troubles' = troubles + 1 /\ reply' = NoReply
      /\ UNCHANGED <<rows, up, cache, req, pass, requests>>
  BY Zenon DEF Drift, MayFail
<1>2. TypeOK /\ PassOwned /\ Loaded
  BY Zenon DEF IInv, Typed
<1>3. tables[p] \in Table
  BY <1>1, <1>2 DEF TypeOK
<1>4. tables' = [tables EXCEPT ![p] = x]
  BY <1>1, <1>2 DEF TypeOK
<1>5. b \in BOOLEAN
  BY Zenon
<1> HIDE DEF b
<1>6. x \in Table /\ x.id = tables[p].id
  BY <1>3, <1>5, Zenon DEF Table
<1> HIDE DEF x
<1>7. /\ tables' \in [Pg -> Table \cup {None}]
      /\ \A q \in Pg : /\ tables'[q] # None <=> tables[q] # None
                       /\ tables[q] # None => tables'[q].id = tables[q].id
  BY <1>1, <1>2, <1>4, <1>6, SMTT(30) DEF TypeOK
<1>8. TypeOK'
  BY <1>1, <1>2, <1>7 DEF TypeOK
<1>9. PassOwned' /\ Loaded' /\ Unique'
  BY <1>1, <1>2 DEF PassOwned, Loaded, Present, IInv, Unique, SameTable, PgTable
<1>10. RowsMatchTables'
  <2>1. \A name \in Name : PgTable(name) \in Pg
    BY Zenon DEF PgTable
  <2> QED
    BY <1>1, <1>7, <2>1 DEF IInv, RowsMatchTables, Present, PgTable
<1> QED
  BY <1>8, <1>9, <1>10, Zenon DEF IInv, Typed

--------------------------------------------------------------------------------
(* The theorems.                                                           *)

LEMMA Stutter == IInv /\ UNCHANGED vars => IInv'
<1> SUFFICES ASSUME IInv, UNCHANGED vars PROVE IInv'
  BY Zenon
<1>1. TypeOK'
  BY DEF vars, IInv, Typed, TypeOK
<1>2. PassOwned'
  BY Zenon DEF vars, IInv, Typed, PassOwned
<1>3. Loaded'
  BY Zenon DEF vars, IInv, Typed, Loaded, Present
<1>4. Unique'
  BY DEF vars, IInv, Unique, Present, SameTable
<1>5. RowsMatchTables'
  BY Zenon DEF vars, IInv, RowsMatchTables, Present
<1> QED
  BY <1>1, <1>2, <1>3, <1>4, <1>5, Zenon DEF IInv, Typed

LEMMA NextStep == IInv /\ [Next]_vars => IInv'
<1> SUFFICES ASSUME IInv, [Next]_vars PROVE IInv'
  BY Zenon
<1>1. CASE \E c \in Client, n \in Node : CreateTable(c, n) \/ DeleteTable(c, n)
  BY <1>1, AcceptStep, Zenon DEF CreateTable, DeleteTable
<1>2. CASE \E c \in Client : Handle(c) \/ Fail(c)
  BY <1>2, QuietSteps, InsertStep, CommitCreateStep, DeleteRowStep, FailStep DEF Handle
<1>3. CASE \E o \in Owner : Reconcile(o) \/ PassFail(o) \/ \E name \in Name : Skip(o, name)
  BY <1>3, PassSteps, WriteVerdictStep, ReplaceSnapshotStep, PassErrorStep, JudgeStep, SkipStep
  DEF Reconcile
<1>4. CASE \E n \in Node : Tick(n) \/ Crash(n) \/ Boot(n)
  BY <1>4, TickBootStep, CrashStep, Zenon
<1>5. CASE \E p \in Pg : Drift(p)
  BY <1>5, DriftStep, Zenon
<1>6. CASE UNCHANGED vars
  BY <1>6, Stutter, Zenon
<1> QED
  BY <1>1, <1>2, <1>3, <1>4, <1>5, <1>6 DEF Next

LEMMA Inductive == Spec => []IInv
  BY InitIInv, NextStep, PTL DEF Spec

(***************************************************************************)
(* The catalog table holds only whole rows, whatever passes write into it. *)
(***************************************************************************)
THEOREM TypeCorrect == Spec => []TypeOK
<1>1. IInv => TypeOK
  BY Zenon DEF IInv, Typed
<1> QED
  BY <1>1, Inductive, PTL

(***************************************************************************)
(* However many nodes create and delete tables, with whichever names       *)
(* collide in PostgreSQL, and wherever requests fail and nodes crash,      *)
(* every row has the table the same CreateTable made and every table has a *)
(* row.                                                                    *)
(***************************************************************************)
THEOREM RowsAndTablesAgree == Spec => []RowsMatchTables
<1>1. IInv => RowsMatchTables
  BY Zenon DEF IInv
<1> QED
  BY <1>1, Inductive, PTL
================================================================================
