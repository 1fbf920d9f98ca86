------------------------------ MODULE TableReuse ------------------------------
(***************************************************************************)
(* A table that is deleted and created again, perhaps with another key     *)
(* schema, while requests for its items are under way: the catalog         *)
(* snapshot a request is planned on (crates/rekt-server/src/lib.rs), the   *)
(* statements cached under the table's name (crates/rekt-storage-libpq/    *)
(* src/shape.rs), and the table PostgreSQL runs them on.                   *)
(*                                                                         *)
(* Catalog has the steps of DDL requests and reconcile passes, ItemStore   *)
(* those of one statement; here a DDL request is its commit, a pass is its *)
(* reading and its publication, and a statement is one step.               *)
(***************************************************************************)
EXTENDS Naturals, Sequences, FiniteSets, Functions

CONSTANTS
  Client,       \* connections with a request each
  Column,       \* the attributes that may be keys, and their columns
  Value,        \* what a key may be spelled as
  Items,        \* the items requests put, or name by their keys
  KeySchemas,   \* the key schemas a CreateTable may declare
  None,         \* no attribute, no table, no statement
  MaxTables,    \* bound: CreateTables
  MaxRequests   \* bound: requests

(***************************************************************************)
(* A key schema names the partition key and, perhaps, the sort key.        *)
(***************************************************************************)
KeyType == {"S", "N"}
KeyAttr == [col : Column, type : KeyType]

ASSUME ParamAssumption ==
  /\ KeySchemas \subseteq {<<pk>> : pk \in KeyAttr} \cup KeyAttr \X KeyAttr
  /\ MaxTables \in Nat /\ MaxRequests \in Nat

VARIABLES
  table,     \* the PostgreSQL table: its key schema and its rows
  snap,      \* the key schema in the catalog snapshot
  pass,      \* what the reconcile pass under way has read
  cache,     \* sql_cache: the key schema the cached statements were built for
  req,       \* per client: its request
  reply,     \* the answer of the last step, if it gave one
  tables, requests

vars == <<table, snap, pass, cache, req, reply, tables, requests>>

\* An attribute has a type and a spelling; an item need not have every one.
Attr == [type : KeyType, val : Value]
Item == [Column -> Attr \cup {None}]

ASSUME ItemsAssumption == Items \subseteq Item

\* The items a table with the keys ks can hold: its generated columns read
\* the attribute under the tag of its type and are NOT NULL.
HasKeys(it, ks) == \A i \in DOMAIN ks : it[ks[i].col] # None /\ it[ks[i].col].type = ks[i].type
KeyOf(it, ks) == [i \in DOMAIN ks |-> it[ks[i].col]]

\* Put, get and delete take the cached statements, the others build theirs.
Cached == {"put", "get", "delete"}
Conditional == {"put_if", "delete_if"}

Idle == [pc |-> "idle", op |-> "get", keys |-> <<>>, item |-> [x \in Column |-> None],
         stmt |-> <<>>]
NoReply == [by |-> None, status |-> "none", item |-> None]

Init ==
  /\ \E ks \in KeySchemas : table = [keys |-> ks, rows |-> {}] /\ snap = ks
  /\ pass = <<>> /\ cache = None
  /\ req = [c \in Client |-> Idle] /\ reply = NoReply
  /\ tables = 1 /\ requests = 0

--------------------------------------------------------------------------------
(***************************************************************************)
(* Tables, passes and restarts.                                            *)
(***************************************************************************)
CreateTable(ks) ==
  /\ table = None /\ tables < MaxTables
  /\ table' = [keys |-> ks, rows |-> {}] /\ tables' = tables + 1
  /\ reply' = NoReply
  /\ UNCHANGED <<snap, pass, cache, req, requests>>

DeleteTable ==
  /\ table # None
  /\ table' = None /\ reply' = NoReply
  /\ UNCHANGED <<snap, pass, cache, req, tables, requests>>

Declared == IF table = None THEN None ELSE table.keys

Load ==
  /\ pass = <<>>
  /\ pass' = <<Declared>> /\ reply' = NoReply
  /\ UNCHANGED <<table, snap, cache, req, tables, requests>>

Publish ==
  /\ pass # <<>>
  /\ snap' = pass[1] /\ pass' = <<>> /\ reply' = NoReply
  /\ UNCHANGED <<table, cache, req, tables, requests>>

\* The process ends, and a new one loads the catalog before it serves.
Restart ==
  /\ snap' = Declared /\ pass' = <<>> /\ cache' = None
  /\ req' = [c \in Client |-> Idle] /\ reply' = NoReply
  /\ UNCHANGED <<table, tables, requests>>

--------------------------------------------------------------------------------
(***************************************************************************)
(* A request: looked up in the snapshot and translated; given statements;  *)
(* carried out.                                                            *)
(***************************************************************************)
Plan(c, op, it) ==
  /\ req[c].pc = "idle" /\ requests < MaxRequests
  /\ snap # None /\ HasKeys(it, snap)
  /\ op \notin {"put", "put_if"} =>
       \A x \in Column : it[x] # None => \E i \in DOMAIN snap : snap[i].col = x
  /\ req' = [req EXCEPT ![c] = [pc |-> "planned", op |-> op, keys |-> snap, item |-> it,
                                stmt |-> <<>>]]
  /\ requests' = requests + 1 /\ reply' = NoReply
  /\ UNCHANGED <<table, snap, pass, cache, tables>>

\* shape_sql: the statements cached under the table's name, or new ones.
Prepare(c) ==
  /\ req[c].pc = "planned"
  /\ LET stmt == IF req[c].op \in Conditional \/ cache = None THEN req[c].keys ELSE cache
     IN  /\ req' = [req EXCEPT ![c].pc = "prepared", ![c].stmt = stmt]
         /\ cache' = IF req[c].op \in Conditional THEN cache ELSE stmt
  /\ reply' = NoReply
  /\ UNCHANGED <<table, snap, pass, tables, requests>>

(***************************************************************************)
(* PostgreSQL accepts a statement if there is a table and a parameter for  *)
(* each place, the columns exist with the types compared to, and, for an   *)
(* upsert, a unique index has exactly its columns.  Keys are bound by      *)
(* position and compared as the column's type, whatever they were sent as. *)
(***************************************************************************)
Accepts(r) ==
  /\ table # None /\ Len(r.stmt) = Len(r.keys)
  /\ Range(r.stmt) \subseteq Range(table.keys)
  /\ r.op = "put" => Range(r.stmt) = Range(table.keys)

\* Mutant of Selected: the sort key is bound before the partition key.
SelectedReversed(r) ==
  {row \in table.rows : \A i \in DOMAIN r.stmt :
     row[r.stmt[i].col].val = r.item[r.keys[Len(r.keys) + 1 - i].col].val}

Selected(r) ==
  {row \in table.rows : \A i \in DOMAIN r.stmt :
     row[r.stmt[i].col].val = r.item[r.keys[i].col].val}

Answer(c, status, it) ==
  /\ req' = [req EXCEPT ![c] = Idle]
  /\ reply' = [by |-> c, status |-> status, item |-> it]
  /\ UNCHANGED <<snap, pass, cache, tables, requests>>
Keep(rows) == table' = [table EXCEPT !.rows = rows]
One(rows) == IF rows = {} THEN None ELSE CHOOSE row \in rows : TRUE

\* The statement is refused by PostgreSQL and changes nothing.
Rejected(c) ==
  /\ ~Accepts(req[c])
  /\ Answer(c, "error", None) /\ UNCHANGED table

Get(c) ==
  /\ req[c].op = "get"
  /\ LET found == Selected(req[c])
     IN  Answer(c, IF Cardinality(found) > 1 THEN "error" ELSE "ok", One(found))
  /\ UNCHANGED table

\* DELETE ... RETURNING has deleted all it selects before query_opt counts.
Delete(c) ==
  /\ req[c].op = "delete"
  /\ LET found == Selected(req[c])
     IN  /\ Keep(table.rows \ found)
         /\ Answer(c, IF Cardinality(found) > 1 THEN "error" ELSE "ok", One(found))

\* Mutant of Put: the key columns may be NULL.
PutUnkeyed(c) ==
  /\ req[c].op = "put"
  /\ LET it == req[c].item
         same == {row \in table.rows : KeyOf(row, table.keys) = KeyOf(it, table.keys)}
     IN  /\ Keep((table.rows \ same) \cup {it})
         /\ Answer(c, "ok", One(Selected(req[c])))

\* The row takes the place of the one with its key, found by the unique index.
Put(c) ==
  /\ req[c].op = "put"
  /\ LET it == req[c].item
         same == {row \in table.rows : KeyOf(row, table.keys) = KeyOf(it, table.keys)}
     IN  \/ /\ HasKeys(it, table.keys)
            /\ Keep((table.rows \ same) \cup {it})
            /\ Answer(c, "ok", One(Selected(req[c])))
         \/ /\ ~HasKeys(it, table.keys)
            /\ Answer(c, "error", None) /\ UNCHANGED table

(***************************************************************************)
(* The transactions around SELECT ... FOR UPDATE, with a condition that    *)
(* holds.                                                                  *)
(***************************************************************************)
DeleteIf(c) ==
  /\ req[c].op = "delete_if"
  /\ LET found == Selected(req[c])
     IN  \/ Cardinality(found) > 1 /\ Answer(c, "error", None) /\ UNCHANGED table
         \/ Cardinality(found) < 2 /\ Keep(table.rows \ found) /\ Answer(c, "ok", One(found))

\* One row found is updated, none makes it an insert, which needs the index.
PutIf(c) ==
  /\ req[c].op = "put_if"
  /\ LET it == req[c].item
         found == Selected(req[c])
         writes == /\ Cardinality(found) < 2 /\ HasKeys(it, table.keys)
                   /\ found = {} => Range(req[c].stmt) = Range(table.keys)
     IN  \/ ~writes /\ Answer(c, "error", None) /\ UNCHANGED table
         \/ /\ writes
            /\ Keep((table.rows \ found) \cup {it}) /\ Answer(c, "ok", One(found))

Execute(c) ==
  /\ req[c].pc = "prepared"
  /\ \/ Rejected(c)
     \/ /\ Accepts(req[c])
        /\ Get(c) \/ Delete(c) \/ Put(c) \/ DeleteIf(c) \/ PutIf(c)

Next ==
  \/ \E ks \in KeySchemas : CreateTable(ks)
  \/ DeleteTable \/ Load \/ Publish \/ Restart
  \/ \E c \in Client : \/ \E op \in Cached \cup Conditional, it \in Items : Plan(c, op, it)
                       \/ Prepare(c) \/ Execute(c)

Spec == Init /\ [][Next]_vars

--------------------------------------------------------------------------------
\* The types.  In particular a prepared request has statements to run.
TypeOK ==
  /\ table \in [keys : KeySchemas, rows : SUBSET Item] \cup {None}
  /\ snap \in KeySchemas \cup {None} /\ cache \in KeySchemas \cup {None}
  /\ pass \in {<<>>} \cup {<<ks>> : ks \in KeySchemas \cup {None}}
  /\ \A c \in Client :
       /\ req[c].pc \in {"idle", "planned", "prepared"}
       /\ req[c].pc # "idle" => req[c].keys \in KeySchemas /\ HasKeys(req[c].item, req[c].keys)
       /\ req[c].pc = "prepared" => req[c].stmt \in KeySchemas
  /\ tables \in 0..MaxTables /\ requests \in 0..MaxRequests

(***************************************************************************)
(* Whatever plans and statements are out of date, a table holds only items *)
(* with its keys, and no two with the same.                                *)
(***************************************************************************)
RowsKeyed ==
  table # None =>
    \A row, other \in table.rows :
      /\ HasKeys(row, table.keys)
      /\ KeyOf(row, table.keys) = KeyOf(other, table.keys) => row = other

\* The row has every key value the request names.
Named(r, row) == \A i \in DOMAIN r.keys : row # None => row[r.keys[i].col] # None
                                            /\ row[r.keys[i].col].val = r.item[r.keys[i].col].val
Gone == IF table = None \/ table' = None THEN {} ELSE table.rows \ table'.rows

(***************************************************************************)
(* A request returns, overwrites and deletes only items with the key it    *)
(* names, even when the table it was planned for has been replaced by one  *)
(* with other keys, provided it runs the statements of its own shape.      *)
(***************************************************************************)
OnlyNamed ==
  [][\A c \in Client : reply'.by = c /\ req[c].stmt = req[c].keys =>
       \A row \in Gone \cup {reply'.item} : Named(req[c], row)]_vars

--------------------------------------------------------------------------------
\* What shape.rs says of the cached statements: "built once per distinct
\* [`TableShape`]", so that a request runs the statements of its own shape and
\* returns, overwrites and deletes only items with the key it names.
OnlyNamedAlways ==
  [][\A c \in Client : reply'.by = c =>
       \A row \in Gone \cup {reply'.item} : Named(req[c], row)]_vars

================================================================================
