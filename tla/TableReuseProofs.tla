--------------------------- MODULE TableReuseProofs ----------------------------
(***************************************************************************)
(* Proofs about TableReuse: however many tables, requests and clients      *)
(* there are, out-of-date plans and statements never give a table two rows *)
(* with one key, and a request that runs the statements of its own shape   *)
(* returns, overwrites and deletes only what it names.                     *)
(***************************************************************************)
EXTENDS TableReuse, TLAPS

(***************************************************************************)
(* The shape of what a request is planned on and carried out with.         *)
(***************************************************************************)
Plans == [pc : {"idle", "planned", "prepared"}, op : Cached \cup Conditional,
          keys : Seq(KeyAttr), item : Item, stmt : Seq(KeyAttr)]
Shape ==
  /\ table \in [keys : KeySchemas, rows : SUBSET Item] \cup {None}
  /\ snap \in KeySchemas \cup {None} /\ cache \in KeySchemas \cup {None}
  /\ pass \in Seq(KeySchemas \cup {None})
  /\ req \in [Client -> Plans]

\* A request is planned on the keys of a table, for an item that has them.
PlanHasKeys ==
  \A c \in Client : req[c].pc # "idle" =>
    req[c].keys \in KeySchemas /\ HasKeys(req[c].item, req[c].keys)

\* The conditional operations build their own statements, whatever is cached.
OwnStatements ==
  \A c \in Client : req[c].pc = "prepared" /\ req[c].op \in Conditional => req[c].stmt = req[c].keys

IInv == Shape /\ PlanHasKeys /\ OwnStatements /\ RowsKeyed

--------------------------------------------------------------------------------
(* Key schemas, rows and what a statement selects.                         *)

LEMMA SchemasAreSeqs == \A ks \in KeySchemas : ks \in Seq(KeyAttr)
<1> SUFFICES ASSUME NEW ks \in KeySchemas PROVE ks \in Seq(KeyAttr)
  BY Zenon
<1>1. ks \in {<<pk>> : pk \in KeyAttr} \cup KeyAttr \X KeyAttr
  BY ParamAssumption, Zenon
<1>2. CASE ks \in {<<pk>> : pk \in KeyAttr}
  <2>1. PICK pk \in KeyAttr : ks = <<pk>>
    BY <1>2
  <2> QED
    BY <2>1
<1>3. CASE ks \in KeyAttr \X KeyAttr
  <2>1. PICK pk \in KeyAttr, sk \in KeyAttr : ks = <<pk, sk>>
    BY <1>3
  <2> QED
    BY <2>1
<1> QED
  BY <1>1, <1>2, <1>3, Zenon

LEMMA IdlePlan == Idle \in Plans /\ Idle.pc = "idle"
  BY DEF Idle, Plans, Item, Cached

\* A column of an accepted statement is a key column of the table.
LEMMA StatementColumn ==
  ASSUME NEW r \in Plans, Accepts(r), NEW i \in DOMAIN r.stmt, Shape
  PROVE  /\ table \in [keys : KeySchemas, rows : SUBSET Item]
         /\ table.keys \in Seq(KeyAttr)
         /\ \E j \in DOMAIN table.keys : table.keys[j] = r.stmt[i]
         /\ i \in DOMAIN r.keys
<1>1. table \in [keys : KeySchemas, rows : SUBSET Item] /\ table.keys \in Seq(KeyAttr)
  BY SchemasAreSeqs, Zenon DEF Accepts, Shape
<1>2. r.stmt[i] \in Range(table.keys)
  BY Zenon DEF Accepts, Range
<1>3. i \in DOMAIN r.keys
  BY DEF Accepts, Plans
<1> QED
  BY <1>1, <1>2, <1>3, Zenon DEF Range

\* A row whose key is that of item x agrees with x in every column of an
\* accepted statement.
LEMMA SameKeyAgrees ==
  ASSUME NEW r \in Plans, Accepts(r), NEW i \in DOMAIN r.stmt, Shape,
         NEW row, NEW x, KeyOf(row, table.keys) = KeyOf(x, table.keys)
  PROVE  row[r.stmt[i].col] = x[r.stmt[i].col]
<1>1. PICK j \in DOMAIN table.keys : table.keys[j] = r.stmt[i]
  BY StatementColumn, Zenon
<1>2. KeyOf(row, table.keys)[j] = row[table.keys[j].col] /\ KeyOf(x, table.keys)[j] = x[table.keys[j].col]
  BY Zenon DEF KeyOf
<1> QED
  BY <1>1, <1>2, Zenon

\* A row that an accepted statement of the request's own shape selects has
\* every key value the request names.
LEMMA SelectedIsNamed ==
  ASSUME NEW r \in Plans, Accepts(r), Shape, RowsKeyed, r.stmt = r.keys,
         NEW row \in Selected(r)
  PROVE  Named(r, row)
<1> SUFFICES ASSUME NEW i \in DOMAIN r.keys
             PROVE  row[r.keys[i].col] # None /\ row[r.keys[i].col].val = r.item[r.keys[i].col].val
  BY Zenon DEF Named
<1>1. PICK j \in DOMAIN table.keys : table.keys[j] = r.stmt[i]
  BY StatementColumn, Zenon
<1>2. row \in table.rows /\ row[r.keys[i].col].val = r.item[r.keys[i].col].val
  BY Zenon DEF Selected
<1>3. row[table.keys[j].col] # None
  BY <1>2, Zenon DEF RowsKeyed, HasKeys, Accepts
<1> QED
  BY <1>1, <1>2, <1>3, Zenon

\* So has the row that an upsert of the request's own shape replaces.
LEMMA ReplacedIsNamed ==
  ASSUME NEW r \in Plans, Accepts(r), Shape, r.stmt = r.keys, HasKeys(r.item, r.keys),
         NEW row, KeyOf(row, table.keys) = KeyOf(r.item, table.keys)
  PROVE  Named(r, row)
<1> SUFFICES ASSUME NEW i \in DOMAIN r.keys
             PROVE  row[r.keys[i].col] # None /\ row[r.keys[i].col].val = r.item[r.keys[i].col].val
  BY Zenon DEF Named
<1>1. row[r.stmt[i].col] = r.item[r.stmt[i].col]
  BY SameKeyAgrees
<1> QED
  BY <1>1, Zenon DEF HasKeys

LEMMA OneOf ==
  ASSUME NEW rows PROVE One(rows) = None \/ One(rows) \in rows
  BY Zenon DEF One

LEMMA NoneIsNamed == ASSUME NEW r PROVE Named(r, None)
  BY Zenon DEF Named

--------------------------------------------------------------------------------
(* What a statement makes of the rows.                                     *)

\* Rows may go without harm.
LEMMA FewerRows ==
  ASSUME Shape, RowsKeyed, table # None, NEW gone, Keep(table.rows \ gone)
  PROVE  /\ table' \in [keys : KeySchemas, rows : SUBSET Item]
         /\ RowsKeyed' /\ Gone \subseteq gone
<1>1. table \in [keys : KeySchemas, rows : SUBSET Item]
  BY Zenon DEF Shape
<1>2. /\ table' \in [keys : KeySchemas, rows : SUBSET Item]
      /\ table'.keys = table.keys /\ table'.rows = table.rows \ gone
  BY <1>1, Zenon DEF Keep
<1> QED
  BY <1>1, <1>2, Zenon DEF RowsKeyed, Gone

\* An item may take the place of rows if those with its key are among them.
LEMMA RowReplaced ==
  ASSUME Shape, RowsKeyed, table # None, NEW gone, NEW it \in Item, HasKeys(it, table.keys),
         \A row \in table.rows : KeyOf(row, table.keys) = KeyOf(it, table.keys) => row \in gone,
         Keep((table.rows \ gone) \cup {it})
  PROVE  /\ table' \in [keys : KeySchemas, rows : SUBSET Item]
         /\ RowsKeyed' /\ Gone \subseteq gone
<1>1. table \in [keys : KeySchemas, rows : SUBSET Item]
  BY Zenon DEF Shape
<1>2. /\ table' \in [keys : KeySchemas, rows : SUBSET Item]
      /\ table'.keys = table.keys /\ table'.rows = (table.rows \ gone) \cup {it}
  BY <1>1, Zenon DEF Keep
<1>3. RowsKeyed'
  <2> SUFFICES ASSUME NEW row \in table'.rows, NEW other \in table'.rows
               PROVE  /\ HasKeys(row, table.keys)
                      /\ KeyOf(row, table.keys) = KeyOf(other, table.keys) => row = other
    BY <1>2, Zenon DEF RowsKeyed
  <2> QED
    BY <1>2, Zenon DEF RowsKeyed
<1> QED
  BY <1>1, <1>2, <1>3, Zenon DEF Gone

\* What is left when the table is unchanged or answers with nothing.
LEMMA NothingGone == ASSUME UNCHANGED table PROVE Gone = {}
  BY Zenon DEF Gone

--------------------------------------------------------------------------------
(* Carrying out a request.                                                 *)

\* What an execution leaves of the table, and what it touches.
Carried(c) ==
  /\ table' \in [keys : KeySchemas, rows : SUBSET Item] \cup {None} /\ RowsKeyed'
  /\ req[c].stmt = req[c].keys =>
       \A row \in Gone \cup {reply'.item} : Named(req[c], row)

LEMMA ExecuteCarried ==
  ASSUME IInv, NEW c \in Client, Execute(c)
  PROVE  Carried(c)
<1> DEFINE r == req[c]
           found == Selected(r)
<1>1. /\ r \in Plans /\ r.pc = "prepared" /\ HasKeys(r.item, r.keys)
      /\ r.item \in Item
      /\ Shape /\ RowsKeyed
  BY Zenon DEF IInv, Shape, Plans, PlanHasKeys, Execute
<1>2. ASSUME UNCHANGED table, reply'.item = None
      PROVE  Carried(c)
  BY <1>1, <1>2, NothingGone, NoneIsNamed DEF Shape, RowsKeyed, Carried
<1>3. ASSUME Accepts(r), Keep(table.rows \ found), reply'.item = One(found)
      PROVE  Carried(c)
  <2>1. table' \in [keys : KeySchemas, rows : SUBSET Item] /\ RowsKeyed' /\ Gone \subseteq found
    BY <1>1, <1>3, FewerRows, Zenon DEF Accepts
  <2>2. r.stmt = r.keys => \A row \in found : Named(r, row)
    BY <1>1, <1>3, SelectedIsNamed, Zenon
  <2> QED
    BY <2>1, <2>2, <1>3, OneOf, NoneIsNamed DEF Carried
<1>4. CASE Rejected(c)
  BY <1>2, <1>4, Zenon DEF Rejected, Answer
<1>5. CASE Accepts(r) /\ Get(c)
  <2>1. reply'.item = One(found) /\ UNCHANGED table
    BY <1>5, Zenon DEF Get, Answer
  <2>2. r.stmt = r.keys => \A row \in found : Named(r, row)
    BY <1>1, <1>5, SelectedIsNamed, Zenon
  <2> QED
    BY <1>1, <2>1, <2>2, OneOf, NoneIsNamed, NothingGone DEF Shape, RowsKeyed, Carried
<1>6. CASE Accepts(r) /\ Delete(c)
  BY <1>3, <1>6, Zenon DEF Delete, Answer
<1>7. CASE Accepts(r) /\ Put(c)
  <2> DEFINE it == r.item
             same == {row \in table.rows : KeyOf(row, table.keys) = KeyOf(it, table.keys)}
  <2>1. CASE ~HasKeys(it, table.keys) /\ Answer(c, "error", None) /\ UNCHANGED table
    BY <1>2, <2>1, Zenon DEF Answer
  <2>2. CASE /\ HasKeys(it, table.keys) /\ Keep((table.rows \ same) \cup {it})
             /\ Answer(c, "ok", One(found))
    <3>1. table' \in [keys : KeySchemas, rows : SUBSET Item] /\ RowsKeyed' /\ Gone \subseteq same
      <4>1. \A row \in table.rows : KeyOf(row, table.keys) = KeyOf(it, table.keys) => row \in same
        BY Zenon
      <4> HIDE DEF r, found, same
      <4> QED
        BY <1>1, <1>7, <2>2, <4>1, RowReplaced, Zenon DEF Accepts
    <3>2. r.stmt = r.keys => \A row \in found : Named(r, row)
      BY <1>1, <1>7, SelectedIsNamed, Zenon
    <3>3. r.stmt = r.keys => \A row \in same : Named(r, row)
      BY <1>1, <1>7, ReplacedIsNamed, Zenon
    <3>4. reply'.item = One(found)
      BY <2>2, Zenon DEF Answer
    <3> QED
      BY <3>1, <3>2, <3>3, <3>4, OneOf, NoneIsNamed DEF Carried
  <2> QED
    BY <1>7, <2>1, <2>2, Zenon DEF Put
<1>8. CASE Accepts(r) /\ DeleteIf(c)
  BY <1>2, <1>3, <1>8 DEF DeleteIf, Answer
<1>9. CASE Accepts(r) /\ PutIf(c)
  <2> DEFINE it == r.item
  <2>1. CASE Answer(c, "error", None) /\ UNCHANGED table
    BY <1>2, <2>1, Zenon DEF Answer
  <2>2. CASE /\ HasKeys(it, table.keys) /\ Keep((table.rows \ found) \cup {it})
             /\ Answer(c, "ok", One(found))
    <3>1. r.stmt = r.keys
      BY <1>1, <1>9, Zenon DEF IInv, OwnStatements, PutIf, Conditional
    <3>2. ASSUME NEW row \in table.rows, KeyOf(row, table.keys) = KeyOf(it, table.keys)
          PROVE  row \in found
      <4>1. \A i \in DOMAIN r.stmt : row[r.stmt[i].col] = it[r.stmt[i].col]
        BY <1>1, <1>9, <3>2, SameKeyAgrees
      <4> QED
        BY <3>1, <4>1, Zenon DEF Selected
    <3>3. table' \in [keys : KeySchemas, rows : SUBSET Item] /\ RowsKeyed' /\ Gone \subseteq found
      <4> HIDE DEF r, found
      <4> QED
        BY <1>1, <1>9, <2>2, <3>2, RowReplaced DEF Accepts
    <3>4. \A row \in found : Named(r, row)
      BY <1>1, <1>9, <3>1, SelectedIsNamed
    <3>5. reply'.item = One(found)
      BY <2>2, Zenon DEF Answer
    <3> QED
      BY <3>3, <3>4, <3>5, OneOf, NoneIsNamed DEF Carried
  <2> QED
    BY <1>9, <2>1, <2>2, Zenon DEF PutIf
<1> QED
  BY <1>4, <1>5, <1>6, <1>7, <1>8, <1>9 DEF Execute

\* The rest of an execution: the client is answered and idle again.
LEMMA ExecuteAnswers ==
  ASSUME NEW c \in Client, Execute(c)
  PROVE  /\ req' = [req EXCEPT ![c] = Idle] /\ reply'.by = c
         /\ UNCHANGED <<snap, pass, cache>>
<1>1. \E status, it : Answer(c, status, it)
  BY Zenon DEF Execute, Rejected, Get, Delete, Put, DeleteIf, PutIf
<1> QED
  BY <1>1 DEF Answer

--------------------------------------------------------------------------------
(* The steps.                                                              *)

LEMMA InitInv == Init => IInv
<1> SUFFICES ASSUME Init PROVE IInv
  BY Zenon
<1>1. Shape
  BY IdlePlan DEF Init, Shape
<1>2. PlanHasKeys /\ OwnStatements
  BY IdlePlan, Zenon DEF Init, PlanHasKeys, OwnStatements
<1>3. RowsKeyed
  BY DEF Init, RowsKeyed
<1> QED
  BY <1>1, <1>2, <1>3, Zenon DEF IInv

\* Tables come empty and go whole, and passes copy key schemas.
LEMMA CatalogStep ==
  ASSUME IInv,
         \/ \E ks \in KeySchemas : CreateTable(ks)
         \/ DeleteTable \/ Load \/ Publish
  PROVE  IInv' /\ reply' = NoReply /\ Gone = {}
<1> USE DEF IInv
<1>1. ASSUME NEW ks \in KeySchemas, CreateTable(ks)
      PROVE  IInv' /\ reply' = NoReply /\ Gone = {}
  BY <1>1, Zenon DEF CreateTable, Shape, PlanHasKeys, OwnStatements, RowsKeyed, Gone
<1>2. CASE DeleteTable
  BY <1>2, Zenon DEF DeleteTable, Shape, PlanHasKeys, OwnStatements, RowsKeyed, Gone
<1>3. Declared \in KeySchemas \cup {None}
  BY Zenon DEF Declared, Shape
<1>4. CASE Load
  BY <1>3, <1>4 DEF Load, Shape, PlanHasKeys, OwnStatements, RowsKeyed, Gone
<1>5. CASE Publish
  BY <1>5 DEF Publish, Shape, PlanHasKeys, OwnStatements, RowsKeyed, Gone
<1> QED
  BY <1>1, <1>2, <1>4, <1>5

LEMMA RestartStep ==
  ASSUME IInv, Restart
  PROVE  IInv' /\ reply' = NoReply /\ Gone = {}
<1>1. Declared \in KeySchemas \cup {None}
  BY Zenon DEF Declared, IInv, Shape
<1>2. Shape'
  BY <1>1, IdlePlan DEF Restart, IInv, Shape
<1>3. PlanHasKeys' /\ OwnStatements'
  BY IdlePlan, Zenon DEF Restart, PlanHasKeys, OwnStatements
<1> QED
  BY <1>2, <1>3 DEF Restart, IInv, RowsKeyed, Gone

LEMMA PlanStep ==
  ASSUME IInv, NEW c \in Client, NEW op \in Cached \cup Conditional, NEW it \in Items,
         Plan(c, op, it)
  PROVE  IInv' /\ reply' = NoReply /\ Gone = {}
<1> DEFINE r == [pc |-> "planned", op |-> op, keys |-> snap, item |-> it, stmt |-> <<>>]
<1>1. r \in Plans /\ HasKeys(r.item, r.keys) /\ r.keys \in KeySchemas /\ r.pc = "planned"
  BY SchemasAreSeqs, ItemsAssumption DEF Plan, IInv, Shape, Plans
<1>2. req' = [req EXCEPT ![c] = r] /\ UNCHANGED <<table, snap, pass, cache>> /\ reply' = NoReply
  BY Zenon DEF Plan
<1> HIDE DEF r
<1>3. Shape'
  BY <1>1, <1>2, Zenon DEF IInv, Shape
<1>4. PlanHasKeys' /\ OwnStatements'
  BY <1>1, <1>2 DEF IInv, Shape, PlanHasKeys, OwnStatements
<1> QED
  BY <1>2, <1>3, <1>4 DEF IInv, RowsKeyed, Gone

LEMMA PrepareStep ==
  ASSUME IInv, NEW c \in Client, Prepare(c)
  PROVE  IInv' /\ reply' = NoReply /\ Gone = {}
<1> DEFINE stmt == IF req[c].op \in Conditional \/ cache = None THEN req[c].keys ELSE cache
           r == [req[c] EXCEPT !.pc = "prepared", !.stmt = stmt]
<1>1. req[c] \in Plans /\ HasKeys(req[c].item, req[c].keys) /\ stmt \in Seq(KeyAttr)
  BY SchemasAreSeqs, Zenon DEF Prepare, IInv, Shape, Plans, PlanHasKeys
<1>2. /\ r \in Plans /\ r.keys = req[c].keys /\ r.item = req[c].item
      /\ r.op \in Conditional => r.stmt = r.keys
  BY <1>1, Zenon DEF Plans
<1>3. /\ req' = [req EXCEPT ![c] = r] /\ UNCHANGED <<table, snap, pass>> /\ reply' = NoReply
      /\ cache' = cache \/ (cache = None /\ cache' = req[c].keys)
  BY Zenon DEF Prepare, IInv, Shape
<1>4. req[c].keys \in KeySchemas
  BY Zenon DEF IInv, PlanHasKeys, Prepare
<1> HIDE DEF r
<1>5. Shape'
  BY <1>2, <1>3, <1>4 DEF IInv, Shape
<1>6. PlanHasKeys' /\ OwnStatements'
  BY <1>1, <1>2, <1>3, <1>4, Zenon DEF IInv, Shape, PlanHasKeys, OwnStatements
<1> QED
  BY <1>3, <1>5, <1>6 DEF IInv, RowsKeyed, Gone

LEMMA ExecuteStep ==
  ASSUME IInv, NEW c \in Client, Execute(c)
  PROVE  IInv'
<1>1. Carried(c) /\ req' = [req EXCEPT ![c] = Idle] /\ UNCHANGED <<snap, pass, cache>>
  BY ExecuteCarried, ExecuteAnswers
<1>2. Shape'
  BY <1>1, IdlePlan, Zenon DEF IInv, Shape, Carried
<1>3. PlanHasKeys' /\ OwnStatements'
  BY <1>1, IdlePlan DEF IInv, Shape, PlanHasKeys, OwnStatements
<1> QED
  BY <1>1, <1>2, <1>3 DEF IInv, Carried

LEMMA Stutter ==
  ASSUME IInv, UNCHANGED vars
  PROVE  IInv' /\ Gone = {}
<1>1. Shape' /\ RowsKeyed'
  BY DEF vars, IInv, Shape, RowsKeyed
<1>2. PlanHasKeys' /\ OwnStatements'
  BY Zenon DEF vars, IInv, PlanHasKeys, OwnStatements
<1> QED
  BY <1>1, <1>2 DEF IInv, vars, Gone

LEMMA NextInv == IInv /\ [Next]_vars => IInv'
<1> SUFFICES ASSUME IInv, [Next]_vars PROVE IInv'
  BY Zenon
<1>1. CASE (\E ks \in KeySchemas : CreateTable(ks)) \/ DeleteTable \/ Load \/ Publish
  BY <1>1, CatalogStep, Zenon
<1>2. CASE Restart
  BY <1>2, RestartStep, Zenon
<1>3. ASSUME NEW c \in Client, NEW op \in Cached \cup Conditional, NEW it \in Items, Plan(c, op, it)
      PROVE  IInv'
  BY <1>3, PlanStep, Zenon
<1>4. ASSUME NEW c \in Client, Prepare(c) \/ Execute(c)
      PROVE  IInv'
  BY <1>4, PrepareStep, ExecuteStep, Zenon
<1>5. CASE UNCHANGED vars
  BY <1>5, Stutter, Zenon
<1> QED
  BY <1>1, <1>2, <1>3, <1>4, <1>5, Zenon DEF Next

\* The invariant holds in every reachable state.
LEMMA Inductive == Spec => []IInv
  BY InitInv, NextInv, PTL DEF Spec

--------------------------------------------------------------------------------
(***************************************************************************)
(* A table never holds an item without its keys, or two with the same,     *)
(* however tables, snapshots, cached statements and requests are out of    *)
(* step (the unique index and the statements of put_delete.rs).            *)
(***************************************************************************)
THEOREM TablesStayKeyed == Spec => []RowsKeyed
  BY Inductive, PTL DEF IInv

(***************************************************************************)
(* A request that runs the statements of its own shape returns, overwrites *)
(* and deletes only items with the key it names, whatever has become of    *)
(* the table it was planned for.                                           *)
(***************************************************************************)
THEOREM OthersAreSpared == Spec => OnlyNamed
<1> DEFINE A == \A c \in Client : reply'.by = c /\ req[c].stmt = req[c].keys =>
                  \A row \in Gone \cup {reply'.item} : Named(req[c], row)
<1>1. ASSUME reply' = NoReply, Gone = {} PROVE A
  BY <1>1, NoneIsNamed, Zenon DEF NoReply
<1>2. IInv /\ [Next]_vars => [A]_vars
  <2> SUFFICES ASSUME IInv, Next PROVE A
    BY Zenon
  <2>1. CASE (\E ks \in KeySchemas : CreateTable(ks)) \/ DeleteTable \/ Load \/ Publish
    BY <1>1, <2>1, CatalogStep, Zenon
  <2>2. CASE Restart
    BY <1>1, <2>2, RestartStep, Zenon
  <2>3. ASSUME NEW c \in Client, NEW op \in Cached \cup Conditional, NEW it \in Items,
               Plan(c, op, it)
        PROVE  A
    BY <1>1, <2>3, PlanStep, Zenon
  <2>4. ASSUME NEW c \in Client, Prepare(c) PROVE A
    BY <1>1, <2>4, PrepareStep, Zenon
  <2>5. ASSUME NEW c \in Client, Execute(c) PROVE A
    BY <2>5, ExecuteCarried, ExecuteAnswers DEF Carried
  <2> QED
    BY <2>1, <2>2, <2>3, <2>4, <2>5, Zenon DEF Next
<1> QED
  BY <1>2, Inductive, PTL DEF OnlyNamed, Spec
================================================================================
