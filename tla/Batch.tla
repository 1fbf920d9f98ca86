--------------------------------- MODULE Batch ---------------------------------
(***************************************************************************)
(* BatchGetItem and BatchWriteItem: the handlers (crates/rekt-server/src/  *)
(* lib.rs), their translation (crates/rekt-translator/src/translate.rs,    *)
(* keys.rs) and the backend's batch_get_raw and batch_write_raw, retried   *)
(* by with_retry (crates/rekt-storage-libpq/src/).                         *)
(*                                                                         *)
(* A batch is worked off table by table.  A table's part of a write is one *)
(* READ COMMITTED transaction: a multi-row upsert that locks its rows in   *)
(* the order of the request, then one DELETE.  Its rows are visible when   *)
(* it commits.                                                             *)
(***************************************************************************)
EXTENDS Integers, Sequences, FiniteSets

CONSTANTS
  Client,        \* connections with a request each
  Name,          \* table names a request may use
  Table,         \* those of the catalog snapshot that are serveable
  Key,           \* key values as requests spell them
  Col,           \* the values of the key column
  Column,        \* key value -> column value: "1" and "1.0" are one numeric
  NoKey,         \* a PutRequest or DeleteRequest that is not there
  Writes, Gets,  \* the batches clients send
  InitialRows,   \* the tables there may be at the start
  NoRow,         \* there is no row
  Unwritten,     \* a transaction has not written the row
  MaxOps,        \* batch_write_max_requests, batch_get_max_keys
  MaxAttempts,   \* RetryPolicy.max_attempts
  MaxRequests,   \* bound: requests
  MaxFaults      \* bound: failed statements, lost replies and timeouts

ASSUME ParamAssumption ==
  /\ Table \subseteq Name /\ Column \in [Key -> Col] /\ NoKey \notin Key
  /\ \A batch \in Writes \cup Gets : \A t \in DOMAIN batch :
       DOMAIN batch[t] = 1..Len(batch[t])
  /\ InitialRows \subseteq [Table -> [Col -> {0, NoRow}]]
  /\ MaxOps \in Nat /\ MaxAttempts \in Nat \ {0}
  /\ MaxRequests \in Nat /\ MaxFaults \in Nat
  /\ NoRow \notin 0..MaxRequests /\ Unwritten \notin 0..MaxRequests \cup {NoRow}

VARIABLES
  rows,       \* per table and column value: the committed row
  req,        \* per client: the request in progress
  orphans,    \* transactions whose handler was dropped
  reply,      \* the answer the last step gave, if it gave one
  requests, faults

vars == <<rows, req, orphans, reply, requests, faults>>

(***************************************************************************)
(* A row is the number of the request that put it; 0 was there before.     *)
(* A batch maps each of its tables to a sequence: of WriteRequests, or of  *)
(* the keys to get.                                                        *)
(***************************************************************************)
Id == 0..MaxRequests
Row == Id \cup {NoRow}
Put(k) == [put |-> k, delete |-> NoKey]
Delete(k) == [put |-> NoKey, delete |-> k]
Get(k) == [get |-> k]
IsPut(op) == op.put # NoKey
IsDelete(op) == op.delete # NoKey

(***************************************************************************)
(* translate_batch_write_item and translate_batch_get_item: at least one   *)
(* table and one entry for each, not too many in all, each entry a Put or  *)
(* a Delete with a well-formed key, and no key twice.                      *)
(***************************************************************************)
Entries(batch) == {e \in (DOMAIN batch) \X (1..MaxOps + 1) : e[2] \in DOMAIN batch[e[1]]}
KeyOf(kind, op) ==
  IF kind = "get" THEN op.get ELSE IF IsPut(op) THEN op.put ELSE op.delete

GetKeyed(op) == KeyOf("get", op) \in Key
WriteKeyed(op) == IsPut(op) # IsDelete(op) /\ KeyOf("write", op) \in Key

Translates(kind, batch) ==
  /\ DOMAIN batch # {} /\ Cardinality(Entries(batch)) <= MaxOps
  /\ \A t \in DOMAIN batch :
       /\ batch[t] # <<>>
       /\ \A i \in DOMAIN batch[t] : IF kind = "get" THEN GetKeyed(batch[t][i])
                                           ELSE WriteKeyed(batch[t][i])
       /\ \A i, j \in DOMAIN batch[t] :
            KeyOf(kind, batch[t][i]) = KeyOf(kind, batch[t][j]) => i = j

(***************************************************************************)
(* A request: its batch, the tables still to do and the one in progress;   *)
(* the entry the next Put is looked for from, the rows its DELETE has yet  *)
(* to lock, what the transaction has written; failed attempts; what a get  *)
(* has read.  History: the rows others have changed since it came.         *)
(***************************************************************************)
Clean == [v \in Col |-> Unwritten]
Idle == [pc |-> "idle", kind |-> "get", id |-> 0, batch |-> <<>>, todo |-> {},
         touched |-> {}, items |-> {}, table |-> "none", attempt |-> 0, at |-> 1,
         targets |-> {}, writes |-> Clean]
Active(c) == req[c].pc # "idle"
InTx(c) == req[c].pc \in {"puts", "deletes"}
Written(w) == {v \in Col : w[v] # Unwritten}
Ops(r) == r.batch[r.table]
PutsDone(r) == \A i \in DOMAIN Ops(r) : r.at <= i => ~IsPut(Ops(r)[i])
NextPuts(r) ==
  {i \in DOMAIN Ops(r) : /\ r.at <= i /\ IsPut(Ops(r)[i])
                         /\ \A j \in r.at..i - 1 : ~IsPut(Ops(r)[j])}
Deleted(r) == {Column[Ops(r)[i].delete] : i \in {j \in DOMAIN Ops(r) : IsDelete(Ops(r)[j])}}

NoReply == [is |-> "none", req |-> Idle]

Init ==
  /\ rows \in InitialRows
  /\ req = [c \in Client |-> Idle]
  /\ orphans = {}
  /\ reply = NoReply
  /\ requests = 0 /\ faults = 0

\* R holds the requests as the step finds them, r is c's own.
Goto(R, c, r) == req' = [R EXCEPT ![c] = r] /\ reply' = NoReply
Answer(R, c, r, is) == req' = [R EXCEPT ![c] = Idle] /\ reply' = [is |-> is, req |-> r]

MayFail == faults < MaxFaults /\ faults' = faults + 1

--------------------------------------------------------------------------------
(***************************************************************************)
(* The handler up to its first await: gate_referenced_tables, then the     *)
(* translation.  Answers differ by exception class only.                   *)
(***************************************************************************)
Receive(c, kind, batch) ==
  LET r == [Idle EXCEPT !.pc = "next", !.kind = kind, !.id = requests + 1,
                        !.batch = batch, !.todo = DOMAIN batch] IN
  /\ ~Active(c) /\ requests < MaxRequests
  /\ requests' = requests + 1
  /\ \/ ~(DOMAIN batch \subseteq Table) /\ Answer(req, c, Idle, "not_found")
     \/ /\ DOMAIN batch \subseteq Table /\ ~Translates(kind, batch)
        /\ Answer(req, c, Idle, "invalid")
     \/ /\ DOMAIN batch \subseteq Table /\ Translates(kind, batch)
        /\ Goto(req, c, r)
  /\ UNCHANGED <<rows, orphans, faults>>

BatchWriteItem(c) == \E batch \in Writes : Receive(c, "write", batch)
BatchGetItem(c) == \E batch \in Gets : Receive(c, "get", batch)

\* The next table, in the order of a HashMap; batch_write_raw's BEGIN.
Started(r, t, n) ==
  [r EXCEPT !.pc = IF r.kind = "get" THEN "read" ELSE "puts", !.table = t,
            !.attempt = n, !.at = 1, !.targets = {}, !.writes = Clean]

NextTable(c, t) ==
  /\ req[c].pc = "next" /\ t \in req[c].todo
  /\ Goto(req, c, Started([req[c] EXCEPT !.todo = @ \ {t}], t, 0))
  /\ UNCHANGED <<rows, orphans, requests, faults>>

\* A table is done: the next one, or, after the last, the answer.
Advance(R, c, r) ==
  \/ r.todo # {} /\ Goto(R, c, [r EXCEPT !.pc = "next"])
  \/ r.todo = {} /\ Answer(R, c, r, "ok")

\* Mutant of FailTransient: the table that failed is left out.
FailSkips(R, c) ==
  \/ /\ req[c].attempt + 1 < MaxAttempts
     /\ Goto(R, c, Started(req[c], req[c].table, req[c].attempt + 1))
  \/ /\ req[c].attempt + 1 >= MaxAttempts
     /\ Advance(R, c, req[c])

\* Mutant of FailTransient: attempts are not counted.
FailUncounted(R, c) == Goto(R, c, Started(req[c], req[c].table, req[c].attempt))

(***************************************************************************)
(* An attempt fails.  with_retry runs the table's part again after a       *)
(* transient error until max_attempts have failed; the `?` of the loop     *)
(* over the tables then ends the request.                                  *)
(***************************************************************************)
FailTransient(R, c) ==
  \/ /\ req[c].attempt + 1 < MaxAttempts
     /\ Goto(R, c, Started(req[c], req[c].table, req[c].attempt + 1))
  \/ /\ req[c].attempt + 1 >= MaxAttempts
     /\ Answer(R, c, req[c], "error")

--------------------------------------------------------------------------------
(***************************************************************************)
(* batch_get_raw: one SELECT, of the rows that are there.                  *)
(***************************************************************************)
Read(c) ==
  LET r == req[c]
      asked == {Column[Ops(r)[i].get] : i \in DOMAIN Ops(r)}
      found == {[table |-> r.table, col |-> v, row |-> rows[r.table][v]] :
                  v \in {w \in asked : rows[r.table][w] # NoRow}} IN
  /\ r.pc = "read"
  /\ Advance(req, c, [r EXCEPT !.items = @ \cup found])
  /\ UNCHANGED <<rows, orphans, requests, faults>>

(***************************************************************************)
(* batch_write_raw.  A row that another transaction has written and not    *)
(* committed is waited for.                                                *)
(***************************************************************************)
HeldBy(d, t, v) == InTx(d) /\ req[d].table = t /\ v \in Written(req[d].writes)
HeldByOrphan(t, v) == \E o \in orphans : o.req.table = t /\ v \in o.holds
Free(c, t, v) ==
  ~HeldByOrphan(t, v) /\ \A d \in Client \ {c} : ~HeldBy(d, t, v)

Write(r, v, row) == [r EXCEPT !.writes[v] = row]

\* The next row of the upsert.  PostgreSQL refuses to change a row twice in it.
PutRow(c) ==
  /\ req[c].pc = "puts"
  /\ \E i \in NextPuts(req[c]) :
       LET v == Column[Ops(req[c])[i].put] IN
       /\ Free(c, req[c].table, v)
       /\ \/ /\ v \notin Written(req[c].writes)
             /\ Goto(req, c, [Write(req[c], v, req[c].id) EXCEPT !.at = i + 1])
          \/ /\ v \in Written(req[c].writes)
             /\ Answer(req, c, req[c], "error")
  /\ UNCHANGED <<rows, orphans, requests, faults>>

\* Mutant of StartDelete: the upsert is committed before the DELETE.
StartDeleteAfterCommit(c) ==
  LET r == req[c]
      seen == {v \in Col : rows'[r.table][v] # NoRow} IN
  /\ r.pc = "puts" /\ PutsDone(r)
  /\ rows' = [rows EXCEPT ![r.table] =
                [v \in Col |-> IF r.writes[v] = Unwritten THEN @[v] ELSE r.writes[v]]]
  /\ Goto(req, c, [r EXCEPT !.pc = "deletes", !.targets = Deleted(r) \cap seen,
                            !.writes = Clean])
  /\ UNCHANGED <<orphans, requests, faults>>

\* The DELETE takes its snapshot: committed rows, and those just put.
StartDelete(c) ==
  LET seen == {v \in Col : rows[req[c].table][v] # NoRow} \cup Written(req[c].writes) IN
  /\ req[c].pc = "puts" /\ PutsDone(req[c])
  /\ Goto(req, c, [req[c] EXCEPT !.pc = "deletes", !.targets = Deleted(req[c]) \cap seen])
  /\ UNCHANGED <<rows, orphans, requests, faults>>

DeleteRow(c, v) ==
  /\ req[c].pc = "deletes" /\ v \in req[c].targets /\ Free(c, req[c].table, v)
  /\ Goto(req, c, [Write(req[c], v, NoRow) EXCEPT !.targets = @ \ {v}])
  /\ UNCHANGED <<rows, orphans, requests, faults>>

\* What is committed, and what the requests in progress see of it: a row that
\* was deleted is no longer there for their DELETE.
After(t, w) ==
  [rows EXCEPT ![t] = [v \in Col |-> IF w[v] = Unwritten THEN @[v] ELSE w[v]]]

Touched(r, t, w) == [r EXCEPT !.touched = @ \cup {<<t, v>> : v \in Written(w)}]

Changed(others, t, w) ==
  [d \in Client |->
     IF ~Active(d) \/ d \notin others THEN req[d]
     ELSE IF req[d].pc = "deletes" /\ req[d].table = t
          THEN [Touched(req[d], t, w) EXCEPT !.targets = {v \in @ : w[v] # NoRow}]
          ELSE Touched(req[d], t, w)]

Outlived(O, t, w) == {[o EXCEPT !.req = Touched(o.req, t, w)] : o \in O}

\* COMMIT; the connection may break before its reply.
Commit(c) ==
  LET r == req[c]
      R == Changed(Client \ {c}, r.table, r.writes) IN
  /\ r.pc = "deletes" /\ r.targets = {}
  /\ rows' = After(r.table, r.writes)
  /\ \/ Advance(R, c, r) /\ UNCHANGED faults
     \/ MayFail /\ FailTransient(R, c)
  /\ orphans' = Outlived(orphans, r.table, r.writes)
  /\ UNCHANGED requests

(***************************************************************************)
(* PostgreSQL fails one of the transactions that wait for each other.      *)
(***************************************************************************)
Wants(c) ==
  CASE req[c].pc = "puts" -> {Column[Ops(req[c])[i].put] : i \in NextPuts(req[c])}
    [] req[c].pc = "deletes" -> req[c].targets
    [] OTHER -> {}
WaitsFor(c, d) == d # c /\ \E v \in Wants(c) : HeldBy(d, req[c].table, v)
InCycle(c) == \E S \in SUBSET Client : c \in S /\ \A d \in S : \E e \in S : WaitsFor(d, e)

Deadlock(c) ==
  /\ InTx(c) /\ InCycle(c)
  /\ FailTransient(req, c)
  /\ UNCHANGED <<rows, orphans, requests, faults>>

(***************************************************************************)
(* A statement fails: with a transient error, or with one that ends the    *)
(* request (the table was dropped).  The transaction rolls back.           *)
(***************************************************************************)
Fail(c) ==
  /\ req[c].pc \in {"puts", "deletes", "read"} /\ MayFail
  /\ FailTransient(req, c) \/ Answer(req, c, req[c], "error")
  /\ UNCHANGED <<rows, orphans, requests>>

\* Mutant of Timeout: what was not finished is done afresh, without the rows' locks.
TimeoutRedone(c) ==
  LET r == req[c] IN
  /\ Active(c) /\ MayFail
  /\ Answer(req, c, r, "error")
  /\ \/ ~InTx(c) /\ UNCHANGED orphans
     \/ /\ InTx(c)
        /\ orphans' = orphans \cup {[req |-> r, holds |-> {}, lands |-> TRUE, last |-> requests]}
  /\ UNCHANGED <<rows, requests>>

(***************************************************************************)
(* The request timeout drops the handler.  PostgreSQL still has the        *)
(* transaction, and the rows it wrote, until it gets to the ROLLBACK, or   *)
(* to a COMMIT that was already sent.                                      *)
(***************************************************************************)
Timeout(c) ==
  LET r == req[c]
      orphan(lands) == [req |-> r, holds |-> Written(r.writes), lands |-> lands,
                        last |-> requests] IN
  /\ Active(c) /\ MayFail
  /\ Answer(req, c, r, "error")
  /\ \/ /\ ~InTx(c)
        /\ UNCHANGED orphans
     \/ /\ InTx(c)
        /\ orphans' = orphans \cup {orphan(FALSE)}
     \/ /\ r.pc = "deletes" /\ r.targets = {}
        /\ orphans' = orphans \cup {orphan(TRUE)}
  /\ UNCHANGED <<rows, requests>>

EndOrphan(o) ==
  /\ o \in orphans
  /\ \/ /\ o.lands
        /\ rows' = After(o.req.table, o.req.writes)
        /\ req' = Changed(Client, o.req.table, o.req.writes)
        /\ orphans' = Outlived(orphans \ {o}, o.req.table, o.req.writes)
     \/ /\ ~o.lands
        /\ orphans' = orphans \ {o}
        /\ UNCHANGED <<rows, req>>
  /\ reply' = NoReply
  /\ UNCHANGED <<requests, faults>>

--------------------------------------------------------------------------------
Work(c) ==
  \/ \E t \in Table : NextTable(c, t)
  \/ Read(c) \/ PutRow(c) \/ StartDelete(c) \/ Commit(c) \/ Deadlock(c)
  \/ \E v \in Col : DeleteRow(c, v)

Next ==
  \/ \E c \in Client : \/ BatchWriteItem(c) \/ BatchGetItem(c)
                       \/ Work(c) \/ Fail(c) \/ Timeout(c)
  \/ \E o \in orphans : EndOrphan(o)

Spec == Init /\ [][Next]_vars

\* rektifier polls every request, PostgreSQL runs every statement, wakes the
\* waiters of a row and looks for deadlocks.  Requests are finitely many, so weak
\* fairness is enough.
FairSpec ==
  /\ Spec
  /\ \A c \in Client : WF_vars(Work(c))
  /\ WF_vars(\E o \in orphans : EndOrphan(o))

--------------------------------------------------------------------------------
\* The types.  In particular no two transactions have written the same row.
Exclusive ==
  \A t \in Table, v \in Col :
    /\ Cardinality({d \in Client : HeldBy(d, t, v)}) <= 1
    /\ \A d \in Client : HeldBy(d, t, v) => ~HeldByOrphan(t, v)

TypeOK ==
  /\ rows \in [Table -> [Col -> Row]]
  /\ \A c \in Client : Active(c) =>
       /\ req[c].pc \in {"next", "puts", "deletes", "read"}
       /\ req[c].kind \in {"write", "get"} /\ req[c].id \in Id
       /\ req[c].todo \subseteq Table /\ req[c].touched \subseteq Table \X Col
       /\ req[c].pc # "next" =>
            /\ req[c].table \in Table \ req[c].todo /\ req[c].attempt \in 0..MaxAttempts - 1
            /\ req[c].writes \in [Col -> Row \cup {Unwritten}]
            /\ req[c].targets \subseteq Col
            /\ req[c].at \in 1..Len(Ops(req[c])) + 1
  /\ Exclusive
  /\ reply.is \in {"none", "ok", "error", "invalid", "not_found"}
  /\ requests \in 0..MaxRequests /\ faults \in 0..MaxFaults

--------------------------------------------------------------------------------
\* The keys of the batch name different items.
DistinctItems(r) ==
  \A t \in DOMAIN r.batch : \A i, j \in DOMAIN r.batch[t] :
    Column[KeyOf(r.kind, r.batch[t][i])] = Column[KeyOf(r.kind, r.batch[t][j])] => i = j

\* What an entry of a write leaves at its key.
Leaves(r, op) == IF IsPut(op) THEN r.id ELSE NoRow

(***************************************************************************)
(* An answered batch can be relied on: at every key that nobody else has   *)
(* changed since the request came, a write left what it was asked to, in   *)
(* every table and after any number of retries, and a get returned the row *)
(* that is there, or none if there is none.                                *)
(***************************************************************************)
AnswerIsCurrent ==
  reply.is = "ok" /\ DistinctItems(reply.req) =>
    LET r == reply.req IN
    \A t \in DOMAIN r.batch : \A i \in DOMAIN r.batch[t] :
      LET v == Column[KeyOf(r.kind, r.batch[t][i])]
          got == {item.row : item \in {x \in r.items : x.table = t /\ x.col = v}}
      IN  \/ <<t, v>> \in r.touched
          \/ r.kind = "write" /\ rows[t][v] = Leaves(r, r.batch[t][i])
          \/ r.kind = "get" /\ got = {rows[t][v]} \ {NoRow}

(***************************************************************************)
(* Failure never splits a table: a step that changes a table changes it to *)
(* what one request asks of it, at all of its keys and at no other, save   *)
(* where a DELETE came too early for a row another request then inserted.  *)
(***************************************************************************)
Whole(r) ==
  /\ \A i \in DOMAIN r.batch[r.table] :
       LET op == r.batch[r.table][i]
           v == Column[KeyOf("write", op)]
       IN  \/ rows'[r.table][v] = Leaves(r, op)
           \/ IsDelete(op) /\ <<r.table, v>> \in r.touched
  /\ \A v \in Col :
       rows'[r.table][v] # rows[r.table][v] =>
         \E i \in DOMAIN r.batch[r.table] : Column[KeyOf("write", r.batch[r.table][i])] = v

TablesWhole ==
  [][\A t \in Table : rows'[t] # rows[t] =>
       \E r \in {req[c] : c \in {d \in Client : InTx(d)}} \cup {o.req : o \in orphans} :
         r.table = t /\ (DistinctItems(r) => Whole(r))]_vars

(***************************************************************************)
(* A COMMIT that reaches PostgreSQL after its request has timed out does   *)
(* not undo what a request that came later has done.                       *)
(***************************************************************************)
LateCommitIsOlder ==
  [][\A o \in orphans :
       o.lands /\ (\A other \in orphans' : other.req.id # o.req.id) =>
         \A v \in Written(o.req.writes) : rows[o.req.table][v] \in 0..o.last \cup {NoRow}]_vars

(***************************************************************************)
(* Every batch ends, whatever rows it waits for, and so does every         *)
(* transaction that was left behind.                                       *)
(***************************************************************************)
EveryBatchEnds == []<>(orphans = {} /\ \A c \in Client : ~Active(c))

================================================================================
