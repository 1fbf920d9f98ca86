------------------------------ MODULE Transact -------------------------------
(***************************************************************************)
(* TransactWriteItems and TransactGetItems                                 *)
(* (crates/rekt-storage-libpq/src/transact_write.rs, transact_get.rs and   *)
(* the *_inside_tx helpers of put_delete.rs and update.rs): the items of a *)
(* request are carried out in order inside one REPEATABLE READ             *)
(* transaction, beside other transactions and single-item writes.          *)
(*                                                                         *)
(* SELECT ... FOR UPDATE and the write that follows it in one item are one *)
(* step: what the select returns is fixed by the snapshot, and a row it    *)
(* found stays locked.                                                     *)
(***************************************************************************)
EXTENDS Integers, Sequences

CONSTANTS
  Client,       \* connections with a request each
  Key,          \* items
  NoRow,        \* the item does not exist
  NoClient,     \* nobody holds the row
  Unwritten,    \* the transaction has not written the item
  Writes,       \* the TransactWriteItems requests: sequences of Items
  Gets,         \* the TransactGetItems requests: sequences of keys
  Singles,      \* the rows single-item writes leave: 0 is a put, NoRow a delete
  InitialDb,    \* the databases to start from
  MaxAttempts,  \* RetryPolicy.max_attempts
  MaxRequests,  \* bound: transactions
  MaxSingles,   \* bound: single-item writes
  MaxFaults,    \* bound: statements that fail or whose reply is lost
  MaxEvents     \* bound: single-item writes and failures together

(***************************************************************************)
(* A row counts the updates since it was put.                              *)
(***************************************************************************)
Row == 0..MaxRequests \cup {NoRow}
Kind == {"put", "delete", "check", "update"}
Items == [kind : Kind, key : Key, cond : {"none", "absent", "exists"}]

\* No two items of a request have one target; a check has a condition.
Valid(ops) ==
  /\ \A i, j \in DOMAIN ops : ops[i].key = ops[j].key => i = j
  /\ \A i \in DOMAIN ops : ops[i].kind = "check" => ops[i].cond # "none"

ASSUME ParamAssumption ==
  /\ NoClient \notin Client /\ NoRow \notin Nat /\ Unwritten \notin Nat \cup {NoRow}
  /\ \A ops \in Writes : ops \in Seq(Items) /\ ops # <<>> /\ Valid(ops)
  /\ \A keys \in Gets : keys \in Seq(Key) /\ keys # <<>>
  /\ Singles \subseteq {0, NoRow}
  /\ InitialDb \subseteq [Key -> Row]
  /\ MaxAttempts \in Nat \ {0} /\ MaxRequests \in Nat
  /\ MaxSingles \in Nat /\ MaxFaults \in Nat /\ MaxEvents \in Nat

VARIABLES
  db,        \* the committed rows
  lock,      \* per key: who has locked the row or written it and not committed
  tx,        \* per client: its transaction
  reply,     \* the answer the last step delivered, if it delivered one
  requests, singles, faults

vars == <<db, lock, tx, reply, requests, singles, faults>>

(***************************************************************************)
(* A transaction: the items of a write or the keys of a get, the next of   *)
(* them, the snapshot, the keys others have committed since, its own       *)
(* writes, the rows a get has read, failed attempts; and, as history, the  *)
(* databases there were since a get began.                                 *)
(***************************************************************************)
Idle == [pc |-> "idle", ops |-> <<>>, keys |-> <<>>, i |-> 1,
         snap |-> [k \in Key |-> NoRow], stale |-> {},
         writes |-> [k \in Key |-> Unwritten], got |-> <<>>, attempt |-> 0, past |-> {}]
Ops(c) == tx[c].ops
Done(c) == tx[c].i > Len(Ops(c)) + Len(tx[c].keys)
Written(c) == {k \in Key : tx[c].writes[k] # Unwritten}

Code == {"None", "ConditionalCheckFailed", "TransactionConflict", "InternalServerError"}
Ok == [status |-> "ok", at |-> 0, code |-> "None"]
Error == [status |-> "error", at |-> 0, code |-> "None"]
NoReply == [by |-> NoClient, tx |-> Idle, answer |-> Error]

Holds(cond, r) == (cond = "absent" => r = NoRow) /\ (cond = "exists" => r # NoRow)

\* What the item makes of row r.
Apply(kind, r) ==
  CASE kind = "put" -> 0
    [] kind = "delete" -> NoRow
    [] kind = "check" -> r
    [] kind = "update" -> IF r = NoRow THEN 1 ELSE r + 1

Init ==
  /\ db \in InitialDb
  /\ lock = [k \in Key |-> NoClient]
  /\ tx = [c \in Client |-> Idle]
  /\ reply = NoReply
  /\ requests = 0 /\ singles = 0 /\ faults = 0

--------------------------------------------------------------------------------
\* BEGIN ISOLATION LEVEL REPEATABLE READ: the first statement takes the snapshot.
Begun(ops, keys, n) ==
  [Idle EXCEPT !.pc = "running", !.ops = ops, !.keys = keys, !.attempt = n, !.snap = db,
               !.past = IF keys = <<>> THEN {} ELSE {db}]

TransactWriteItems(c) ==
  /\ tx[c].pc = "idle" /\ requests < MaxRequests
  /\ requests' = requests + 1
  /\ \E ops \in Writes : tx' = [tx EXCEPT ![c] = Begun(ops, <<>>, 0)]
  /\ reply' = NoReply
  /\ UNCHANGED <<db, lock, singles, faults>>

TransactGetItems(c) ==
  /\ tx[c].pc = "idle" /\ requests < MaxRequests
  /\ requests' = requests + 1
  /\ \E keys \in Gets : tx' = [tx EXCEPT ![c] = Begun(<<>>, keys, 0)]
  /\ reply' = NoReply
  /\ UNCHANGED <<db, lock, singles, faults>>

\* The transactions in progress once keys K of the database have become new.
Changed(K, new) ==
  [d \in Client |->
     IF tx[d].pc # "running" THEN tx[d]
     ELSE [tx[d] EXCEPT !.stale = @ \cup K, !.past = IF @ = {} THEN {} ELSE @ \cup {new}]]

MayFail == faults < MaxFaults /\ faults + singles < MaxEvents
Released(c) == [k \in Key |-> IF lock[k] = c THEN NoClient ELSE lock[k]]
Deliver(c, t, answer) ==
  /\ tx' = [t EXCEPT ![c] = Idle]
  /\ reply' = [by |-> c, tx |-> t[c], answer |-> answer]

--------------------------------------------------------------------------------
(***************************************************************************)
(* Rows as a statement of c meets them.                                    *)
(***************************************************************************)
Target(c) == Ops(c)[tx[c].i]
Visible(c, k) == tx[c].snap[k] # NoRow

\* Whether the item starts with SELECT ... FOR UPDATE; of the others, put is
\* INSERT ... ON CONFLICT DO UPDATE and delete is DELETE.
Selects(op) == op.cond # "none" \/ op.kind \in {"check", "update"}

\* Another transaction has written k and not committed.
WrittenByOther(c, k) == \E d \in Client \ {c} : k \in Written(d)
LockedByOther(c, k) == lock[k] \notin {c, NoClient}

\* The item inserts: its row is not in the snapshot and its condition holds of that.
Inserts(c, op) ==
  /\ Selects(op) /\ op.kind \in {"put", "update"}
  /\ ~Visible(c, op.key) /\ Holds(op.cond, NoRow)

(***************************************************************************)
(* What the item has to wait for: an upsert for any holder of the row; an  *)
(* insert with ON CONFLICT DO NOTHING for one that has written it; a       *)
(* select or delete of a visible row for its holder, unless the row has    *)
(* changed since the snapshot.                                             *)
(***************************************************************************)
Waits(c, op) ==
  LET k == op.key
  IN  \/ op.kind = "put" /\ ~Selects(op) /\ LockedByOther(c, k)
      \/ Inserts(c, op) /\ WrittenByOther(c, k)
      \/ /\ Selects(op) \/ op.kind = "delete"
         /\ Visible(c, k) /\ k \notin tx[c].stale /\ LockedByOther(c, k)

\* Mutant of Serialization: READ COMMITTED.
NoSerialization(c, op) == FALSE

(***************************************************************************)
(* SQLSTATE 40001: the visible row has changed; or the statement meets a   *)
(* live row that the snapshot does not have in that version.               *)
(***************************************************************************)
Serialization(c, op) ==
  LET k == op.key
  IN  \/ Visible(c, k) /\ k \in tx[c].stale /\ (Selects(op) \/ op.kind = "delete")
      \/ Inserts(c, op) /\ db[k] # NoRow
      \/ op.kind = "put" /\ ~Selects(op) /\ k \in tx[c].stale /\ db[k] # NoRow

\* The row an item without condition replaces is not looked at.
Refuses(c, op) == Selects(op) /\ ~Holds(op.cond, tx[c].snap[op.key])

--------------------------------------------------------------------------------
\* Mutant of Cancel: the transaction is left open.
CancelKeepsLocks(c, code) ==
  /\ Deliver(c, tx, [status |-> "cancelled", at |-> tx[c].i, code |-> code])
  /\ UNCHANGED <<db, lock, requests, singles>>

\* Rollback, and TransactionCanceledException whose slot for this item says code.
Cancel(c, code) ==
  /\ Deliver(c, tx, [status |-> "cancelled", at |-> tx[c].i, code |-> code])
  /\ lock' = Released(c)
  /\ UNCHANGED <<db, requests, singles>>

Running(c) == tx[c].pc = "running" /\ ~Done(c)
Unblocked(c) == Running(c) /\ tx[c].keys = <<>> /\ ~Waits(c, Target(c))

\* Mutant of Conflict: a serialization failure is reported as a false condition.
ConflictAsCondition(c) ==
  /\ Unblocked(c) /\ Serialization(c, Target(c))
  /\ Cancel(c, "ConditionalCheckFailed") /\ UNCHANGED faults

\* classify_for_cancel: 40001 is the client's to retry.
Conflict(c) ==
  /\ Unblocked(c) /\ Serialization(c, Target(c))
  /\ Cancel(c, "TransactionConflict") /\ UNCHANGED faults

\* The condition is false of the row in the snapshot.
Refuse(c) ==
  /\ Unblocked(c) /\ ~Serialization(c, Target(c)) /\ Refuses(c, Target(c))
  /\ Cancel(c, "ConditionalCheckFailed") /\ UNCHANGED faults

\* The item is carried out: it locks a row it finds, and one it writes.
Perform(c) ==
  /\ Unblocked(c) /\ ~Serialization(c, Target(c)) /\ ~Refuses(c, Target(c))
  /\ LET op == Target(c)
         k == op.key
         none == ~Visible(c, k) /\ op.kind \in {"check", "delete"}
     IN  /\ lock' = IF none THEN lock ELSE [lock EXCEPT ![k] = c]
         /\ tx' = [tx EXCEPT ![c].i = @ + 1,
                             ![c].writes[k] = IF none \/ op.kind = "check" THEN Unwritten
                                              ELSE Apply(op.kind, tx[c].snap[k])]
  /\ reply' = NoReply
  /\ UNCHANGED <<db, requests, singles, faults>>

(***************************************************************************)
(* PostgreSQL finds a cycle of transactions that wait for each other, and  *)
(* fails a statement of one of them (40P01).                               *)
(***************************************************************************)
Blocked(c) == Running(c) /\ tx[c].keys = <<>> /\ Waits(c, Target(c))
InCycle(c) ==
  \E S \in SUBSET Client :
    c \in S /\ (\A d \in S : Blocked(d)) /\ {lock[Target(d).key] : d \in S} = S

Deadlock(c) ==
  /\ Blocked(c) /\ InCycle(c)
  /\ Cancel(c, "TransactionConflict") /\ UNCHANGED faults

Commit(c) ==
  /\ tx[c].pc = "running" /\ Done(c) /\ tx[c].keys = <<>>
  /\ db' = [k \in Key |-> IF k \in Written(c) THEN tx[c].writes[k] ELSE db[k]]
  /\ lock' = Released(c)
  /\ \/ Deliver(c, Changed(Written(c), db'), Ok) /\ UNCHANGED faults
     \/ /\ MayFail /\ faults' = faults + 1
        /\ Deliver(c, Changed(Written(c), db'), Error)
  /\ UNCHANGED <<requests, singles>>

--------------------------------------------------------------------------------
\* Mutant of Read: each SELECT has a snapshot of its own.
ReadCommitted(c) ==
  /\ Running(c) /\ tx[c].keys # <<>>
  /\ tx' = [tx EXCEPT ![c].i = @ + 1, ![c].got = Append(@, db[tx[c].keys[tx[c].i]])]
  /\ reply' = NoReply
  /\ UNCHANGED <<db, lock, requests, singles, faults>>

\* TransactGetItems reads the next key from its snapshot.
Read(c) ==
  /\ Running(c) /\ tx[c].keys # <<>>
  /\ tx' = [tx EXCEPT ![c].i = @ + 1, ![c].got = Append(@, tx[c].snap[tx[c].keys[tx[c].i]])]
  /\ reply' = NoReply
  /\ UNCHANGED <<db, lock, requests, singles, faults>>

Answer(c) ==
  /\ tx[c].pc = "running" /\ Done(c) /\ tx[c].keys # <<>>
  /\ Deliver(c, tx, Ok)
  /\ UNCHANGED <<db, lock, requests, singles, faults>>

(***************************************************************************)
(* A statement, or the COMMIT, fails without effect.  A get is tried again *)
(* by with_retry; a write is cancelled, or is an error if it was the       *)
(* COMMIT.                                                                 *)
(***************************************************************************)
Transient(c) ==
  /\ tx[c].pc = "running"
  /\ MayFail /\ faults' = faults + 1
  /\ \/ tx[c].keys = <<>> /\ ~Done(c) /\ Cancel(c, "InternalServerError")
     \/ /\ tx[c].keys = <<>> /\ Done(c) /\ Deliver(c, tx, Error)
        /\ lock' = Released(c)
        /\ UNCHANGED <<db, requests, singles>>
     \/ /\ tx[c].keys # <<>> /\ tx[c].attempt + 1 < MaxAttempts
        /\ tx' = [tx EXCEPT ![c] = Begun(<<>>, @.keys, @.attempt + 1)]
        /\ reply' = NoReply
        /\ UNCHANGED <<db, lock, requests, singles>>
     \/ /\ tx[c].keys # <<>> /\ tx[c].attempt + 1 >= MaxAttempts
        /\ Deliver(c, tx, Error)
        /\ UNCHANGED <<db, lock, requests, singles>>

(***************************************************************************)
(* PutItem and DeleteItem of somebody else: one statement, committed at    *)
(* once, when nobody holds the row.                                        *)
(***************************************************************************)
SingleWrite(k) ==
  /\ singles < MaxSingles /\ faults + singles < MaxEvents /\ lock[k] = NoClient
  /\ singles' = singles + 1
  /\ \E r \in Singles :
       /\ db' = [db EXCEPT ![k] = r]
       /\ tx' = IF r = NoRow /\ db[k] = NoRow THEN tx ELSE Changed({k}, db')
  /\ reply' = NoReply
  /\ UNCHANGED <<lock, requests, faults>>

Work(c) ==
  \/ Conflict(c) \/ Refuse(c) \/ Perform(c) \/ Deadlock(c) \/ Commit(c)
  \/ Read(c) \/ Answer(c)

Next ==
  \/ \E c \in Client : \/ TransactWriteItems(c) \/ TransactGetItems(c)
                    \/ Work(c) \/ Transient(c)
  \/ \E k \in Key : SingleWrite(k)

Spec == Init /\ [][Next]_vars

\* PostgreSQL runs every statement, wakes waiters and looks for deadlocks
\* (deadlock_timeout); requests are finitely many, so weak fairness is enough.
FairSpec == Spec /\ \A c \in Client : WF_vars(Work(c))

--------------------------------------------------------------------------------
\* The types.  In particular a transaction holds the lock of every row it wrote,
\* a cancellation names an item of the request, and attempts are bounded.
TypeOK ==
  /\ db \in [Key -> Row]
  /\ lock \in [Key -> Client \cup {NoClient}]
  /\ \A c \in Client :
       /\ tx[c].pc \in {"idle", "running"}
       /\ tx[c].i \in 1..Len(Ops(c)) + Len(tx[c].keys) + 1
       /\ tx[c].snap \in [Key -> Row] /\ tx[c].stale \subseteq Key
       /\ tx[c].writes \in [Key -> Row \cup {Unwritten}]
       /\ \A k \in Written(c) : lock[k] = c
       /\ Len(tx[c].got) = IF tx[c].keys = <<>> THEN 0 ELSE tx[c].i - 1
       /\ tx[c].attempt < MaxAttempts
  /\ reply.by \in Client \cup {NoClient}
  /\ reply.answer.status = "cancelled" => reply.answer.at \in DOMAIN reply.tx.ops
  /\ reply.answer.code \in Code
  /\ requests \in 0..MaxRequests /\ singles \in 0..MaxSingles /\ faults \in 0..MaxFaults

--------------------------------------------------------------------------------
\* The row of the item cannot have changed since the item was carried out.
Protected(c, op) ==
  op.kind \in {"put", "update"} \/ tx[c].snap[op.key] # NoRow

(***************************************************************************)
(* All or nothing, and on the newest rows: a transaction changes the       *)
(* database in one step, after its last item, to what its items make of    *)
(* the rows current at that moment, and their conditions are true of those *)
(* rows.  Items that found no row and wrote none (a check, a delete) lock  *)
(* nothing and are left out.                                               *)
(***************************************************************************)
CommitIsSerial ==
  [][\A c \in Client :
       db' # db /\ reply'.by = c =>
         /\ Done(c) /\ reply'.answer.status \in {"ok", "error"}
         /\ \A i \in DOMAIN Ops(c) :
              LET op == Ops(c)[i]
              IN  Protected(c, op) => /\ Holds(op.cond, db[op.key])
                                      /\ db'[op.key] = Apply(op.kind, db[op.key])
         /\ \A k \in Key : (\A i \in DOMAIN Ops(c) : Ops(c)[i].key # k) => db'[k] = db[k]]_vars

(***************************************************************************)
(* The CancellationReasons array is true: a slot that says                 *)
(* ConditionalCheckFailed is that of an item whose condition was false of  *)
(* the snapshot, and the conditions of the items before it were true.  (An *)
(* item without condition is never that slot.)                             *)
(***************************************************************************)
ReasonIsTrue ==
  reply.answer.code = "ConditionalCheckFailed" =>
    LET cond(i) == reply.tx.ops[i].cond
        seen(i) == reply.tx.snap[reply.tx.ops[i].key]
    IN  /\ ~Holds(cond(reply.answer.at), seen(reply.answer.at))
        /\ \A i \in 1..reply.answer.at - 1 : Holds(cond(i), seen(i))

(***************************************************************************)
(* TransactGetItems answers with rows that were in the database together,  *)
(* at one moment of the request, whatever commits between its reads.       *)
(***************************************************************************)
GetIsConsistent ==
  reply.tx.keys # <<>> /\ reply.answer.status = "ok" =>
    \E d \in reply.tx.past : \A i \in DOMAIN reply.tx.keys : reply.tx.got[i] = d[reply.tx.keys[i]]

(***************************************************************************)
(* Every transaction ends: nobody keeps a row for ever, and of             *)
(* transactions that wait for each other one is cancelled.                 *)
(***************************************************************************)
EveryTransactionEnds == []<>(\A c \in Client : tx[c].pc = "idle")

--------------------------------------------------------------------------------
\* transact_write.rs: SELECT FOR UPDATE "inside every condition-bearing op closes
\* the write-skew gap that REPEATABLE READ leaves open".  Where every request
\* creates an item after it has checked that no other item exists, and none exists
\* at the start, there is never more than one.
NoWriteSkew == \A j, k \in Key : db[j] # NoRow /\ db[k] # NoRow => j = k

================================================================================
