------------------------------ MODULE ItemStore ------------------------------
(***************************************************************************)
(* The single-item operations of the PostgreSQL backend on one item        *)
(* (crates/rekt-storage-libpq/src/put_delete.rs, update.rs, retry.rs):     *)
(* PutItem, GetItem, DeleteItem and UpdateItem, each with its condition    *)
(* and on the path the translator routes it to, issued by concurrent       *)
(* clients against a READ COMMITTED database that may fail a statement or  *)
(* lose its reply.                                                         *)
(*                                                                         *)
(* A statement has two moments: it takes its snapshot, and later, once no  *)
(* other transaction holds the row, it takes effect on the newest version  *)
(* of the row.  Effect and commit are one step: nobody sees a row between. *)
(***************************************************************************)
EXTENDS Integers

CONSTANTS
  Client,       \* connections with a request each
  NoRow,        \* the item does not exist
  NoClient,     \* nobody holds the row lock
  Initial,      \* the writer recorded in a row that was there from the start
  MaxIters,     \* MAX_ITERS of the read-modify-write loops
  MaxAttempts,  \* RetryPolicy.max_attempts
  MaxRequests,  \* bound: requests
  MaxFaults     \* bound: statements that fail or whose reply is lost

ASSUME ParamAssumption ==
  /\ NoClient \notin Client
  /\ MaxIters \in Nat \ {0} /\ MaxAttempts \in Nat \ {0}
  /\ MaxRequests \in Nat /\ MaxFaults \in Nat

VARIABLES
  row,       \* the committed row
  lock,      \* who holds its row lock
  req,       \* per client: its request in progress
  reply,     \* the answer the last step delivered, if it delivered one
  requests, faults

vars == <<row, lock, req, reply, requests, faults>>

(***************************************************************************)
(* An item counts the read-modify-write updates since it was put, and      *)
(* names the last client that put it or SET its attribute.                 *)
(***************************************************************************)
Item == [n : 0..MaxRequests, a : Client \cup {Initial}]
Row == Item \cup {NoRow}
Fresh(c) == [n |-> 0, a |-> c]

(***************************************************************************)
(* The paths: one statement, sent again on a transient error (Single), or  *)
(* a transaction around SELECT ... FOR UPDATE that is not (Locked).        *)
(* Conditions: none, attribute_not_exists(pk), and a comparison that only  *)
(* the row from the start satisfies.                                       *)
(***************************************************************************)
Single == {"put", "get", "delete", "update", "insert_only", "update_if"}
Locked == {"put_if", "delete_if", "rmw"}
Looping == {"put_if", "rmw"}
Op == {[kind |-> k, cond |-> "none"] : k \in {"put", "get", "delete", "update", "rmw"}}
      \cup {[kind |-> k, cond |-> "absent"] : k \in {"insert_only", "put_if", "delete_if"}}
      \cup {[kind |-> k, cond |-> "initial"] :
              k \in {"update_if", "put_if", "delete_if", "rmw"}}
NoOp == [kind |-> "get", cond |-> "none"]

Holds(cond, r) ==
  CASE cond = "none" -> TRUE
    [] cond = "absent" -> r = NoRow
    [] cond = "initial" -> r # NoRow /\ r.a = Initial

(***************************************************************************)
(* What the request turns the row into.                                    *)
(***************************************************************************)
Apply(kind, c, r) ==
  CASE kind \in {"put", "put_if", "insert_only"} -> Fresh(c)
    [] kind \in {"delete", "delete_if"} -> NoRow
    [] kind \in {"update", "update_if"} -> IF r = NoRow THEN Fresh(c) ELSE [r EXCEPT !.a = c]
    [] kind = "rmw" -> IF r = NoRow THEN [n |-> 1, a |-> c] ELSE [r EXCEPT !.n = @ + 1]

(***************************************************************************)
(* A request: where it is, what it asks; the row in its statement's        *)
(* snapshot and whether that version has been deleted since; the row       *)
(* SELECT ... FOR UPDATE returned; iterations that ended in a conflict;    *)
(* attempts that failed.  History: whether, while it ran, its condition    *)
(* was false of the current row and there was no row; how often it changed *)
(* the row; and whether a reply was lost.                                  *)
(***************************************************************************)
Pc == {"idle", "ready", "running", "selecting", "deciding"}
ReqType == [pc : Pc, op : Op, snap : Row, lost : BOOLEAN, existing : Row,
            iter : 0..MaxIters, attempt : 0..MaxAttempts,
            unmet : BOOLEAN, absent : BOOLEAN, effects : 0..MaxAttempts, misled : BOOLEAN]
Idle == [pc |-> "idle", op |-> [kind |-> "get", cond |-> "none"], snap |-> NoRow,
         lost |-> FALSE, existing |-> NoRow, iter |-> 0, attempt |-> 0,
         unmet |-> FALSE, absent |-> FALSE, effects |-> 0, misled |-> FALSE]

Answer == [status : {"ok", "refused", "error"}, old : Row, new : Row]
Ok(old, new) == [status |-> "ok", old |-> old, new |-> new]
Refused == [status |-> "refused", old |-> NoRow, new |-> NoRow]
Error == [status |-> "error", old |-> NoRow, new |-> NoRow]
NoReply == [by |-> NoClient, req |-> Idle, answer |-> Error]

Kind(c) == req[c].op.kind
Cond(c) == req[c].op.cond

Init ==
  /\ row \in {NoRow, [n |-> 0, a |-> Initial]}
  /\ lock = NoClient
  /\ req = [c \in Client |-> Idle]
  /\ reply = NoReply
  /\ requests = 0 /\ faults = 0

--------------------------------------------------------------------------------
Request(c, o) ==
  /\ req[c].pc = "idle" /\ requests < MaxRequests
  /\ requests' = requests + 1
  /\ req' = [req EXCEPT ![c] = [Idle EXCEPT !.pc = "ready", !.op = o,
                                             !.unmet = ~Holds(o.cond, row),
                                             !.absent = row = NoRow]]
  /\ reply' = NoReply
  /\ UNCHANGED <<row, lock, faults>>

\* PostgreSQL starts the statement and takes its snapshot.
Start(c) ==
  /\ req[c].pc = "ready"
  /\ LET next == IF Kind(c) \in Single THEN "running" ELSE "selecting"
     IN  req' = [req EXCEPT ![c] = [@ EXCEPT !.pc = next, !.snap = row, !.lost = FALSE]]
  /\ reply' = NoReply
  /\ UNCHANGED <<row, lock, requests, faults>>

\* The requests in progress once c's change is the newest committed version.
Changed(c, new) ==
  [d \in Client |->
     IF req[d].pc = "idle" THEN req[d]
     ELSE [req[d] EXCEPT !.lost = @ \/ new = NoRow,
                         !.unmet = @ \/ ~Holds(req[d].op.cond, new),
                         !.absent = @ \/ new = NoRow,
                         !.effects = IF d = c THEN @ + 1 ELSE @]]

\* The answer a reaches the caller of c; r holds the requests before that.
Deliver(c, r, a) ==
  /\ req' = [r EXCEPT ![c] = Idle]
  /\ reply' = [by |-> c, req |-> r[c], answer |-> a]

(***************************************************************************)
(* An error of PostgreSQL.  with_retry starts a single statement again     *)
(* after a transient one (connection loss among them) until max_attempts   *)
(* have failed; the Locked paths are not wrapped in it.                    *)
(***************************************************************************)
Fails(c, r) ==
  /\ faults < MaxFaults /\ faults' = faults + 1
  /\ \/ /\ Kind(c) \in Single /\ req[c].attempt + 1 < MaxAttempts
        /\ req' = [r EXCEPT ![c] = [r[c] EXCEPT !.pc = "ready", !.attempt = @ + 1,
                                                !.snap = NoRow, !.lost = FALSE]]
        /\ reply' = NoReply
     \/ /\ Kind(c) \in Single => req[c].attempt + 1 >= MaxAttempts
        /\ Deliver(c, r, Error)

\* The reply arrives, or the connection breaks once PostgreSQL has committed.
Respond(c, r, a) ==
  \/ Deliver(c, r, a) /\ UNCHANGED faults
  \/ Fails(c, [r EXCEPT ![c].misled = TRUE])

\* c changes the row to new, or leaves it alone, and answers a.
Commit(c, new, a) == row' = new /\ Respond(c, Changed(c, new), a)
Leave(c, a) == row' = row /\ Respond(c, req, a)

--------------------------------------------------------------------------------
(***************************************************************************)
(* Single statements.                                                      *)
(***************************************************************************)

\* INSERT ... ON CONFLICT DO UPDATE waits for the row and changes its newest
\* version; the `prev` CTE beside it reads the snapshot.
Upsert(c) ==
  /\ Kind(c) \in {"put", "update"} /\ lock = NoClient
  /\ LET new == Apply(Kind(c), c, row) IN Commit(c, new, Ok(req[c].snap, new))

\* INSERT ... ON CONFLICT DO NOTHING does not wait for a row lock.
InsertOnly(c) ==
  /\ Kind(c) = "insert_only"
  /\ \/ row = NoRow /\ Commit(c, Fresh(c), Ok(NoRow, Fresh(c)))
     \/ row # NoRow /\ Leave(c, Refused)

(***************************************************************************)
(* UPDATE ... WHERE key AND condition: the snapshot's version must satisfy *)
(* the condition, then, after the wait for the row, so must the newest.    *)
(***************************************************************************)
UpdateIf(c) ==
  /\ Kind(c) = "update_if"
  /\ \/ ~Holds(Cond(c), req[c].snap) /\ Leave(c, Refused)
     \/ /\ Holds(Cond(c), req[c].snap) /\ lock = NoClient
        /\ req[c].lost \/ ~Holds(Cond(c), row)
        /\ Leave(c, Refused)
     \/ /\ Holds(Cond(c), req[c].snap) /\ lock = NoClient
        /\ ~req[c].lost /\ Holds(Cond(c), row)
        /\ LET new == Apply("update_if", c, row) IN Commit(c, new, Ok(req[c].snap, new))

\* The row of the snapshot is not there to be locked, or it is and is free.
Missing(c) == req[c].snap = NoRow \/ (req[c].lost /\ lock = NoClient)
Lockable(c) == req[c].snap # NoRow /\ ~req[c].lost /\ lock = NoClient

\* Mutant of Delete: the old row is the one of the snapshot.
DeleteSnapshotOld(c) ==
  /\ Kind(c) = "delete"
  /\ \/ Missing(c) /\ Leave(c, Ok(NoRow, NoRow))
     \/ Lockable(c) /\ Commit(c, NoRow, Ok(req[c].snap, NoRow))

\* DELETE ... RETURNING: a row the snapshot lacks, or that was deleted since,
\* is not deleted again.
Delete(c) ==
  /\ Kind(c) = "delete"
  /\ \/ Missing(c) /\ Leave(c, Ok(NoRow, NoRow))
     \/ Lockable(c) /\ Commit(c, NoRow, Ok(row, NoRow))

Get(c) == Kind(c) = "get" /\ Leave(c, Ok(req[c].snap, NoRow))

Execute(c) ==
  /\ req[c].pc = "running"
  /\ Upsert(c) \/ InsertOnly(c) \/ UpdateIf(c) \/ Delete(c) \/ Get(c)
  /\ UNCHANGED <<lock, requests>>

--------------------------------------------------------------------------------
(***************************************************************************)
(* Transactions around SELECT ... FOR UPDATE.                              *)
(***************************************************************************)

Found(c, r) ==
  req' = [req EXCEPT ![c] = [@ EXCEPT !.pc = "deciding", !.existing = r,
                                      !.snap = NoRow, !.lost = FALSE]]

\* Mutant of SelectForUpdate: a plain SELECT.
SelectOnly(c) ==
  /\ req[c].pc = "selecting"
  /\ Found(c, req[c].snap)
  /\ reply' = NoReply
  /\ UNCHANGED <<row, lock, requests, faults>>

\* A row of the snapshot is waited for, locked and read in its newest version;
\* one that is not there, or has been deleted, is not found and not locked.
SelectForUpdate(c) ==
  /\ req[c].pc = "selecting"
  /\ \/ Missing(c) /\ Found(c, NoRow) /\ UNCHANGED lock
     \/ Lockable(c) /\ Found(c, row) /\ lock' = c
  /\ reply' = NoReply
  /\ UNCHANGED <<row, requests, faults>>

Release(c) == lock' = IF lock = c THEN NoClient ELSE lock
Passes(c) == Holds(Cond(c), req[c].existing)

\* Mutant of Refuse: the transaction is left open.
RefuseKeepLock(c) ==
  /\ ~Passes(c)
  /\ Deliver(c, req, Refused)
  /\ UNCHANGED <<row, lock, faults>>

\* The condition is false of the row read: rollback.
Refuse(c) ==
  /\ ~Passes(c)
  /\ Deliver(c, req, Refused) /\ Release(c)
  /\ UNCHANGED <<row, faults>>

\* The row is there and locked: UPDATE or DELETE it, and commit.
WriteLocked(c) ==
  /\ Passes(c) /\ req[c].existing # NoRow
  /\ LET new == Apply(Kind(c), c, req[c].existing)
     IN  Commit(c, new, Ok(req[c].existing, new))
  /\ Release(c)

\* DeleteItem of a row that is not there: nothing to do, commit.
DeleteNothing(c) ==
  /\ Passes(c) /\ req[c].existing = NoRow /\ Kind(c) = "delete_if"
  /\ Leave(c, Ok(NoRow, NoRow))
  /\ UNCHANGED lock

\* The row is not there: INSERT ... ON CONFLICT DO NOTHING inserts it.
InsertAbsent(c) ==
  /\ Passes(c) /\ req[c].existing = NoRow /\ Kind(c) \in Looping
  /\ row = NoRow
  /\ LET new == Apply(Kind(c), c, NoRow) IN Commit(c, new, Ok(NoRow, new))
  /\ UNCHANGED lock

LosesInsert(c) ==
  Passes(c) /\ req[c].existing = NoRow /\ Kind(c) \in Looping /\ row # NoRow

\* Mutant of Conflict: the number of inserted rows is not looked at.
ConflictIgnored(c) ==
  /\ LosesInsert(c)
  /\ Deliver(c, req, Ok(NoRow, Apply(Kind(c), c, NoRow)))
  /\ UNCHANGED <<row, lock, faults>>

\* Mutant of Conflict: a lost race is a failed condition.
ConflictRefused(c) ==
  /\ LosesInsert(c)
  /\ Deliver(c, req, Refused)
  /\ UNCHANGED <<row, lock, faults>>

\* A concurrent insert won: select again, up to MAX_ITERS times.
Conflict(c) ==
  /\ LosesInsert(c)
  /\ \/ /\ req[c].iter + 1 < MaxIters
        /\ req' = [req EXCEPT ![c] = [req[c] EXCEPT !.pc = "ready", !.iter = @ + 1]]
        /\ reply' = NoReply
     \/ req[c].iter + 1 >= MaxIters /\ Deliver(c, req, Error)
  /\ UNCHANGED <<row, lock, faults>>

Decide(c) ==
  /\ req[c].pc = "deciding"
  /\ Refuse(c) \/ WriteLocked(c) \/ DeleteNothing(c) \/ InsertAbsent(c) \/ Conflict(c)
  /\ UNCHANGED requests

(***************************************************************************)
(* A statement fails without effect (no connection, server shutdown);  an  *)
(* open transaction is rolled back.                                        *)
(***************************************************************************)
Transient(c) ==
  /\ req[c].pc \in {"running", "selecting", "deciding"}
  /\ Fails(c, req) /\ Release(c)
  /\ UNCHANGED <<row, requests>>

Work(c) == Start(c) \/ Execute(c) \/ SelectForUpdate(c) \/ Decide(c)

Next == \E c \in Client : Work(c) \/ Transient(c) \/ \E o \in Op : Request(c, o)

Spec == Init /\ [][Next]_vars

\* Every request runs to its end: rektifier polls it and PostgreSQL wakes the
\* waiters of a row lock.  Requests are finitely many, so weak fairness is enough.
FairSpec == Spec /\ \A c \in Client : WF_vars(Work(c))

--------------------------------------------------------------------------------
\* The types.  In particular every path, upsert of a missing row included,
\* writes a whole item and retries no more often than it may.
TypeOK ==
  /\ row \in Row /\ lock \in Client \cup {NoClient}
  /\ req \in [Client -> ReqType]
  /\ reply \in [by : Client \cup {NoClient}, req : ReqType, answer : Answer]
  /\ requests \in 0..MaxRequests /\ faults \in 0..MaxFaults

\* The step carries out c's request, whether or not the reply arrives.
Wrote(c) == (IF reply'.by = c THEN reply'.req ELSE req'[c]).effects > req[c].effects

(***************************************************************************)
(* No update is lost: whenever the row changes, one request changed it,    *)
(* its condition was true of the row it replaced, and the new row is what  *)
(* the request makes of that row, not of an older one it had read.         *)
(***************************************************************************)
NoLostUpdate ==
  [][row' # row =>
       \E c \in Client : /\ Wrote(c)
                         /\ Holds(Cond(c), row)
                         /\ row' = Apply(Kind(c), c, row)]_vars

(***************************************************************************)
(* The paths that lock or delete the row return the row they replaced and  *)
(* the one they left (ALL_OLD, ALL_NEW).                                   *)
(***************************************************************************)
ReturnsReplacedRow ==
  [][\A c \in Client :
       /\ Wrote(c) /\ Kind(c) \in Locked \cup {"delete", "insert_only"}
       /\ reply'.by = c /\ reply'.answer.status = "ok"
       => reply'.answer.old = row /\ reply'.answer.new = row']_vars

(***************************************************************************)
(* Answers of requests that changed nothing were true while they ran: a    *)
(* condition reported false was false of a row that was current then, and  *)
(* when a delete found nothing there was nothing at some moment.           *)
(***************************************************************************)
AnswersWereTrue ==
  reply.req.effects = 0 =>
    /\ reply.answer.status = "refused" => reply.req.unmet
    /\ reply.answer.status = "ok" /\ reply.req.op.kind # "get" => reply.req.absent

(***************************************************************************)
(* The status tells whether the request was carried out: ok means once, a  *)
(* refusal or an error means not at all, unless a reply was lost.          *)
(***************************************************************************)
StatusMatchesEffect ==
  ~reply.req.misled =>
    \/ reply.req.effects = IF reply.answer.status = "ok" /\ reply.req.op.kind # "get"
                             THEN 1 ELSE 0
    \/ /\ reply.req.effects = 0 /\ reply.answer = Ok(NoRow, NoRow)
       /\ reply.req.op.kind \in {"delete", "delete_if"}

(***************************************************************************)
(* Every request is answered, whatever it waits for and however often its  *)
(* insert loses a race.                                                    *)
(***************************************************************************)
EveryRequestAnswered == []<>(\A c \in Client : req[c].pc = "idle")

--------------------------------------------------------------------------------
\* What the docs of the Backend trait say of every write: it returns "the
\* pre-existing row at the same key", from a CTE "that snapshots the prior row
\* at the same MVCC point as the upsert".
OldIsPrevious ==
  [][\A c \in Client : Wrote(c) /\ reply'.by = c /\ reply'.answer.status = "ok"
                        => reply'.answer.old = row]_vars

\* What update_general_rmw_raw says of its loop: "converges in <=2 iterations
\* (once a row exists it can't be un-inserted)".
LoopConverges == \A c \in Client : req[c].iter < 2

================================================================================
