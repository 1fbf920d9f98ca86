---------------------------- MODULE TransactProofs -----------------------------
(***************************************************************************)
(* Proofs about Transact: with any requests, clients, keys and failures, a *)
(* transaction commits what its items make of the newest rows, a           *)
(* cancellation reason is true, and a get answers from one moment.         *)
(***************************************************************************)
EXTENDS Transact, TLAPS

(***************************************************************************)
(* The shape of the state, with the counters not bounded.                  *)
(***************************************************************************)
AnyRow == Nat \cup {NoRow}
Database == [Key -> AnyRow]
Transaction ==
  [pc : {"idle", "running"}, ops : Writes \cup {<<>>}, keys : Gets \cup {<<>>}, i : Nat \ {0},
   snap : Database, stale : SUBSET Key, writes : [Key -> AnyRow \cup {Unwritten}],
   got : Seq(AnyRow), attempt : Nat, past : SUBSET Database]
Shape ==
  /\ db \in Database /\ lock \in [Key -> Client \cup {NoClient}]
  /\ tx \in [Client -> Transaction]

(***************************************************************************)
(* What is true of a transaction x of client c with the database d and the *)
(* locks l.                                                                *)
(***************************************************************************)

\* A request writes or gets.
OneKind(x) ==
  /\ x.ops = <<>> \/ x.keys = <<>>
  /\ x.pc = "idle" => x.ops = <<>> /\ x.keys = <<>>

\* A row that is not known to have changed is that of the snapshot.
Fresh(x, d) == x.pc = "running" => \A k \in Key : k \in x.stale \/ d[k] = x.snap[k]

\* A row is written by its holder; one that is held and not written exists.
Locked(c, x, d, l) ==
  \A k \in Key : /\ x.writes[k] # Unwritten => l[k] = c
                 /\ l[k] = c => x.ops # <<>> /\ (x.writes[k] # Unwritten \/ d[k] # NoRow)

\* An item that has been carried out: its condition was true of the snapshot,
\* and, if it locked its row, is true of the row, of which its write was made.
Secured(x, op) == op.kind \in {"put", "update"} \/ x.snap[op.key] # NoRow
Performed(c, x, d, l, op) ==
  /\ Holds(op.cond, x.snap[op.key])
  /\ Secured(x, op) =>
       /\ l[op.key] = c /\ Holds(op.cond, d[op.key])
       /\ x.writes[op.key] = IF op.kind = "check" THEN Unwritten ELSE Apply(op.kind, d[op.key])
Earlier(x) == {j \in DOMAIN x.ops : j < x.i}
ItemsDone(c, x, d, l) ==
  /\ \A j \in Earlier(x) : Performed(c, x, d, l, x.ops[j])
  /\ \A k \in Key : x.writes[k] # Unwritten => \E j \in Earlier(x) : x.ops[j].key = k

\* A get has read the first keys from its snapshot, a database of its time.
KeysRead(x) ==
  x.keys # <<>> =>
    /\ x.snap \in x.past /\ Len(x.got) = x.i - 1
    /\ \A j \in 1..Len(x.got) : x.got[j] = x.snap[x.keys[j]]

Sound(c, x, d, l) ==
  OneKind(x) /\ Fresh(x, d) /\ Locked(c, x, d, l) /\ ItemsDone(c, x, d, l) /\ KeysRead(x)

IInv == Shape /\ \A c \in Client : Sound(c, tx[c], db, lock)

--------------------------------------------------------------------------------
(* A transaction beside the steps of others, and at its beginning and end. *)

\* y is x after others have changed the keys K.
Similar(x, y, K) ==
  /\ y.pc = x.pc /\ y.ops = x.ops /\ y.keys = x.keys /\ y.i = x.i /\ y.snap = x.snap
  /\ y.writes = x.writes /\ y.got = x.got
  /\ x.past \subseteq y.past /\ (x.pc = "running" => x.stale \cup K \subseteq y.stale)

\* What others do leaves a transaction sound, if they keep off the rows it holds.
LEMMA Kept ==
  ASSUME NEW c, NEW x, NEW y, NEW K, NEW d, NEW e, NEW l, NEW m,
         Sound(c, x, d, l), Similar(x, y, K),
         \A k \in Key : k \in K \/ e[k] = d[k],
         \A k \in Key : l[k] = c <=> m[k] = c,
         \A k \in Key : l[k] = c => e[k] = d[k],
         \A j \in DOMAIN x.ops : x.ops[j].key \in Key
  PROVE  Sound(c, y, e, m)
<1>1. OneKind(y)
  BY Zenon DEF Sound, OneKind, Similar
<1>2. Fresh(y, e)
  BY DEF Sound, Fresh, Similar
<1>3. Locked(c, y, e, m)
  BY DEF Sound, Locked, Similar
<1>4. ItemsDone(c, y, e, m)
  <2>0. Earlier(y) = Earlier(x) /\ Earlier(x) \subseteq DOMAIN x.ops
    BY Zenon DEF Earlier, Similar
  <2>1. ASSUME NEW j \in Earlier(x)
        PROVE  Performed(c, y, e, m, x.ops[j])
    <3> DEFINE op == x.ops[j]
    <3>1. Performed(c, x, d, l, op) /\ op.key \in Key
      BY <2>0, Zenon DEF Sound, ItemsDone
    <3>2. Secured(y, op) <=> Secured(x, op)
      BY Zenon DEF Secured, Similar
    <3>3. l[op.key] = c => m[op.key] = c /\ e[op.key] = d[op.key]
      BY <3>1, Zenon
    <3>4. y.snap = x.snap /\ y.writes = x.writes
      BY Zenon DEF Similar
    <3>5. CASE Secured(x, op)
      BY <3>1, <3>2, <3>3, <3>4, <3>5, Zenon DEF Performed
    <3>6. CASE ~Secured(x, op)
      BY <3>1, <3>2, <3>4, <3>6, Zenon DEF Performed
    <3> QED
      BY <3>5, <3>6, Zenon
  <2> QED
    BY <2>0, <2>1 DEF Sound, ItemsDone, Similar
<1>5. KeysRead(y)
  BY DEF Sound, KeysRead, Similar
<1> QED
  BY <1>1, <1>2, <1>3, <1>4, <1>5, Zenon DEF Sound

LEMMA OpsAreItems ==
  ASSUME NEW x \in Transaction
  PROVE  /\ x.ops \in Seq(Items) /\ x.keys \in Seq(Key) /\ Valid(x.ops)
         /\ \A j \in DOMAIN x.ops : x.ops[j] \in Items /\ x.ops[j].key \in Key
<1>1. x.ops \in Writes \cup {<<>>} /\ x.keys \in Gets \cup {<<>>}
  BY Zenon DEF Transaction
<1>2. x.ops \in Seq(Items) /\ x.keys \in Seq(Key)
  <2>1. <<>> \in Seq(Items) /\ <<>> \in Seq(Key)
    OBVIOUS
  <2> QED
    BY <1>1, <2>1, ParamAssumption, Zenon
<1>3. Valid(<<>>)
  BY DEF Valid
<1>4. Valid(x.ops)
  BY <1>1, <1>3, ParamAssumption, Zenon
<1>5. \A j \in DOMAIN x.ops : x.ops[j] \in Items
  BY <1>2
<1> QED
  BY <1>2, <1>4, <1>5, Zenon DEF Items

LEMMA IdleShape ==
  /\ Idle \in Transaction /\ Idle.pc = "idle" /\ Idle.ops = <<>> /\ Idle.keys = <<>>
  /\ \A k \in Key : Idle.writes[k] = Unwritten
  BY DEF Idle, Transaction, Database, AnyRow

\* A transaction that has just begun, or ended, holds no row.
LEMMA SoundIdle ==
  ASSUME NEW c, NEW d, NEW l, \A k \in Key : l[k] # c
  PROVE  Sound(c, Idle, d, l)
  BY IdleShape DEF Sound, OneKind, Fresh, Locked, ItemsDone, Earlier, KeysRead

LEMMA SoundBegun ==
  ASSUME NEW c, NEW ops, NEW keys, NEW n \in Nat, db \in Database,
         \/ ops \in Writes /\ keys = <<>>
         \/ ops = <<>> /\ keys \in Gets,
         \A k \in Key : lock[k] # c
  PROVE  Begun(ops, keys, n) \in Transaction /\ Sound(c, Begun(ops, keys, n), db, lock)
<1> DEFINE x == Begun(ops, keys, n)
           past == IF keys = <<>> THEN {} ELSE {db}
<1>1. x \in Transaction
  <2>1. past \in SUBSET Database
    BY Zenon
  <2> HIDE DEF past
  <2>2. x = [pc |-> "running", ops |-> ops, keys |-> keys, i |-> 1, snap |-> db, stale |-> {},
             writes |-> [k \in Key |-> Unwritten], got |-> <<>>, attempt |-> n, past |-> past]
    <3>1. x = [Idle EXCEPT !.pc = "running", !.ops = ops, !.keys = keys, !.attempt = n, !.snap = db,
                           !.past = past]
      BY Zenon DEF Begun, past
    <3> QED
      BY <3>1, ZenonT(30) DEF Idle
  <2>3. [k \in Key |-> Unwritten] \in [Key -> AnyRow \cup {Unwritten}] /\ <<>> \in Seq(AnyRow)
    OBVIOUS
  <2>4. ops \in Writes \cup {<<>>} /\ keys \in Gets \cup {<<>>}
    BY Zenon
  <2> HIDE DEF x
  <2> QED
    BY <2>1, <2>2, <2>3, <2>4 DEF Transaction
<1>2. /\ x.ops = ops /\ x.keys = keys /\ x.snap = db /\ x.i = 1 /\ x.pc = "running" /\ x.got = <<>>
      /\ \A k \in Key : x.writes[k] = Unwritten
      /\ keys # <<>> => db \in x.past
  BY DEF Begun, Idle
<1>3. OneKind(x) /\ Fresh(x, db) /\ Locked(c, x, db, lock)
  BY <1>2, Zenon DEF OneKind, Fresh, Locked
<1>4. ItemsDone(c, x, db, lock)
  <2>1. ops \in Seq(Items)
    BY <1>1, <1>2, OpsAreItems
  <2> QED
    BY <1>2, <2>1 DEF ItemsDone, Earlier
<1>5. KeysRead(x)
  BY <1>2 DEF KeysRead
<1> QED
  BY <1>1, <1>3, <1>4, <1>5 DEF Sound

\* A get reads the next key.
LEMMA SoundRead ==
  ASSUME NEW c, NEW x \in Transaction, NEW d, NEW l, Sound(c, x, d, l), x.keys # <<>>,
         x.i <= Len(x.keys),
         NEW y, y = [x EXCEPT !.i = x.i + 1, !.got = Append(x.got, x.snap[x.keys[x.i]])]
  PROVE  y \in Transaction /\ Sound(c, y, d, l)
<1>1. /\ x.keys \in Seq(Key) /\ x.i \in DOMAIN x.keys /\ x.snap[x.keys[x.i]] \in AnyRow
      /\ x.got \in Seq(AnyRow) /\ x.i \in Nat \ {0}
  BY OpsAreItems DEF Transaction, Database
<1>2. y \in Transaction
  <2> DEFINE g == Append(x.got, x.snap[x.keys[x.i]])
             n == x.i + 1
  <2>1. g \in Seq(AnyRow) /\ n \in Nat \ {0} /\ y = [x EXCEPT !.i = n, !.got = g]
    BY <1>1
  <2> HIDE DEF g, n
  <2> QED
    BY <2>1, Zenon DEF Transaction
<1>3. /\ y.pc = x.pc /\ y.ops = x.ops /\ y.keys = x.keys /\ y.snap = x.snap /\ y.writes = x.writes
      /\ y.stale = x.stale /\ y.past = x.past
      /\ y.i = x.i + 1 /\ y.got = Append(x.got, x.snap[x.keys[x.i]])
  BY Zenon DEF Transaction
<1>4. x.ops = <<>>
  BY Zenon DEF Sound, OneKind
<1>5. OneKind(y) /\ Fresh(y, d) /\ Locked(c, y, d, l)
  BY <1>3, SMTT(30) DEF Sound, OneKind, Fresh, Locked
<1>6. ItemsDone(c, y, d, l)
  BY <1>3, <1>4 DEF Sound, ItemsDone, Earlier
<1>7. KeysRead(y)
  <2>1. Len(x.got) = x.i - 1 /\ x.snap \in x.past
    BY Zenon DEF Sound, KeysRead
  <2>2. \A j \in 1..Len(x.got) : x.got[j] = x.snap[x.keys[j]]
    BY Zenon DEF Sound, KeysRead
  <2>3. Len(y.got) = y.i - 1
    BY <1>1, <1>3, <2>1, SMTT(30)
  <2>4. ASSUME NEW j \in 1..Len(y.got) PROVE y.got[j] = y.snap[y.keys[j]]
    <3>1. CASE j \in 1..Len(x.got)
      <4>1. y.got[j] = x.got[j]
        BY <1>1, <1>3, <3>1
      <4> QED
        BY <1>3, <2>2, <3>1, <4>1, Zenon
    <3>2. CASE j = x.i
      BY <1>1, <1>3, <2>1, <3>2
    <3> QED
      BY <1>1, <1>3, <2>1, <2>3, <3>1, <3>2, SMTT(30)
  <2> QED
    BY <1>3, <2>1, <2>3, <2>4, Zenon DEF KeysRead
<1> QED
  BY <1>2, <1>5, <1>6, <1>7, Zenon DEF Sound

--------------------------------------------------------------------------------
(* An item is carried out.                                                 *)

LEMMA ApplyType ==
  ASSUME NEW kind \in Kind, NEW r \in AnyRow PROVE Apply(kind, r) \in AnyRow
  BY DEF Apply, Kind, AnyRow

LEMMA RunningItem ==
  ASSUME Shape, NEW c \in Client, Running(c), tx[c].keys = <<>>
  PROVE  /\ tx[c] \in Transaction /\ tx[c].i \in DOMAIN Ops(c) /\ Target(c) \in Items
         /\ Target(c).key \in Key /\ Target(c).kind \in Kind
<1>1. tx[c] \in Transaction /\ tx[c].i \in Nat \ {0}
  BY DEF Shape, Transaction
<1>2. tx[c].i \in DOMAIN Ops(c)
  <2>1. Len(<<>>) = 0
    BY Zenon
  <2> QED
    BY <1>1, <2>1, OpsAreItems DEF Running, Done, Ops
<1>3. Target(c) \in Items
  BY <1>1, <1>2, OpsAreItems, Zenon DEF Target, Ops
<1> QED
  BY <1>1, <1>2, <1>3, Zenon DEF Items

\* An item that goes ahead and secures its row: nobody else holds the row, the
\* condition is true of it, and the write is what the item makes of it.
LEMMA PerformRow ==
  ASSUME IInv, NEW c \in Client, Unblocked(c), NEW op, op = Target(c),
         ~Serialization(c, op), ~Refuses(c, op), Secured(tx[c], op)
  PROVE  /\ lock[op.key] \in {c, NoClient}
         /\ Holds(op.cond, db[op.key])
         /\ op.kind = "check" => db[op.key] # NoRow
         /\ Apply(op.kind, tx[c].snap[op.key]) = Apply(op.kind, db[op.key])
<1> DEFINE k == op.key
           x == tx[c]
<1>1. /\ op.key \in Key /\ op.kind \in Kind /\ lock \in [Key -> Client \cup {NoClient}]
      /\ ~Waits(c, op) /\ x.pc = "running"
  BY RunningItem, Zenon DEF IInv, Unblocked, Running, Shape
<1>2. k \in x.stale \/ db[k] = x.snap[k]
  BY <1>1, Zenon DEF IInv, Sound, Fresh
<1>3. CASE op.kind = "put" /\ ~Selects(op)
  <2>1. op.cond = "none"
    BY <1>3, Zenon DEF Selects
  <2>2. ~LockedByOther(c, k)
    BY <1>1, <1>3, Zenon DEF Waits
  <2> QED
    BY <1>1, <1>3, <2>1, <2>2, Zenon DEF LockedByOther, Holds, Apply
<1>4. CASE Inserts(c, op)
  <2>1. db[k] = NoRow /\ x.snap[k] = NoRow /\ op.kind \in {"put", "update"} /\ Holds(op.cond, NoRow)
    BY <1>4, Zenon DEF Serialization, Inserts, Visible
  <2>2. \A d \in Client \ {c} : tx[d].writes[k] = Unwritten
    BY <1>1, <1>4, Zenon DEF Waits, WrittenByOther, Written
  <2>3. ASSUME NEW d \in Client \ {c} PROVE lock[k] # d
    BY <1>1, <2>1, <2>2, Zenon DEF IInv, Sound, Locked
  <2> QED
    BY <1>1, <2>1, <2>3, Zenon
<1>5. CASE Visible(c, k) /\ (Selects(op) \/ op.kind = "delete")
  <2>1. k \notin x.stale /\ ~LockedByOther(c, k) /\ x.snap[k] # NoRow
    BY <1>1, <1>5, Zenon DEF Waits, Serialization, Visible
  <2>2. Holds(op.cond, x.snap[k])
    <3>1. CASE Selects(op)
      BY <3>1, Zenon DEF Refuses
    <3>2. CASE ~Selects(op)
      BY <3>2, Zenon DEF Selects, Holds
    <3> QED
      BY <3>1, <3>2, Zenon
  <2> QED
    BY <1>1, <1>2, <2>1, <2>2, Zenon DEF LockedByOther
<1>6. \/ op.kind = "put" /\ ~Selects(op)
      \/ Inserts(c, op)
      \/ Visible(c, k) /\ (Selects(op) \/ op.kind = "delete")
  <2>1. CASE Visible(c, k)
    BY <1>1, <2>1, Zenon DEF Selects, Kind
  <2>2. CASE ~Visible(c, k)
    <3>1. x.snap[k] = NoRow /\ op.kind \in {"put", "update"}
      BY <2>2, Zenon DEF Visible, Secured
    <3>2. CASE Selects(op)
      BY <3>1, <3>2, <2>2, Zenon DEF Inserts, Refuses
    <3>3. CASE ~Selects(op)
      BY <3>1, <3>3, Zenon DEF Selects
    <3> QED
      BY <3>2, <3>3, Zenon
  <2> QED
    BY <2>1, <2>2, Zenon
<1> QED
  BY <1>3, <1>4, <1>5, <1>6, Zenon

\* Whether or not it secures its row, its condition is true of the snapshot.
LEMMA PerformHolds ==
  ASSUME NEW c, NEW op, ~Refuses(c, op) PROVE Holds(op.cond, tx[c].snap[op.key])
<1>1. CASE Selects(op)
  BY <1>1, Zenon DEF Refuses
<1>2. CASE ~Selects(op)
  BY <1>2, Zenon DEF Selects, Holds
<1> QED
  BY <1>1, <1>2, Zenon

\* y is x after its item op, which writes w.
Advanced(x, y, op, w) ==
  /\ y.pc = x.pc /\ y.ops = x.ops /\ y.keys = x.keys /\ y.snap = x.snap /\ y.stale = x.stale
  /\ Earlier(y) = Earlier(x) \cup {x.i}
  /\ y.writes[op.key] = w /\ \A k \in Key : k # op.key => y.writes[k] = x.writes[k]

\* What an item that goes ahead finds and does, with the locks l before and m after.
GoesAhead(c, x, d, l, m, op, w) ==
  /\ Holds(op.cond, x.snap[op.key])
  /\ \A k \in Key : k # op.key => m[k] = l[k]
  /\ Secured(x, op) => /\ m[op.key] = c /\ Holds(op.cond, d[op.key])
                       /\ op.kind = "check" => w = Unwritten /\ d[op.key] # NoRow
                       /\ op.kind # "check" => w # Unwritten /\ w = Apply(op.kind, d[op.key])
  /\ ~Secured(x, op) => m[op.key] = l[op.key] /\ w = Unwritten

\* The transaction stays sound.
LEMMA SoundPerform ==
  ASSUME NEW c, NEW x, NEW y, NEW d, NEW l, NEW m, NEW op, NEW w,
         Sound(c, x, d, l), op = x.ops[x.i], op.key \in Key, x.ops # <<>>,
         \A j \in Earlier(x) : x.ops[j].key \in Key /\ x.ops[j].key # op.key,
         GoesAhead(c, x, d, l, m, op, w), Advanced(x, y, op, w)
  PROVE  Sound(c, y, d, m)
<1>1. OneKind(y)
  BY Zenon DEF Sound, OneKind, Advanced
<1>2. Fresh(y, d)
  BY DEF Sound, Fresh, Advanced
<1>3. x.keys = <<>>
  BY Zenon DEF Sound, OneKind
<1>4. x.writes[op.key] = Unwritten
  BY Zenon DEF Sound, ItemsDone
<1>5. Locked(c, y, d, m)
  <2>1. ASSUME NEW k \in Key, k # op.key
        PROVE  /\ y.writes[k] = x.writes[k] /\ m[k] = l[k]
               /\ x.writes[k] # Unwritten => l[k] = c
               /\ l[k] = c => x.writes[k] # Unwritten \/ d[k] # NoRow
    BY <2>1, Zenon DEF Advanced, GoesAhead, Sound, Locked
  <2>2. l[op.key] = c => d[op.key] # NoRow
    BY <1>4, Zenon DEF Sound, Locked
  <2>3. /\ y.writes[op.key] # Unwritten => m[op.key] = c
        /\ m[op.key] = c => y.writes[op.key] # Unwritten \/ d[op.key] # NoRow
    BY <2>2, Zenon DEF Advanced, GoesAhead
  <2>4. y.ops # <<>>
    BY Zenon DEF Advanced
  <2> QED
    BY <2>1, <2>3, <2>4, Zenon DEF Locked
<1>6. y.snap = x.snap /\ y.ops = x.ops /\ Earlier(y) = Earlier(x) \cup {x.i}
  BY Zenon DEF Advanced
<1>7. \A o : Secured(y, o) <=> Secured(x, o)
  BY <1>6, Zenon DEF Secured
<1>8. Performed(c, y, d, m, op)
  <2>1. y.writes[op.key] = w
    BY Zenon DEF Advanced
  <2> QED
    BY <1>6, <1>7, <2>1, Zenon DEF Performed, GoesAhead
<1>9. ASSUME NEW j \in Earlier(x)
      PROVE  Performed(c, y, d, m, x.ops[j])
  <2> DEFINE o == x.ops[j]
  <2>1. o.key \in Key /\ o.key # op.key /\ Performed(c, x, d, l, o)
    BY Zenon DEF Sound, ItemsDone
  <2>2. y.writes[o.key] = x.writes[o.key] /\ m[o.key] = l[o.key]
    BY <2>1, Zenon DEF Advanced, GoesAhead
  <2> QED
    BY <1>6, <1>7, <2>1, <2>2, Zenon DEF Performed
<1>10. ItemsDone(c, y, d, m)
  <2>1. \A j \in Earlier(y) : Performed(c, y, d, m, y.ops[j])
    BY <1>6, <1>8, <1>9, Zenon
  <2>2. ASSUME NEW k \in Key, y.writes[k] # Unwritten
        PROVE  \E j \in Earlier(y) : y.ops[j].key = k
    <3>1. CASE k = op.key
      BY <1>6, <3>1, Zenon
    <3>2. CASE k # op.key
      BY <1>6, <2>2, <3>2 DEF Sound, ItemsDone, Advanced
    <3> QED
      BY <3>1, <3>2, Zenon
  <2> QED
    BY <2>1, <2>2, Zenon DEF ItemsDone
<1>11. KeysRead(y)
  BY <1>3, Zenon DEF KeysRead, Advanced
<1> QED
  BY <1>1, <1>2, <1>5, <1>10, <1>11, Zenon DEF Sound

\* What leaves another client's transaction as it is.
LEMMA KeptSame ==
  ASSUME NEW e \in Client, IInv, tx'[e] = tx[e], db' = db,
         \A k \in Key : lock[k] = e <=> lock'[k] = e
  PROVE  tx'[e] \in Transaction /\ Sound(e, tx'[e], db', lock')
<1>1. tx[e] \in Transaction /\ Sound(e, tx[e], db, lock)
  BY Zenon DEF IInv, Shape
<1>2. Similar(tx[e], tx[e], {})
  BY Zenon DEF Similar
<1> QED
  BY <1>1, <1>2, Kept, OpsAreItems

LEMMA PerformStep ==
  ASSUME IInv, NEW c \in Client, Perform(c)
  PROVE  IInv' /\ reply' = NoReply
<1> DEFINE op == Target(c)
           k == op.key
           none == ~Visible(c, k) /\ op.kind \in {"check", "delete"}
           x == tx[c]
           w == IF none \/ op.kind = "check" THEN Unwritten ELSE Apply(op.kind, x.snap[k])
           y == [x EXCEPT !.i = x.i + 1, !.writes = [x.writes EXCEPT ![op.key] = w]]
<1>1. /\ Shape /\ Unblocked(c) /\ ~Serialization(c, op) /\ ~Refuses(c, op)
      /\ Running(c) /\ x.keys = <<>> /\ Sound(c, x, db, lock) /\ db' = db
  BY Zenon DEF IInv, Perform, Unblocked
<1>2. /\ x \in Transaction /\ x.i \in DOMAIN x.ops /\ op = x.ops[x.i] /\ op.key \in Key
      /\ op.kind \in Kind
  BY <1>1, RunningItem, Zenon DEF Target, Ops
<1>3. /\ tx' = [tx EXCEPT ![c] = y] /\ reply' = NoReply
      /\ lock' = IF none THEN lock ELSE [lock EXCEPT ![k] = c]
  BY <1>2, Zenon DEF Perform, IInv, Shape, Transaction
<1>4. Secured(x, op) <=> ~none
  BY <1>2, Zenon DEF Secured, Visible, Kind
<1>5. Secured(x, op) => /\ lock[k] \in {c, NoClient} /\ Holds(op.cond, db[k])
                        /\ op.kind = "check" => db[k] # NoRow
                        /\ Apply(op.kind, x.snap[k]) = Apply(op.kind, db[k])
  BY <1>1, PerformRow, Zenon
<1>6. Holds(op.cond, x.snap[k])
  BY <1>1, PerformHolds, Zenon
<1>7. Apply(op.kind, x.snap[k]) \in AnyRow
  BY <1>2, ApplyType, Zenon DEF Transaction, Database
<1>8. lock \in [Key -> Client \cup {NoClient}] /\ lock' \in [Key -> Client \cup {NoClient}]
  BY <1>1, <1>2, <1>3, Zenon DEF Shape
<1>9. /\ \A j \in Key : j # k => lock'[j] = lock[j]
      /\ Secured(x, op) => lock'[k] = c
      /\ ~Secured(x, op) => lock' = lock
  BY <1>2, <1>3, <1>4, <1>8, Zenon
<1>10. /\ y \in Transaction
       /\ y.pc = x.pc /\ y.ops = x.ops /\ y.keys = x.keys /\ y.snap = x.snap /\ y.stale = x.stale
       /\ y.i = x.i + 1
       /\ y.writes[k] = w /\ \A j \in Key : j # k => y.writes[j] = x.writes[j]
  <2> DEFINE n == x.i + 1
             ws == [x.writes EXCEPT ![k] = w]
  <2>1. n \in Nat \ {0} /\ x.writes \in [Key -> AnyRow \cup {Unwritten}]
    BY <1>2 DEF Transaction
  <2>2. w \in AnyRow \cup {Unwritten}
    BY <1>7, Zenon
  <2> HIDE DEF w
  <2>3. /\ ws \in [Key -> AnyRow \cup {Unwritten}]
        /\ ws[k] = w /\ \A j \in Key : j # k => ws[j] = x.writes[j]
    BY <1>2, <2>1, <2>2, Zenon
  <2>4. y = [x EXCEPT !.i = n, !.writes = ws]
    BY Zenon
  <2> HIDE DEF n, ws, y, x
  <2>5. /\ y \in Transaction /\ y.i = n /\ y.writes = ws
        /\ y.pc = x.pc /\ y.ops = x.ops /\ y.keys = x.keys /\ y.snap = x.snap /\ y.stale = x.stale
    BY <1>2, <2>1, <2>3, <2>4, Zenon DEF Transaction
  <2> QED
    BY <2>3, <2>5, Zenon DEF n
<1>13. Sound(c, y, db, lock')
  <2>1. ~Secured(x, op) \/ op.kind = "check" => w = Unwritten
    BY <1>4, Zenon
  <2>2. Secured(x, op) /\ op.kind # "check" => w # Unwritten /\ w = Apply(op.kind, db[k])
    BY <1>4, <1>5, <1>7, ParamAssumption, Zenon DEF AnyRow
  <2>3. /\ Earlier(y) = Earlier(x) \cup {x.i} /\ x.ops # <<>>
        /\ \A j \in Earlier(x) : x.ops[j].key \in Key /\ x.ops[j].key # op.key
    <3> HIDE DEF w, y, op
    <3>1. x.ops \in Seq(Items) /\ Valid(x.ops) /\ \A j \in DOMAIN x.ops : x.ops[j].key \in Key
      BY <1>2, OpsAreItems, Zenon
    <3>2. x.i \in Nat
      BY <1>2, Zenon DEF Transaction
    <3>3. Earlier(y) = Earlier(x) \cup {x.i}
      BY <1>2, <1>10, <3>1, <3>2 DEF Earlier
    <3>4. \A j \in Earlier(x) : j \in DOMAIN x.ops /\ j # x.i
      BY <3>1, <3>2 DEF Earlier
    <3> QED
      BY <1>2, <3>1, <3>3, <3>4 DEF Valid
  <2>4. k = op.key
    BY Zenon
  <2> HIDE DEF w, none, op, k, x, y
  <2>5. GoesAhead(c, x, db, lock, lock', op, w)
    BY <1>5, <1>6, <1>9, <2>1, <2>2, <2>4, Zenon DEF GoesAhead
  <2>6. Advanced(x, y, op, w)
    BY <1>10, <2>3, <2>4, Zenon DEF Advanced
  <2> QED
    BY <1>1, <1>2, <2>3, <2>5, <2>6, SoundPerform, Zenon
<1>11. ASSUME NEW e \in Client \ {c}
       PROVE  tx'[e] \in Transaction /\ Sound(e, tx'[e], db', lock')
  <2>1. tx'[e] = tx[e]
    BY <1>3, Zenon DEF IInv, Shape
  <2>2. \A j \in Key : lock[j] = e <=> lock'[j] = e
    <3>1. k \in Key /\ NoClient # e /\ c # e
      BY <1>2, ParamAssumption, Zenon
    <3> HIDE DEF op, k, none, w, x, y
    <3>2. lock[k] # e \/ ~Secured(x, op)
      BY <1>5, <3>1, Zenon
    <3> QED
      BY <1>9, <3>1, <3>2
  <2> QED
    BY <1>1, <2>1, <2>2, KeptSame, Zenon
<1>12. tx' \in [Client -> Transaction] /\ tx'[c] = y
  BY <1>3, <1>10, Zenon DEF IInv, Shape
<1> QED
  BY <1>1, <1>3, <1>8, <1>11, <1>12, <1>13, Zenon DEF IInv, Shape

--------------------------------------------------------------------------------
(* Transactions begin, read and end without changing the database.         *)

\* Whoever writes nothing holds nothing.
LEMMA NothingHeld ==
  ASSUME IInv, NEW c \in Client, Ops(c) = <<>>
  PROVE  (\A k \in Key : lock[k] # c) /\ Released(c) = lock
<1>1. \A k \in Key : lock[k] # c
  BY Zenon DEF IInv, Sound, Locked, Ops
<1> QED
  BY <1>1, Zenon DEF Released, IInv, Shape

LEMMA ReleasedLocks ==
  ASSUME Shape, NEW c \in Client
  PROVE  /\ Released(c) \in [Key -> Client \cup {NoClient}]
         /\ \A k \in Key : Released(c)[k] # c
         /\ \A e \in Client \ {c} : \A k \in Key : lock[k] = e <=> Released(c)[k] = e
  BY ParamAssumption, Zenon DEF Shape, Released

\* The transaction of c is replaced by one that is sound, and nothing else changes.
LEMMA OwnStep ==
  ASSUME IInv, NEW c \in Client, NEW y \in Transaction, tx' = [tx EXCEPT ![c] = y], db' = db,
         lock' \in [Key -> Client \cup {NoClient}], Sound(c, y, db, lock'),
         \A e \in Client \ {c} : \A k \in Key : lock[k] = e <=> lock'[k] = e
  PROVE  IInv'
<1>1. tx' \in [Client -> Transaction] /\ tx'[c] = y /\ \A e \in Client \ {c} : tx'[e] = tx[e]
  BY Zenon DEF IInv, Shape
<1>2. \A e \in Client \ {c} : Sound(e, tx'[e], db', lock')
  BY <1>1, KeptSame, Zenon
<1>3. \A e \in Client : Sound(e, tx'[e], db', lock')
  BY <1>1, <1>2, Zenon
<1> QED
  BY <1>1, <1>3, Zenon DEF IInv, Shape

LEMMA EndStep ==
  ASSUME IInv, NEW c \in Client, tx' = [tx EXCEPT ![c] = Idle], lock' = Released(c), db' = db
  PROVE  IInv'
<1>1. /\ lock' \in [Key -> Client \cup {NoClient}] /\ \A k \in Key : lock'[k] # c
      /\ \A e \in Client \ {c} : \A k \in Key : lock[k] = e <=> lock'[k] = e
  BY ReleasedLocks DEF IInv
<1>2. Sound(c, Idle, db, lock') /\ Idle \in Transaction
  BY <1>1, SoundIdle, IdleShape, Zenon
<1> QED
  BY <1>1, <1>2, OwnStep, Zenon

LEMMA BeginStep ==
  ASSUME IInv, NEW c \in Client, NEW ops, NEW keys, NEW n \in Nat,
         \/ ops \in Writes /\ keys = <<>>
         \/ ops = <<>> /\ keys \in Gets,
         Ops(c) = <<>>, tx' = [tx EXCEPT ![c] = Begun(ops, keys, n)], UNCHANGED <<db, lock>>
  PROVE  IInv'
<1>1. /\ Begun(ops, keys, n) \in Transaction /\ Sound(c, Begun(ops, keys, n), db, lock)
      /\ lock \in [Key -> Client \cup {NoClient}]
  BY NothingHeld, SoundBegun, Zenon DEF IInv, Shape
<1> QED
  BY <1>1, OwnStep, Zenon

LEMMA ReadStep ==
  ASSUME IInv, NEW c \in Client, Read(c)
  PROVE  IInv' /\ reply' = NoReply
<1> DEFINE x == tx[c]
           y == [x EXCEPT !.i = x.i + 1, !.got = Append(x.got, x.snap[x.keys[x.i]])]
<1>1. /\ x \in Transaction /\ Sound(c, x, db, lock) /\ x.keys # <<>>
      /\ lock \in [Key -> Client \cup {NoClient}]
  BY Zenon DEF IInv, Shape, Read
<1>2. x.i <= Len(x.keys)
  <2>1. x.ops = <<>> /\ Len(<<>>) = 0
    BY <1>1, Zenon DEF Sound, OneKind
  <2>2. x.keys \in Seq(Key) /\ x.i \in Nat
    BY <1>1, OpsAreItems, Zenon DEF Transaction
  <2> QED
    BY <2>1, <2>2 DEF Read, Running, Done, Ops
<1>3. y \in Transaction /\ Sound(c, y, db, lock)
  BY <1>1, <1>2, SoundRead, Zenon
<1>4. tx' = [tx EXCEPT ![c] = y] /\ UNCHANGED <<db, lock>> /\ reply' = NoReply
  BY <1>1, Zenon DEF Read, IInv, Shape, Transaction
<1> HIDE DEF y
<1> QED
  BY <1>1, <1>3, <1>4, OwnStep, Zenon

--------------------------------------------------------------------------------
(* The database changes.                                                   *)

LEMMA ChangedSimilar ==
  ASSUME IInv, NEW e \in Client, NEW K \in SUBSET Key, NEW new \in Database
  PROVE  Changed(K, new)[e] \in Transaction /\ Similar(tx[e], Changed(K, new)[e], K)
<1> DEFINE x == tx[e]
           y == Changed(K, new)[e]
           st == x.stale \cup K
           ps == IF x.past = {} THEN {} ELSE x.past \cup {new}
<1>1. x \in Transaction
  BY Zenon DEF IInv, Shape
<1>2. y = IF x.pc # "running" THEN x ELSE [x EXCEPT !.stale = st, !.past = ps]
  BY Zenon DEF Changed
<1>3. /\ st \in SUBSET Key /\ ps \in SUBSET Database /\ x.past \subseteq ps
      /\ x.stale \cup K \subseteq st
  BY <1>1, Zenon DEF Transaction
<1> HIDE DEF x, y, st, ps
<1>4. CASE x.pc # "running"
  BY <1>1, <1>2, <1>4, Zenon DEF Similar, x, y
<1>5. CASE y = [x EXCEPT !.stale = st, !.past = ps]
  <2>1. y \in Transaction
    BY <1>1, <1>3, <1>5, Zenon DEF Transaction
  <2>2. /\ y.pc = x.pc /\ y.ops = x.ops /\ y.keys = x.keys /\ y.i = x.i /\ y.snap = x.snap
        /\ y.writes = x.writes /\ y.got = x.got /\ y.stale = st /\ y.past = ps
    BY <1>1, <1>5, Zenon DEF Transaction
  <2> QED
    BY <1>3, <2>1, <2>2, Zenon DEF Similar, x, y
<1> QED
  BY <1>2, <1>4, <1>5, Zenon

LEMMA KeptChanged ==
  ASSUME IInv, NEW e \in Client, NEW K \in SUBSET Key, NEW new \in Database, NEW m,
         \A k \in Key : k \in K \/ new[k] = db[k],
         \A k \in Key : lock[k] = e => new[k] = db[k],
         \A k \in Key : lock[k] = e <=> m[k] = e
  PROVE  Changed(K, new)[e] \in Transaction /\ Sound(e, Changed(K, new)[e], new, m)
<1>1. tx[e] \in Transaction /\ Sound(e, tx[e], db, lock)
  BY Zenon DEF IInv, Shape
<1> QED
  BY <1>1, ChangedSimilar, Kept, OpsAreItems

\* What a transaction has written belongs to nobody else.
LEMMA WrittenIsOwn ==
  ASSUME IInv, NEW c \in Client, NEW e \in Client, e # c
  PROVE  \A k \in Key : lock[k] = e => k \notin Written(c)
  BY Zenon DEF IInv, Sound, Locked, Written

\* What Commit writes.
Committed(c) == [k \in Key |-> IF k \in Written(c) THEN tx[c].writes[k] ELSE db[k]]

LEMMA CommitStep ==
  ASSUME IInv, NEW c \in Client, Commit(c)
  PROVE  /\ IInv' /\ db' = Committed(c) /\ reply'.by = c
         /\ reply'.tx.keys = <<>> /\ reply'.answer \in {Ok, Error}
<1> DEFINE K == Written(c)
           t == Changed(K, db')
<1>1. /\ db' = Committed(c) /\ lock' = Released(c) /\ tx[c].keys = <<>> /\ tx[c].pc = "running"
      /\ \E answer \in {Ok, Error} : Deliver(c, t, answer)
  BY Zenon DEF Commit, Committed
<1>2. db' \in Database /\ K \in SUBSET Key /\ \A k \in Key : k \in K \/ db'[k] = db[k]
  BY <1>1 DEF Committed, IInv, Shape, Transaction, Written, Database
<1>3. tx' = [t EXCEPT ![c] = Idle] /\ reply'.by = c /\ reply'.tx = t[c] /\ reply'.answer \in {Ok, Error}
  BY <1>1 DEF Deliver
<1>4. t[c].keys = <<>>
  BY <1>1, <1>2, ChangedSimilar, Zenon DEF Similar
<1>5. ASSUME NEW e \in Client, e # c
      PROVE  t[e] \in Transaction /\ Sound(e, t[e], db', lock')
  <2>1. \A k \in Key : lock[k] = e <=> lock'[k] = e
    BY <1>1, <1>5, ReleasedLocks DEF IInv
  <2>2. \A k \in Key : lock[k] = e => db'[k] = db[k]
    BY <1>2, <1>5, WrittenIsOwn, Zenon
  <2> QED
    BY <1>2, <2>1, <2>2, KeptChanged, Zenon
<1>6. /\ DOMAIN t = Client /\ tx' \in [Client -> Transaction] /\ tx'[c] = Idle
      /\ \A e \in Client : e # c => tx'[e] = t[e]
  <2>1. DOMAIN t = Client /\ t = [e \in Client |-> t[e]]
    BY DEF Changed
  <2> HIDE DEF t
  <2> QED
    BY <1>3, <1>5, <2>1, IdleShape
<1>7. Sound(c, Idle, db', lock') /\ lock' \in [Key -> Client \cup {NoClient}]
  BY <1>1, ReleasedLocks, SoundIdle, Zenon DEF IInv
<1>8. \A e \in Client : Sound(e, tx'[e], db', lock')
  BY <1>5, <1>6, <1>7
<1> QED
  BY <1>1, <1>2, <1>3, <1>4, <1>6, <1>7, <1>8 DEF IInv, Shape

LEMMA SingleStep ==
  ASSUME IInv, NEW j \in Key, SingleWrite(j)
  PROVE  IInv' /\ reply' = NoReply
<1>1. PICK r \in Singles : /\ db' = [db EXCEPT ![j] = r]
                           /\ tx' = IF r = NoRow /\ db[j] = NoRow THEN tx ELSE Changed({j}, db')
  BY Zenon DEF SingleWrite
<1>2. /\ db' \in Database /\ lock[j] = NoClient /\ lock' = lock
      /\ \A k \in Key : k \in {j} \/ db'[k] = db[k]
  BY <1>1, ParamAssumption DEF SingleWrite, IInv, Shape, Database, AnyRow
<1>3. CASE r = NoRow /\ db[j] = NoRow
  <2>1. db' = db /\ tx' = tx
    BY <1>1, <1>3, Zenon DEF IInv, Shape, Database
  <2> QED
    BY <1>2, <2>1, Zenon DEF SingleWrite, IInv, Shape
<1>4. CASE tx' = Changed({j}, db')
  <2>1. ASSUME NEW e \in Client
        PROVE  tx'[e] \in Transaction /\ Sound(e, tx'[e], db', lock')
    <3>1. \A k \in Key : lock[k] = e => db'[k] = db[k]
      BY <1>2, ParamAssumption, Zenon
    <3> QED
      BY <1>2, <1>4, <3>1, KeptChanged
  <2>2. tx' \in [Client -> Transaction]
    <3>1. tx' = [e \in Client |-> tx'[e]]
      BY <1>4, Zenon DEF Changed
    <3> QED
      BY <2>1, <3>1
  <2> QED
    BY <1>2, <2>1, <2>2, Zenon DEF SingleWrite, IInv, Shape
<1> QED
  BY <1>1, <1>3, <1>4, Zenon DEF SingleWrite

--------------------------------------------------------------------------------
(* The steps.                                                              *)

LEMMA InitInv == Init => IInv
<1> SUFFICES ASSUME Init PROVE IInv
  BY Zenon
<1>1. db \in Database /\ lock = [k \in Key |-> NoClient] /\ tx = [c \in Client |-> Idle]
  BY ParamAssumption DEF Init, Database, AnyRow, Row
<1>2. \A c \in Client : \A k \in Key : lock[k] # c
  BY <1>1, ParamAssumption
<1>3. \A c \in Client : Sound(c, tx[c], db, lock)
  BY <1>1, <1>2, SoundIdle
<1> QED
  BY <1>1, <1>3, IdleShape DEF IInv, Shape

\* A cancellation whose code is not that of a condition, or is true.
LEMMA CancelStep ==
  ASSUME IInv, NEW c \in Client, NEW code, Cancel(c, code)
  PROVE  /\ IInv' /\ db' = db /\ reply'.tx = tx[c]
         /\ reply'.answer = [status |-> "cancelled", at |-> tx[c].i, code |-> code]
<1>1. /\ tx' = [tx EXCEPT ![c] = Idle] /\ lock' = Released(c) /\ db' = db
      /\ reply'.tx = tx[c]
      /\ reply'.answer = [status |-> "cancelled", at |-> tx[c].i, code |-> code]
  BY Zenon DEF Cancel, Deliver
<1> QED
  BY <1>1, EndStep, Zenon

\* What the answers say, as the step that delivers one leaves them.
Truthful == ReasonIsTrue /\ GetIsConsistent

LEMMA SilentIsTruthful == ASSUME reply' = NoReply \/ reply'.answer = Error PROVE Truthful'
  BY DEF NoReply, Error, Truthful, ReasonIsTrue, GetIsConsistent, Idle

LEMMA RefuseTruthful ==
  ASSUME IInv, NEW c \in Client, Refuse(c)
  PROVE  IInv' /\ db' = db /\ Truthful'
<1> DEFINE x == tx[c]
<1>1. /\ Unblocked(c) /\ Refuses(c, Target(c)) /\ Cancel(c, "ConditionalCheckFailed")
  BY Zenon DEF Refuse
<1>2. /\ IInv' /\ db' = db /\ reply'.tx = x
      /\ reply'.answer = [status |-> "cancelled", at |-> x.i, code |-> "ConditionalCheckFailed"]
  BY <1>1, CancelStep
<1>3. ~Holds(x.ops[x.i].cond, x.snap[x.ops[x.i].key])
  BY <1>1, Zenon DEF Refuses, Target, Ops
<1>4. x \in Transaction /\ x.i \in DOMAIN x.ops
  BY <1>1, RunningItem DEF Unblocked, IInv, Ops
<1>5. ASSUME NEW j \in 1..x.i - 1 PROVE Holds(x.ops[j].cond, x.snap[x.ops[j].key])
  <2>1. x.i \in Nat /\ x.ops \in Seq(Items)
    BY <1>4, OpsAreItems, Zenon DEF Transaction
  <2>2. j \in Earlier(x)
    BY <1>4, <2>1 DEF Earlier
  <2> QED
    BY <2>2, Zenon DEF IInv, Sound, ItemsDone, Performed
<1>6. ReasonIsTrue'
  <2>1. reply'.answer.at = x.i /\ reply'.tx = x
    BY <1>2
  <2> QED
    BY <1>3, <1>5, <2>1, Zenon DEF ReasonIsTrue
<1>7. GetIsConsistent'
  BY <1>2 DEF GetIsConsistent
<1> QED
  BY <1>2, <1>6, <1>7, Zenon DEF Truthful

LEMMA AnswerTruthful ==
  ASSUME IInv, NEW c \in Client, Answer(c)
  PROVE  IInv' /\ db' = db /\ Truthful'
<1> DEFINE x == tx[c]
<1>1. /\ x \in Transaction /\ Sound(c, x, db, lock) /\ x.keys # <<>> /\ Done(c)
      /\ tx' = [tx EXCEPT ![c] = Idle] /\ UNCHANGED <<db, lock>>
      /\ reply'.tx = x /\ reply'.answer = Ok
  BY Zenon DEF Answer, Deliver, IInv, Shape
<1>2. x.ops = <<>>
  BY <1>1, Zenon DEF Sound, OneKind
<1>3. IInv'
  BY <1>1, <1>2, NothingHeld, EndStep, Zenon DEF Ops
<1>4. DOMAIN x.keys \subseteq 1..Len(x.got)
  <2>1. x.keys \in Seq(Key) /\ x.i \in Nat /\ Len(<<>>) = 0
    BY <1>1, OpsAreItems, Zenon DEF Transaction
  <2>2. Len(x.got) = x.i - 1
    BY <1>1, Zenon DEF Sound, KeysRead
  <2> QED
    BY <1>1, <1>2, <2>1, <2>2, SMTT(30) DEF Done, Ops
<1>5. GetIsConsistent'
  <2>1. x.snap \in x.past /\ \A j \in DOMAIN x.keys : x.got[j] = x.snap[x.keys[j]]
    BY <1>1, <1>4, Zenon DEF Sound, KeysRead
  <2> QED
    BY <1>1, <2>1 DEF GetIsConsistent
<1>6. ReasonIsTrue'
  BY <1>1 DEF ReasonIsTrue, Ok
<1> QED
  BY <1>1, <1>3, <1>5, <1>6 DEF Truthful

\* Requests are begun, cancelled for other reasons, and retried or failed.
LEMMA BeginsTruthful ==
  ASSUME IInv, NEW c \in Client, TransactWriteItems(c) \/ TransactGetItems(c)
  PROVE  IInv' /\ db' = db /\ Truthful'
<1>1. Ops(c) = <<>> /\ reply' = NoReply /\ UNCHANGED <<db, lock>>
  BY Zenon DEF TransactWriteItems, TransactGetItems, IInv, Sound, OneKind, Ops
<1>2. \E ops, keys : /\ (ops \in Writes /\ keys = <<>>) \/ (ops = <<>> /\ keys \in Gets)
                     /\ tx' = [tx EXCEPT ![c] = Begun(ops, keys, 0)]
  BY Zenon DEF TransactWriteItems, TransactGetItems
<1>3. IInv'
  BY <1>1, <1>2, BeginStep, Zenon
<1> QED
  BY <1>1, <1>3, SilentIsTruthful

LEMMA CancelTruthful ==
  ASSUME IInv, NEW c \in Client, NEW code, code # "ConditionalCheckFailed", Cancel(c, code)
  PROVE  IInv' /\ db' = db /\ Truthful'
<1>1. /\ IInv' /\ db' = db
      /\ reply'.answer = [status |-> "cancelled", at |-> tx[c].i, code |-> code]
  BY CancelStep
<1> QED
  BY <1>1 DEF Truthful, ReasonIsTrue, GetIsConsistent

LEMMA TransientTruthful ==
  ASSUME IInv, NEW c \in Client, Transient(c)
  PROVE  IInv' /\ db' = db /\ Truthful'
<1>1. CASE tx[c].keys = <<>> /\ ~Done(c) /\ Cancel(c, "InternalServerError")
  BY <1>1, CancelTruthful, Zenon
<1>2. CASE Deliver(c, tx, Error) /\ lock' = Released(c) /\ db' = db
  <2>1. tx' = [tx EXCEPT ![c] = Idle] /\ reply'.answer = Error
    BY <1>2, Zenon DEF Deliver
  <2> QED
    BY <1>2, <2>1, EndStep, SilentIsTruthful, Zenon
<1>3. CASE tx[c].keys # <<>>
  <2>1. tx[c].ops = <<>> /\ Ops(c) = <<>> /\ tx[c].keys \in Gets /\ tx[c].attempt + 1 \in Nat
    BY <1>3 DEF IInv, Sound, OneKind, Shape, Transaction, Ops
  <2>2. Released(c) = lock
    BY <2>1, NothingHeld, Zenon
  <2>3. CASE Deliver(c, tx, Error) /\ UNCHANGED <<db, lock>>
    BY <1>2, <2>2, <2>3
  <2>4. CASE /\ tx' = [tx EXCEPT ![c] = Begun(<<>>, @.keys, @.attempt + 1)] /\ reply' = NoReply
             /\ UNCHANGED <<db, lock>>
    <3>1. tx' = [tx EXCEPT ![c] = Begun(<<>>, tx[c].keys, tx[c].attempt + 1)]
      BY <2>4, SMTT(30) DEF IInv, Shape
    <3> QED
      BY <2>1, <2>4, <3>1, BeginStep, SilentIsTruthful, Zenon
  <2> QED
    BY <1>3, <2>3, <2>4 DEF Transient
<1> QED
  BY <1>1, <1>2, <1>3 DEF Transient

LEMMA CommitTruthful ==
  ASSUME IInv, NEW c \in Client, Commit(c)
  PROVE  IInv' /\ Truthful'
<1>1. IInv' /\ reply'.tx.keys = <<>> /\ reply'.answer \in {Ok, Error}
  BY CommitStep, Zenon
<1> QED
  BY <1>1 DEF Truthful, ReasonIsTrue, GetIsConsistent, Ok, Error

LEMMA NextInv == IInv /\ Truthful /\ [Next]_vars => IInv' /\ Truthful'
<1> SUFFICES ASSUME IInv, Truthful, [Next]_vars PROVE IInv' /\ Truthful'
  BY Zenon
<1>1. ASSUME NEW c \in Client, TransactWriteItems(c) \/ TransactGetItems(c)
      PROVE  IInv' /\ Truthful'
  BY <1>1, BeginsTruthful
<1>2. ASSUME NEW c \in Client, Conflict(c) \/ Deadlock(c)
      PROVE  IInv' /\ Truthful'
  BY <1>2, CancelTruthful DEF Conflict, Deadlock
<1>3. ASSUME NEW c \in Client, Refuse(c) \/ Answer(c) \/ Transient(c)
      PROVE  IInv' /\ Truthful'
  BY <1>3, RefuseTruthful, AnswerTruthful, TransientTruthful
<1>4. ASSUME NEW c \in Client, Perform(c) \/ Read(c)
      PROVE  IInv' /\ Truthful'
  BY <1>4, PerformStep, ReadStep, SilentIsTruthful, Zenon
<1>5. ASSUME NEW c \in Client, Commit(c)
      PROVE  IInv' /\ Truthful'
  BY <1>5, CommitTruthful, Zenon
<1>6. ASSUME NEW k \in Key, SingleWrite(k)
      PROVE  IInv' /\ Truthful'
  BY <1>6, SingleStep, SilentIsTruthful, Zenon
<1>7. CASE UNCHANGED vars
  BY <1>7, Zenon DEF vars, IInv, Shape, Truthful, ReasonIsTrue, GetIsConsistent
<1> QED
  BY <1>1, <1>2, <1>3, <1>4, <1>5, <1>6, <1>7 DEF Next, Work

\* The invariant holds in every reachable state.
LEMMA Inductive == Spec => [](IInv /\ Truthful)
<1>1. Init => Truthful
  BY DEF Init, NoReply, Error, Truthful, ReasonIsTrue, GetIsConsistent, Idle
<1> QED
  BY <1>1, InitInv, NextInv, PTL DEF Spec

--------------------------------------------------------------------------------
(***************************************************************************)
(* The CancellationReasons array is true: a ConditionalCheckFailed slot is *)
(* that of the first item whose condition is false of the snapshot the     *)
(* transaction reads (transact_write.rs).                                  *)
(***************************************************************************)
THEOREM ReasonsAreTrue == Spec => []ReasonIsTrue
  BY Inductive, PTL DEF Truthful

(***************************************************************************)
(* TransactGetItems answers with rows that were in the database together   *)
(* at one moment of the request, after any number of retries               *)
(* (transact_get.rs).                                                      *)
(***************************************************************************)
THEOREM GetsAreConsistent == Spec => []GetIsConsistent
  BY Inductive, PTL DEF Truthful

\* The rows a commit leaves, item by item and elsewhere.
LEMMA CommitSerial ==
  ASSUME IInv, NEW c \in Client, Commit(c)
  PROVE  /\ Done(c) /\ reply'.answer.status \in {"ok", "error"} /\ reply'.by = c
         /\ \A i \in DOMAIN Ops(c) :
              LET op == Ops(c)[i]
              IN  Protected(c, op) => /\ Holds(op.cond, db[op.key])
                                      /\ db'[op.key] = Apply(op.kind, db[op.key])
         /\ \A k \in Key : (\A i \in DOMAIN Ops(c) : Ops(c)[i].key # k) => db'[k] = db[k]
<1> DEFINE x == tx[c]
<1>1. x \in Transaction /\ Sound(c, x, db, lock) /\ Done(c) /\ x.keys = <<>> /\ db \in Database
  BY Zenon DEF IInv, Shape, Commit
<1>2. db' = Committed(c) /\ reply'.by = c /\ reply'.answer.status \in {"ok", "error"}
  BY CommitStep DEF Ok, Error
<1>3. /\ x.ops \in Seq(Items) /\ x.i \in Nat
      /\ \A j \in DOMAIN x.ops : x.ops[j].key \in Key /\ x.ops[j].kind \in Kind
  BY <1>1, OpsAreItems, Zenon DEF Transaction, Items
<1>4. Earlier(x) = DOMAIN x.ops
  <2>1. Len(<<>>) = 0
    BY Zenon
  <2> QED
    BY <1>1, <1>3, <2>1 DEF Earlier, Done, Ops
<1>5. \A k \in Key : db'[k] = IF x.writes[k] # Unwritten THEN x.writes[k] ELSE db[k]
  BY <1>2, Zenon DEF Committed, Written
<1>6. ASSUME NEW i \in DOMAIN x.ops, Protected(c, x.ops[i])
      PROVE  /\ Holds(x.ops[i].cond, db[x.ops[i].key])
             /\ db'[x.ops[i].key] = Apply(x.ops[i].kind, db[x.ops[i].key])
  <2> DEFINE op == x.ops[i]
  <2>1. Performed(c, x, db, lock, op) /\ Secured(x, op)
    BY <1>1, <1>4, <1>6, Zenon DEF Sound, ItemsDone, Secured, Protected
  <2>2. op.key \in Key /\ op.kind \in Kind
    BY <1>3, Zenon
  <2> HIDE DEF op
  <2>3. Apply(op.kind, db[op.key]) \in AnyRow
    BY <1>1, <2>2, ApplyType, Zenon DEF Database
  <2>4. CASE op.kind = "check"
    <3>1. x.writes[op.key] = Unwritten /\ Holds(op.cond, db[op.key])
      BY <2>1, <2>4, Zenon DEF Performed
    <3>2. Apply(op.kind, db[op.key]) = db[op.key]
      BY <2>4, Zenon DEF Apply
    <3> QED
      BY <1>5, <2>2, <3>1, <3>2, Zenon DEF op
  <2>5. CASE op.kind # "check"
    <3>1. x.writes[op.key] = Apply(op.kind, db[op.key]) /\ Holds(op.cond, db[op.key])
      BY <2>1, <2>5, Zenon DEF Performed
    <3>2. x.writes[op.key] # Unwritten
      BY <2>3, <3>1, ParamAssumption, Zenon DEF AnyRow
    <3> QED
      BY <1>5, <2>2, <3>1, <3>2, Zenon DEF op
  <2> QED
    BY <2>4, <2>5, Zenon
<1>7. ASSUME NEW k \in Key, \A i \in DOMAIN x.ops : x.ops[i].key # k
      PROVE  db'[k] = db[k]
  BY <1>1, <1>4, <1>5, <1>7, Zenon DEF Sound, ItemsDone
<1> QED
  BY <1>1, <1>2, <1>6, <1>7, Zenon DEF Ops

(***************************************************************************)
(* A TransactWriteItems request changes the database in one step, to what  *)
(* its items make of the rows current at that moment, their conditions     *)
(* being true of those rows; items that found no row and wrote none are    *)
(* left out (transact_write.rs and the *_inside_tx helpers).               *)
(***************************************************************************)
THEOREM CommitsAreSerial == Spec => CommitIsSerial
<1> DEFINE A ==
      \A c \in Client :
        db' # db /\ reply'.by = c =>
          /\ Done(c) /\ reply'.answer.status \in {"ok", "error"}
          /\ \A i \in DOMAIN Ops(c) :
               LET op == Ops(c)[i]
               IN  Protected(c, op) => /\ Holds(op.cond, db[op.key])
                                       /\ db'[op.key] = Apply(op.kind, db[op.key])
          /\ \A k \in Key : (\A i \in DOMAIN Ops(c) : Ops(c)[i].key # k) => db'[k] = db[k]
<1>1. IInv /\ [Next]_vars => [A]_vars
  <2> SUFFICES ASSUME IInv, Next PROVE A
    BY Zenon
  <2>1. ASSUME NEW c \in Client, Commit(c) PROVE A
    BY <2>1, CommitSerial
  <2>2. CASE db' = db
    BY <2>2, Zenon
  <2>3. CASE reply' = NoReply
    BY <2>3, ParamAssumption, Zenon DEF NoReply
  <2>4. ASSUME NEW c \in Client, TransactWriteItems(c) \/ TransactGetItems(c) \/ Transient(c)
        PROVE  db' = db
    BY <2>4, BeginsTruthful, TransientTruthful
  <2>5. ASSUME NEW c \in Client, Work(c), ~Commit(c)
        PROVE  db' = db
    BY <2>5, Zenon DEF Work, Conflict, Refuse, Perform, Deadlock, Read, Answer, Cancel
  <2>6. ASSUME NEW k \in Key, SingleWrite(k)
        PROVE  reply' = NoReply
    BY <2>6, Zenon DEF SingleWrite
  <2> HIDE DEF A
  <2> QED
    BY <2>1, <2>2, <2>3, <2>4, <2>5, <2>6 DEF Next
<1> QED
  BY <1>1, Inductive, PTL DEF CommitIsSerial, Spec
================================================================================
