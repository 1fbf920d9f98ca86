------------------------------ MODULE BatchProofs ------------------------------
(***************************************************************************)
(* Proofs about Batch for any number of clients, tables, keys, batches,    *)
(* retries and faults: an answered batch can be relied on, no failure      *)
(* splits a table, and a late COMMIT undoes nothing newer.                 *)
(***************************************************************************)
EXTENDS Batch, TLAPS

--------------------------------------------------------------------------------
(* The inductive invariant.                                                *)

Pc == {"idle", "next", "puts", "deletes", "read"}
WriteSet == [Col -> Row \cup {Unwritten}]
Item == [table : Table, col : Col, row : Row]
Request == [pc : Pc, kind : {"get", "write"}, id : Id,
            batch : Writes \cup Gets \cup {<<>>}, todo : SUBSET Table,
            touched : SUBSET (Table \X Col), items : SUBSET Item,
            table : Table \cup {"none"}, attempt : Nat, at : Nat \ {0},
            targets : SUBSET Col, writes : WriteSet]
Orphan == [req : Request, holds : SUBSET Col, lands : BOOLEAN, last : Id]
Tables == [Table -> [Col -> Row]]

Shape ==
  /\ rows \in Tables /\ req \in [Client -> Request] /\ orphans \subseteq Orphan
  /\ requests \in Id

InTransaction(r) == r.pc \in {"puts", "deletes"}
At(op) == Column[KeyOf("write", op)]

\* The handler has accepted the batch and is at one of its tables.
Accepted(r) ==
  /\ r.batch \in Writes \cup Gets
  /\ DOMAIN r.batch \subseteq Table /\ r.todo \subseteq DOMAIN r.batch
  /\ \A t \in DOMAIN r.batch : \A i \in DOMAIN r.batch[t] :
       IF r.kind = "get" THEN GetKeyed(r.batch[t][i]) ELSE WriteKeyed(r.batch[t][i])
  /\ r.pc # "next" => r.table \in DOMAIN r.batch \ r.todo
  /\ InTransaction(r) => r.kind = "write"
  /\ r.pc = "read" => r.kind = "get"

\* A transaction has written only rows its table's part of the batch names.
Named(r) ==
  InTransaction(r) =>
    \A v \in Written(r.writes) :
      /\ r.writes[v] \in {r.id, NoRow}
      /\ \E i \in DOMAIN Ops(r) : At(Ops(r)[i]) = v

\* The upsert has written the Puts it has passed.
PutsWritten(r) ==
  r.pc = "puts" =>
    \A i \in DOMAIN Ops(r) : i < r.at /\ IsPut(Ops(r)[i]) =>
      r.writes[At(Ops(r)[i])] = r.id

\* The DELETE has removed its rows, still has to, or found none.
DeletesWritten(r, d) ==
  r.pc = "deletes" =>
    /\ r.targets \subseteq Deleted(r)
    /\ \A i \in DOMAIN Ops(r) : IsPut(Ops(r)[i]) =>
         r.writes[At(Ops(r)[i])] = r.id \/ At(Ops(r)[i]) \in Deleted(r)
    /\ \A v \in Deleted(r) :
         \/ v \in r.targets
         \/ r.writes[v] = NoRow
         \/ r.writes[v] = Unwritten /\ (d[r.table][v] = NoRow \/ <<r.table, v>> \in r.touched)

\* The tables a request is done with, and what it may say of them.
Finished(r) == DOMAIN r.batch \ (r.todo \cup (IF r.pc = "next" THEN {} ELSE {r.table}))

Got(r, t, v) == {item.row : item \in {x \in r.items : x.table = t /\ x.col = v}}
Told(r, d, t) ==
  \A i \in DOMAIN r.batch[t] :
    LET v == Column[KeyOf(r.kind, r.batch[t][i])]
    IN  \/ <<t, v>> \in r.touched
        \/ r.kind = "write" /\ d[t][v] = Leaves(r, r.batch[t][i])
        \/ r.kind = "get" /\ Got(r, t, v) = {d[t][v]} \ {NoRow}

Sound(r, d) ==
  /\ Accepted(r) /\ Named(r) /\ PutsWritten(r) /\ DeletesWritten(r, d)
  /\ \A x \in r.items : x.table \in Finished(r)
  /\ DistinctItems(r) => \A t \in Finished(r) : Told(r, d, t)

\* A transaction left behind keeps its rows from everybody.
Left(o, d) ==
  /\ Sound(o.req, d) /\ InTransaction(o.req) /\ o.holds = Written(o.req.writes)
  /\ o.lands => o.req.pc = "deletes" /\ o.req.targets = {}
  /\ \A v \in o.holds : d[o.req.table][v] \in 0..o.last \cup {NoRow}

\* No two transactions have written the same row.
Apart(r, s) ==
  InTransaction(r) /\ InTransaction(s) /\ r.table = s.table =>
    Written(r.writes) \cap Written(s.writes) = {}
Disjoint ==
  /\ \A c, d \in Client : c # d => Apart(req[c], req[d])
  /\ \A c \in Client, o \in orphans : Apart(req[c], o.req)
  /\ \A o, p \in orphans : o # p => Apart(o.req, p.req)

\* No row is from a request still to come.
Past ==
  /\ \A t \in Table, v \in Col : rows[t][v] \in 0..requests \cup {NoRow}
  /\ \A c \in Client : Active(c) => req[c].id <= requests
  /\ \A o \in orphans : o.req.id <= requests

IInv ==
  /\ Shape /\ Disjoint /\ Past
  /\ \A c \in Client : Active(c) => Sound(req[c], rows)
  /\ \A o \in orphans : Left(o, rows)

--------------------------------------------------------------------------------
(* Batches, and transactions that commit.                                  *)

LEMMA NoRowIsRow == NoRow \in Row /\ NoRow # Unwritten /\ Unwritten \notin Row
  BY ParamAssumption, Zenon DEF Row, Id

LEMMA CleanIs == Clean \in WriteSet /\ Written(Clean) = {}
  BY Zenon DEF Clean, WriteSet, Written

\* The places an accepted batch names are rows.
LEMMA PlacesAreRows ==
  ASSUME NEW r, Accepted(r), NEW t \in DOMAIN r.batch, NEW i \in DOMAIN r.batch[t]
  PROVE  /\ Column[KeyOf(r.kind, r.batch[t][i])] \in Col
         /\ r.kind = "write" => /\ At(r.batch[t][i]) \in Col
                                /\ IsPut(r.batch[t][i]) # IsDelete(r.batch[t][i])
<1> DEFINE op == r.batch[t][i]
<1>1. IF r.kind = "get" THEN GetKeyed(op) ELSE WriteKeyed(op)
  BY Zenon DEF Accepted
<1>2. \A k \in Key : Column[k] \in Col
  BY ParamAssumption, Zenon
<1>3. CASE r.kind = "get"
  BY <1>1, <1>2, <1>3, Zenon DEF GetKeyed
<1>4. CASE r.kind # "get"
  BY <1>1, <1>2, <1>4, Zenon DEF WriteKeyed, KeyOf, At
<1> QED
  BY <1>3, <1>4, Zenon

LEMMA DeletedAreRows ==
  ASSUME NEW r, Accepted(r), InTransaction(r)
  PROVE  /\ Deleted(r) \subseteq Col
         /\ \A i \in DOMAIN Ops(r) : /\ At(Ops(r)[i]) \in Col
                                     /\ IsDelete(Ops(r)[i]) => At(Ops(r)[i]) \in Deleted(r)
         /\ \A v \in Deleted(r) : \E i \in DOMAIN Ops(r) :
              IsDelete(Ops(r)[i]) /\ At(Ops(r)[i]) = v
<1>1. r.table \in DOMAIN r.batch /\ r.kind = "write"
  BY Zenon DEF Accepted, InTransaction
<1>2. \A i \in DOMAIN Ops(r) : /\ At(Ops(r)[i]) \in Col
                               /\ IsPut(Ops(r)[i]) # IsDelete(Ops(r)[i])
  BY <1>1, PlacesAreRows, Zenon DEF Ops
<1>3. \A i \in DOMAIN Ops(r) : IsDelete(Ops(r)[i]) =>
        At(Ops(r)[i]) = Column[Ops(r)[i].delete]
  BY <1>2, Zenon DEF At, KeyOf
<1> QED
  BY <1>2, <1>3, Zenon DEF Deleted

\* The tables once the writes w to table t are committed: After, of any tables.
Land(d, t, w) ==
  [d EXCEPT ![t] = [v \in Col |-> IF w[v] = Unwritten THEN @[v] ELSE w[v]]]

LEMMA LandIs ==
  ASSUME NEW d \in Tables, NEW t \in Table, NEW w \in WriteSet
  PROVE  /\ Land(d, t, w) \in Tables
         /\ \A v \in Written(w) : Land(d, t, w)[t][v] = w[v]
         /\ \A v \in Col \ Written(w) : Land(d, t, w)[t][v] = d[t][v]
         /\ \A u \in Table \ {t} : Land(d, t, w)[u] = d[u]
<1> DEFINE part == [v \in Col |-> IF w[v] = Unwritten THEN d[t][v] ELSE w[v]]
<1>1. part \in [Col -> Row]
  BY Zenon DEF Tables, WriteSet
<1>2. Land(d, t, w) = [d EXCEPT ![t] = part]
  BY Zenon DEF Land
<1>3. \A v \in Written(w) : part[v] = w[v]
  BY Zenon DEF Written
<1>4. \A v \in Col \ Written(w) : part[v] = d[t][v]
  BY Zenon DEF Written
<1> HIDE DEF part
<1>5. /\ Land(d, t, w) \in Tables /\ Land(d, t, w)[t] = part
      /\ \A u \in Table \ {t} : Land(d, t, w)[u] = d[u]
  BY <1>1, <1>2, Zenon DEF Tables
<1> QED
  BY <1>3, <1>4, <1>5, Zenon


\* The same request at the same point, but for what it has seen of others.
Similar(y, r) ==
  /\ y.pc = r.pc /\ y.kind = r.kind /\ y.id = r.id /\ y.batch = r.batch
  /\ y.todo = r.todo /\ y.items = r.items /\ y.table = r.table /\ y.at = r.at
  /\ y.writes = r.writes

LEMMA SimilarIs ==
  ASSUME NEW y, NEW r, Similar(y, r)
  PROVE  /\ y.batch = r.batch /\ y.kind = r.kind /\ y.items = r.items
         /\ Ops(y) = Ops(r) /\ Deleted(y) = Deleted(r) /\ Finished(y) = Finished(r)
         /\ InTransaction(y) = InTransaction(r)
         /\ Accepted(r) => Accepted(y)
         /\ Named(r) => Named(y)
         /\ PutsWritten(r) => PutsWritten(y)
         /\ DistinctItems(y) => DistinctItems(r)
         /\ \A t, v : Got(y, t, v) = Got(r, t, v)
         /\ \A op : Leaves(y, op) = Leaves(r, op)
<1>1. /\ Ops(y) = Ops(r) /\ InTransaction(y) = InTransaction(r) /\ Finished(y) = Finished(r)
      /\ y.batch = r.batch /\ y.kind = r.kind /\ y.items = r.items
      /\ \A t, v : Got(y, t, v) = Got(r, t, v)
      /\ \A op : Leaves(y, op) = Leaves(r, op)
  BY Zenon DEF Similar, Ops, InTransaction, Finished, Got, Leaves
<1>2. Deleted(y) = Deleted(r) /\ (DistinctItems(y) => DistinctItems(r))
  BY <1>1, Zenon DEF Deleted, DistinctItems
<1>3. Accepted(r) => Accepted(y)
  BY <1>1, Zenon DEF Similar, Accepted
<1>4. Named(r) => Named(y)
  BY <1>1, Zenon DEF Similar, Named
<1>5. PutsWritten(r) => PutsWritten(y)
  BY <1>1, Zenon DEF Similar, PutsWritten
<1> QED
  BY <1>1, <1>2, <1>3, <1>4, <1>5, Zenon

\* A commit by someone else leaves a request sound.
LEMMA OthersCommit ==
  ASSUME NEW r \in Request, NEW y \in Request, Similar(y, r),
         NEW d \in Tables, NEW t \in Table, NEW w \in WriteSet, Sound(r, d),
         InTransaction(r) /\ r.table = t => Written(r.writes) \cap Written(w) = {},
         y.touched = r.touched \cup {<<t, v>> : v \in Written(w)},
         y.targets \subseteq r.targets,
         \A v \in r.targets \ y.targets : r.table = t /\ v \in Written(w)
  PROVE  Sound(y, Land(d, t, w))
<1> DEFINE e == Land(d, t, w)
<1>1. \A u \in Table, v \in Col : e[u][v] = d[u][v] \/ <<u, v>> \in y.touched
  BY LandIs
<1>2. r.touched \subseteq y.touched
  BY Zenon
<1>3. Accepted(r) /\ Accepted(y) /\ Named(y) /\ PutsWritten(y)
  BY SimilarIs, Zenon DEF Sound
<1> HIDE DEF e
<1>4. DeletesWritten(y, e)
  <2> SUFFICES ASSUME r.pc = "deletes" PROVE DeletesWritten(y, e)
    BY Zenon DEF DeletesWritten, Similar
  <2>1. /\ InTransaction(r) /\ r.table \in Table /\ Deleted(r) \subseteq Col
        /\ Deleted(y) = Deleted(r) /\ Ops(y) = Ops(r)
        /\ y.table = r.table /\ y.writes = r.writes /\ y.id = r.id
    <3>1. InTransaction(r) /\ y.table = r.table /\ y.writes = r.writes /\ y.id = r.id
      BY Zenon DEF InTransaction, Similar
    <3>2. r.table \in Table
      BY <1>3 DEF Accepted
    <3> QED
      BY <1>3, <3>1, <3>2, SimilarIs, DeletedAreRows, Zenon
  <2>2. DeletesWritten(r, d)
    BY Zenon DEF Sound
  <2>3. ASSUME NEW v \in Deleted(r)
        PROVE  \/ v \in y.targets
               \/ r.writes[v] = NoRow
               \/ r.writes[v] = Unwritten /\ (e[r.table][v] = NoRow \/ <<r.table, v>> \in y.touched)
    <3>1. CASE v \in r.targets \ y.targets
      <4>1. v \in Written(w) /\ r.table = t /\ v \in Col
        BY <3>1, Zenon DEF Written
      <4>2. v \notin Written(r.writes) /\ <<r.table, v>> \in y.touched
        BY <2>1, <4>1, Zenon
      <4> QED
        BY <4>1, <4>2, Zenon DEF Written
    <3>2. CASE v \notin r.targets
      <4>1. \/ r.writes[v] = NoRow
            \/ r.writes[v] = Unwritten /\ (d[r.table][v] = NoRow \/ <<r.table, v>> \in r.touched)
        BY <2>2, <3>2, Zenon DEF DeletesWritten
      <4>2. e[r.table][v] = d[r.table][v] \/ <<r.table, v>> \in y.touched
        BY <1>1, <2>1, Zenon
      <4> QED
        BY <1>2, <4>1, <4>2, Zenon
    <3> QED
      BY <3>1, <3>2, Zenon
  <2>4. /\ y.targets \subseteq Deleted(r)
        /\ \A i \in DOMAIN Ops(r) : IsPut(Ops(r)[i]) =>
             r.writes[At(Ops(r)[i])] = r.id \/ At(Ops(r)[i]) \in Deleted(r)
    BY <2>2, Zenon DEF DeletesWritten
  <2> QED
    BY <2>1, <2>3, <2>4, Zenon DEF DeletesWritten
<1>5. \A x \in y.items : x.table \in Finished(y)
  BY SimilarIs, Zenon DEF Sound
<1>6. ASSUME DistinctItems(y), NEW u \in Finished(y) PROVE Told(y, e, u)
  <2>1. u \in Finished(r) /\ DistinctItems(r) /\ y.batch = r.batch /\ y.kind = r.kind
    BY <1>6, SimilarIs, Zenon
  <2>2. Told(r, d, u)
    BY <2>1, Zenon DEF Sound
  <2>3. u \in DOMAIN r.batch /\ u \in Table
    BY <1>3, <2>1, Zenon DEF Finished, Accepted
  <2> SUFFICES ASSUME NEW i \in DOMAIN r.batch[u],
                      <<u, Column[KeyOf(r.kind, r.batch[u][i])]>> \notin y.touched
               PROVE  LET v == Column[KeyOf(r.kind, r.batch[u][i])]
                      IN  \/ r.kind = "write" /\ e[u][v] = Leaves(y, r.batch[u][i])
                          \/ r.kind = "get" /\ Got(y, u, v) = {e[u][v]} \ {NoRow}
    BY <2>1, Zenon DEF Told
  <2> DEFINE v == Column[KeyOf(r.kind, r.batch[u][i])]
  <2>4. v \in Col
    BY <1>3, <2>3, PlacesAreRows, Zenon
  <2>5. e[u][v] = d[u][v]
    BY <1>1, <2>3, <2>4, Zenon
  <2>6. \/ r.kind = "write" /\ d[u][v] = Leaves(r, r.batch[u][i])
        \/ r.kind = "get" /\ Got(r, u, v) = {d[u][v]} \ {NoRow}
    BY <1>2, <2>2, Zenon DEF Told
  <2>7. Leaves(y, r.batch[u][i]) = Leaves(r, r.batch[u][i]) /\ Got(y, u, v) = Got(r, u, v)
    BY SimilarIs
  <2> QED
    BY <2>5, <2>6, <2>7, Zenon
<1> QED
  BY <1>3, <1>4, <1>5, <1>6, Zenon DEF Sound, e

LEMMA ApartSwaps == ASSUME NEW r, NEW s, Apart(r, s) PROVE Apart(s, r)
  BY Zenon DEF Apart

LEMMA SimilarApart ==
  ASSUME NEW y, NEW r, NEW z, NEW s, Similar(y, r), Similar(z, s), Apart(r, s)
  PROVE  Apart(y, z)
  BY Zenon DEF Similar, Apart, InTransaction

\* A request without a transaction, or with one that has not written yet.
LEMMA ClearApart ==
  ASSUME NEW y, NEW z, InTransaction(y) => Written(y.writes) = {}
  PROVE  Apart(y, z) /\ Apart(z, y)
  BY Zenon DEF Apart

LEMMA TouchedIs ==
  ASSUME NEW r \in Request, NEW t \in Table, NEW w \in WriteSet
  PROVE  /\ Touched(r, t, w) \in Request /\ Similar(Touched(r, t, w), r)
         /\ Touched(r, t, w).touched = r.touched \cup {<<t, v>> : v \in Written(w)}
         /\ Touched(r, t, w).targets = r.targets
<1> DEFINE T == r.touched \cup {<<t, v>> : v \in Written(w)}
<1>1. T \in SUBSET (Table \X Col)
  BY DEF Request, Written
<1>2. Touched(r, t, w) = [r EXCEPT !.touched = T]
  BY Zenon DEF Touched
<1> HIDE DEF T
<1>3. /\ Touched(r, t, w) \in Request /\ Touched(r, t, w).touched = T
      /\ Touched(r, t, w).targets = r.targets
  BY <1>1, <1>2 DEF Request
<1>4. Similar(Touched(r, t, w), r)
  BY <1>2, Zenon DEF Request, Similar
<1> QED
  BY <1>3, <1>4, Zenon DEF T

\* What a commit does to the requests of the clients D.
LEMMA ChangedIs ==
  ASSUME Shape, NEW D \in SUBSET Client, NEW t \in Table, NEW w \in WriteSet, NEW c \in Client
  PROVE  LET y == Changed(D, t, w)[c]
             r == req[c]
         IN  /\ y \in Request /\ Similar(y, r)
             /\ Active(c) /\ c \in D =>
                  /\ y.touched = r.touched \cup {<<t, v>> : v \in Written(w)}
                  /\ y.targets \subseteq r.targets
                  /\ \A v \in r.targets \ y.targets : r.table = t /\ v \in Written(w)
<1> DEFINE y == Changed(D, t, w)[c]
           r == req[c]
           T == Touched(r, t, w)
           S == {v \in r.targets : w[v] # NoRow}
<1>1. r \in Request
  BY Zenon DEF Shape
<1>2. /\ T \in Request /\ Similar(T, r) /\ T.targets = r.targets
      /\ T.touched = r.touched \cup {<<t, v>> : v \in Written(w)}
  BY <1>1, TouchedIs
<1>3. CASE ~Active(c) \/ c \notin D
  <2>1. y = r
    BY <1>3, Zenon DEF Changed
  <2> QED
    BY <1>1, <1>3, <2>1, Zenon DEF Similar
<1>4. CASE Active(c) /\ c \in D /\ ~(r.pc = "deletes" /\ r.table = t)
  <2>1. y = T
    BY <1>4, Zenon DEF Changed
  <2> QED
    BY <1>2, <2>1, Zenon
<1>5. CASE Active(c) /\ c \in D /\ r.pc = "deletes" /\ r.table = t
  <2>1. y = [T EXCEPT !.targets = {v \in T.targets : w[v] # NoRow}]
    BY <1>5, Zenon DEF Changed
  <2> HIDE DEF T, y, r
  <2>2. S \in SUBSET Col /\ \A v \in r.targets \ S : v \in Written(w)
    BY <1>1, NoRowIsRow, Zenon DEF Request, Written
  <2>3. y = [T EXCEPT !.targets = S]
    BY <1>2, <2>1, Zenon
  <2> HIDE DEF S
  <2>4. y \in Request /\ y.targets = S /\ y.touched = T.touched /\ Similar(y, T)
    BY <1>2, <2>2, <2>3, Zenon DEF Request, Similar
  <2>5. Similar(y, r)
    BY <1>2, <2>4, Zenon DEF Similar
  <2>6. S \subseteq r.targets
    BY Zenon DEF S
  <2>7. r.table = t
    BY <1>5, Zenon
  <2> QED
    BY <1>2, <2>2, <2>4, <2>5, <2>6, <2>7, Zenon DEF y, r
<1> QED
  BY <1>3, <1>4, <1>5, Zenon

\* What a commit by someone else does to a transaction left behind.
LEMMA OutlivedIs ==
  ASSUME NEW o \in Orphan, NEW d \in Tables, NEW t \in Table, NEW w \in WriteSet,
         Left(o, d), o.req.table = t => Written(o.req.writes) \cap Written(w) = {}
  PROVE  LET p == [o EXCEPT !.req = Touched(o.req, t, w)]
         IN  p \in Orphan /\ Left(p, Land(d, t, w)) /\ Similar(p.req, o.req)
<1> DEFINE r == o.req
           T == Touched(r, t, w)
           p == [o EXCEPT !.req = T]
           e == Land(d, t, w)
<1>1. r \in Request /\ Sound(r, d) /\ InTransaction(r) /\ Accepted(r)
  BY Zenon DEF Orphan, Left, Sound
<1>2. /\ T \in Request /\ Similar(T, r) /\ T.targets = r.targets
      /\ T.touched = r.touched \cup {<<t, v>> : v \in Written(w)}
  BY <1>1, TouchedIs
<1> HIDE DEF T
<1>3. p \in Orphan /\ p.req = T /\ p.holds = o.holds /\ p.lands = o.lands /\ p.last = o.last
  BY <1>2, Zenon DEF Orphan
<1>4. Sound(T, e)
  BY <1>1, <1>2, OthersCommit, Zenon
<1>5. InTransaction(T) /\ T.writes = r.writes /\ T.table = r.table /\ T.pc = r.pc
  BY <1>1, <1>2, Zenon DEF Similar, InTransaction
<1>6. ASSUME NEW v \in o.holds PROVE e[r.table][v] \in 0..o.last \cup {NoRow}
  <2>1. v \in Written(r.writes) /\ v \in Col /\ r.table \in Table
        /\ d[r.table][v] \in 0..o.last \cup {NoRow}
    BY <1>1, Zenon DEF Left, Written, Accepted, InTransaction
  <2>2. e[r.table][v] = d[r.table][v]
    BY <2>1, LandIs
  <2> QED
    BY <2>1, <2>2, Zenon
<1> HIDE DEF p, e
<1>7. Left(p, e)
  <2>1. /\ o.holds = Written(r.writes)
        /\ o.lands => r.pc = "deletes" /\ r.targets = {}
    BY Zenon DEF Left
  <2> QED
    BY <1>2, <1>3, <1>4, <1>5, <1>6, <2>1, Zenon DEF Left
<1> QED
  BY <1>2, <1>3, <1>7, Zenon DEF p, e, T

\* The writes w to t are committed; the clients D and the transactions O, none of
\* which has written the same rows, see it.
Spared(D, O, t, w) ==
  /\ \A c \in D : InTransaction(req[c]) /\ req[c].table = t =>
       Written(req[c].writes) \cap Written(w) = {}
  /\ \A o \in O : o.req.table = t => Written(o.req.writes) \cap Written(w) = {}

Lives(D, O, t, w) ==
  /\ rows' \in Tables
  /\ \A c \in D : /\ Changed(D, t, w)[c] \in Request /\ Similar(Changed(D, t, w)[c], req[c])
                  /\ Active(c) => Sound(Changed(D, t, w)[c], rows')
  /\ orphans' \subseteq Orphan /\ \A p \in orphans' : Left(p, rows')
  /\ \A p \in orphans' : \E o \in O :
       p = [o EXCEPT !.req = Touched(o.req, t, w)] /\ Similar(p.req, o.req)

LEMMA OthersLive ==
  ASSUME IInv, NEW D \in SUBSET Client, NEW O \in SUBSET orphans, NEW t \in Table,
         NEW w \in WriteSet, Spared(D, O, t, w),
         rows' = After(t, w), orphans' = Outlived(O, t, w)
  PROVE  Lives(D, O, t, w)
<1>1. rows' = Land(rows, t, w)
  BY Zenon DEF After, Land
<1>2. rows \in Tables /\ orphans \subseteq Orphan /\ \A o \in orphans : Left(o, rows)
  BY Zenon DEF IInv, Shape
<1>3. rows' \in Tables
  BY <1>1, <1>2, LandIs, Zenon
<1>4. ASSUME NEW c \in D
      PROVE  /\ Changed(D, t, w)[c] \in Request /\ Similar(Changed(D, t, w)[c], req[c])
             /\ Active(c) => Sound(Changed(D, t, w)[c], rows')
  <2>1. c \in Client /\ req[c] \in Request /\ Shape /\ (Active(c) => Sound(req[c], rows))
    BY Zenon DEF IInv, Shape
  <2>2. Changed(D, t, w)[c] \in Request /\ Similar(Changed(D, t, w)[c], req[c])
    BY <2>1, ChangedIs, Zenon
  <2>3. ASSUME Active(c) PROVE Sound(Changed(D, t, w)[c], rows')
    <3>1. /\ Changed(D, t, w)[c].touched = req[c].touched \cup {<<t, v>> : v \in Written(w)}
          /\ Changed(D, t, w)[c].targets \subseteq req[c].targets
          /\ \A v \in req[c].targets \ Changed(D, t, w)[c].targets : req[c].table = t /\ v \in Written(w)
      BY <2>1, <2>3, ChangedIs, Zenon
    <3>2. InTransaction(req[c]) /\ req[c].table = t => Written(req[c].writes) \cap Written(w) = {}
      BY Zenon DEF Spared
    <3> QED
      BY <1>1, <1>2, <2>1, <2>2, <2>3, <3>1, <3>2, OthersCommit
  <2> QED
    BY <2>2, <2>3, Zenon
<1>5. ASSUME NEW p \in orphans'
      PROVE  /\ p \in Orphan /\ Left(p, rows')
             /\ \E o \in O :
                  p = [o EXCEPT !.req = Touched(o.req, t, w)] /\ Similar(p.req, o.req)
  <2>1. PICK o \in O : p = [o EXCEPT !.req = Touched(o.req, t, w)]
    BY Zenon DEF Outlived
  <2>2. o \in Orphan /\ Left(o, rows)
    BY <1>2, Zenon
  <2>3. o.req.table = t => Written(o.req.writes) \cap Written(w) = {}
    BY Zenon DEF Spared
  <2>4. p \in Orphan /\ Left(p, Land(rows, t, w)) /\ Similar(p.req, o.req)
    BY <1>2, <2>1, <2>2, <2>3, OutlivedIs, Zenon
  <2> QED
    BY <1>1, <2>1, <2>4, Zenon
<1> QED
  BY <1>3, <1>4, <1>5, Zenon DEF Lives

\* The rows committed are not newer than the requests.
LEMMA LandPast ==
  ASSUME IInv, NEW t \in Table, NEW w \in WriteSet, rows' = After(t, w), requests' = requests,
         \A v \in Written(w) : w[v] \in 0..requests \cup {NoRow}
  PROVE  \A u \in Table, v \in Col : rows'[u][v] \in 0..requests' \cup {NoRow}
<1>1. rows' = Land(rows, t, w) /\ rows \in Tables
  BY Zenon DEF After, Land, IInv, Shape
<1>2. \A u \in Table, v \in Col : rows[u][v] \in 0..requests \cup {NoRow}
  BY Zenon DEF IInv, Past
<1>3. \A u \in Table, v \in Col : 
        rows'[u][v] = rows[u][v] \/ (v \in Written(w) /\ rows'[u][v] = w[v])
  BY <1>1, LandIs
<1> QED
  BY <1>2, <1>3

\* A transaction's writes are of its request.
LEMMA NamedPast ==
  ASSUME NEW r \in Request, NEW d, Sound(r, d), InTransaction(r), requests \in Id,
         r.id <= requests
  PROVE  /\ r.table \in Table /\ r.writes \in WriteSet
         /\ \A v \in Written(r.writes) : r.writes[v] \in 0..requests \cup {NoRow}
<1>1. r.table \in Table /\ r.writes \in WriteSet /\ r.id \in Id
  BY Zenon DEF Sound, Accepted, InTransaction, Request
<1>2. \A v \in Written(r.writes) : r.writes[v] \in {r.id, NoRow}
  BY Zenon DEF Sound, Named
<1>3. r.id \in 0..requests
  BY <1>1, ParamAssumption DEF Id
<1> QED
  BY <1>1, <1>2, <1>3, Zenon

\* A transaction left behind is committed by PostgreSQL.
LEMMA LandStep ==
  ASSUME IInv, NEW o \in orphans, o.lands, EndOrphan(o)
  PROVE  IInv'
<1> DEFINE t == o.req.table
           w == o.req.writes
<1>1. /\ rows' = After(t, w) /\ req' = Changed(Client, t, w)
      /\ orphans' = Outlived(orphans \ {o}, t, w) /\ requests' = requests
  BY Zenon DEF EndOrphan
<1>2. /\ Left(o, rows) /\ o.req \in Request /\ o.req.id <= requests /\ requests \in Id
      /\ Shape /\ Disjoint /\ Past
  BY Zenon DEF IInv, Shape, Orphan, Past
<1>3. Sound(o.req, rows) /\ InTransaction(o.req)
  BY <1>2, Zenon DEF Left
<1>4. t \in Table /\ w \in WriteSet /\ \A v \in Written(w) : w[v] \in 0..requests \cup {NoRow}
  BY <1>2, <1>3, NamedPast, Zenon
<1>5. Spared(Client, orphans \ {o}, t, w)
  <2>1. \A c \in Client : Apart(req[c], o.req)
    BY <1>2, Zenon DEF Disjoint
  <2>2. \A p \in orphans \ {o} : Apart(p.req, o.req) /\ InTransaction(p.req)
    BY <1>2, Zenon DEF Disjoint, IInv, Left
  <2> QED
    BY <1>3, <2>1, <2>2, Zenon DEF Spared, Apart
<1> HIDE DEF t, w
<1>6. /\ rows' \in Tables
      /\ \A c \in Client : /\ req'[c] \in Request /\ Similar(req'[c], req[c])
                           /\ Active(c) => Sound(req'[c], rows')
      /\ orphans' \subseteq Orphan /\ \A p \in orphans' : Left(p, rows')
      /\ \A p \in orphans' : \E q \in orphans \ {o} :
           p = [q EXCEPT !.req = Touched(q.req, t, w)] /\ Similar(p.req, q.req)
  <2>1. Client \in SUBSET Client /\ orphans \ {o} \in SUBSET orphans
    BY Zenon
  <2>2. Lives(Client, orphans \ {o}, t, w)
    BY <1>1, <1>4, <1>5, <2>1, OthersLive, Zenon
  <2> QED
    BY <1>1, <2>2, Zenon DEF Lives
<1>7. Shape'
  <2>1. req' = [c \in Client |-> req'[c]]
    BY <1>1, Zenon DEF Changed
  <2> QED
    BY <1>1, <1>2, <1>6, <2>1, Zenon DEF Shape
<1>8. \A c \in Client : Active(c)' => Active(c) /\ req'[c].id = req[c].id
  BY <1>6, Zenon DEF Active, Similar
<1>9. Disjoint'
  <2>1. ASSUME NEW c \in Client, NEW d \in Client, c # d PROVE Apart(req'[c], req'[d])
    BY <1>2, <1>6, <2>1, SimilarApart, Zenon DEF Disjoint
  <2>2. ASSUME NEW c \in Client, NEW p \in orphans' PROVE Apart(req'[c], p.req)
    BY <1>2, <1>6, SimilarApart DEF Disjoint
  <2>3. ASSUME NEW p \in orphans', NEW q \in orphans', p # q PROVE Apart(p.req, q.req)
    BY <1>2, <1>6, <2>3, SimilarApart DEF Disjoint
  <2> QED
    BY <2>1, <2>2, <2>3, Zenon DEF Disjoint
<1>10. Past'
  <2>1. \A u \in Table, v \in Col : rows'[u][v] \in 0..requests' \cup {NoRow}
    BY <1>1, <1>4, LandPast, Zenon
  <2>2. \A c \in Client : Active(c)' => req'[c].id <= requests'
    BY <1>1, <1>2, <1>8, Zenon DEF Past
  <2>3. \A p \in orphans' : p.req.id <= requests'
    <3> SUFFICES ASSUME NEW p \in orphans' PROVE p.req.id <= requests'
      BY Zenon
    <3>1. PICK q \in orphans : Similar(p.req, q.req)
      BY <1>6, Zenon
    <3>2. p.req.id = q.req.id /\ q.req.id <= requests
      BY <1>2, <3>1, Zenon DEF Past, Similar
    <3> QED
      BY <1>1, <3>2, Zenon
  <2> QED
    BY <2>1, <2>2, <2>3, Zenon DEF Past
<1> QED
  BY <1>6, <1>7, <1>8, <1>9, <1>10, Zenon DEF IInv

--------------------------------------------------------------------------------
(* A request's own steps.                                                  *)

LEMMA IdleIs == Idle \in Request /\ Idle.pc = "idle" /\ ~InTransaction(Idle)
<1>1. 0 \in Id /\ Clean \in WriteSet
  BY ParamAssumption, CleanIs DEF Id
<1>2. Idle \in Request /\ Idle.pc = "idle"
  BY <1>1 DEF Idle, Request, Pc
<1> QED
  BY <1>2, Zenon DEF InTransaction

\* A request moves on and the tables stay as they are.
LEMMA OwnMove ==
  ASSUME IInv, NEW c \in Client, NEW y \in Request, req' = [req EXCEPT ![c] = y],
         UNCHANGED <<rows, orphans>>, requests' \in Id, requests <= requests',
         y.pc # "idle" => Sound(y, rows) /\ y.id <= requests',
         \A d \in Client \ {c} : Apart(y, req[d]),
         \A o \in orphans : Apart(y, o.req)
  PROVE  IInv'
<1>1. Shape /\ Disjoint /\ Past
  BY Zenon DEF IInv
<1>2. req' \in [Client -> Request] /\ req'[c] = y /\ \A d \in Client \ {c} : req'[d] = req[d]
  BY <1>1, Zenon DEF Shape
<1>3. Shape'
  BY <1>1, <1>2, Zenon DEF Shape
<1>4. Disjoint'
  <2>1. ASSUME NEW d \in Client, NEW e \in Client, d # e PROVE Apart(req'[d], req'[e])
    BY <1>1, <1>2, <2>1, ApartSwaps, Zenon DEF Disjoint
  <2>2. ASSUME NEW d \in Client, NEW o \in orphans PROVE Apart(req'[d], o.req)
    BY <1>1, <1>2, Zenon DEF Disjoint
  <2>3. \A o, p \in orphans : o # p => Apart(o.req, p.req)
    BY <1>1, Zenon DEF Disjoint
  <2> QED
    BY <2>1, <2>2, <2>3, Zenon DEF Disjoint
<1>5. Past'
  <2>1. requests \in Int /\ requests' \in Int
    BY <1>1 DEF Shape, Id
  <2>2. \A d \in Client : Active(d)' => req'[d].id <= requests'
    <3> SUFFICES ASSUME NEW d \in Client, Active(d)' PROVE req'[d].id <= requests'
      BY Zenon
    <3>1. req[d].id \in Int
      BY <1>1 DEF Shape, Request, Id
    <3> QED
      BY <1>1, <1>2, <2>1, <3>1 DEF Past, Active
  <2>3. \A o \in orphans : o.req.id <= requests'
    <3> SUFFICES ASSUME NEW o \in orphans PROVE o.req.id <= requests'
      BY Zenon
    <3>1. o.req \in Request /\ o.req.id <= requests
      BY <1>1, Zenon DEF Shape, Orphan, Past
    <3>2. o.req.id \in Int
      BY <3>1 DEF Request, Id
    <3> QED
      BY <2>1, <3>1, <3>2
  <2>4. \A t \in Table, v \in Col : rows[t][v] \in 0..requests' \cup {NoRow}
    BY <1>1, <2>1 DEF Past
  <2> QED
    BY <2>2, <2>3, <2>4, Zenon DEF Past
<1>6. \A d \in Client : Active(d)' => Sound(req'[d], rows')
  BY <1>2, Zenon DEF IInv, Active
<1>7. \A o \in orphans' : Left(o, rows')
  BY Zenon DEF IInv
<1> QED
  BY <1>3, <1>4, <1>5, <1>6, <1>7, Zenon DEF IInv

\* A request that holds no row moves on, or ends.
LEMMA ClearMove ==
  ASSUME IInv, NEW c \in Client, NEW y \in Request, req' = [req EXCEPT ![c] = y],
         UNCHANGED <<rows, orphans>>, requests' \in Id, requests <= requests',
         y.pc # "idle" => Sound(y, rows) /\ y.id <= requests',
         InTransaction(y) => Written(y.writes) = {}
  PROVE  IInv'
<1>1. \A z : Apart(y, z)
  BY ClearApart, Zenon
<1> QED
  BY <1>1, OwnMove, Zenon

LEMMA OwnEnd ==
  ASSUME IInv, NEW c \in Client, req' = [req EXCEPT ![c] = Idle],
         UNCHANGED <<rows, orphans>>, requests' \in Id, requests <= requests'
  PROVE  IInv'
  BY IdleIs, ClearMove, Zenon

\* A transaction writes a row that is free.
LEMMA WriteMove ==
  ASSUME IInv, NEW c \in Client, NEW y \in Request, req' = [req EXCEPT ![c] = y],
         UNCHANGED <<rows, orphans, requests>>, Sound(y, rows), y.id = req[c].id,
         InTransaction(req[c]), y.table = req[c].table, NEW v, Free(c, y.table, v),
         Written(y.writes) \subseteq Written(req[c].writes) \cup {v}
  PROVE  IInv'
<1>1. Shape /\ Disjoint /\ Past /\ requests \in Id
  BY Zenon DEF IInv, Shape
<1>2. ASSUME NEW d \in Client \ {c} PROVE Apart(y, req[d])
  <2>1. Apart(req[c], req[d])
    BY <1>1, Zenon DEF Disjoint
  <2>2. InTransaction(req[d]) /\ req[d].table = y.table => v \notin Written(req[d].writes)
    BY Zenon DEF Free, HeldBy, InTx, InTransaction
  <2> QED
    BY <2>1, <2>2, Zenon DEF Apart
<1>3. ASSUME NEW o \in orphans PROVE Apart(y, o.req)
  <2>1. Apart(req[c], o.req) /\ o.holds = Written(o.req.writes)
    BY <1>1, Zenon DEF Disjoint, IInv, Left
  <2>2. o.req.table = y.table => v \notin o.holds
    BY Zenon DEF Free, HeldByOrphan
  <2> QED
    BY <2>1, <2>2, Zenon DEF Apart
<1>4. Active(c) /\ y.id <= requests
  BY <1>1, Zenon DEF Past, Active, InTransaction
<1>5. requests \in Int /\ requests <= requests
  BY <1>1 DEF Id
<1> QED
  BY <1>1, <1>2, <1>3, <1>4, <1>5, OwnMove, Zenon

\* What a request may say depends on these of its fields only.
Same(y, r) ==
  /\ y.batch = r.batch /\ y.kind = r.kind /\ y.id = r.id
  /\ y.items = r.items /\ y.touched = r.touched

LEMMA SameTold ==
  ASSUME NEW y, NEW r, Same(y, r)
  PROVE  /\ DistinctItems(y) => DistinctItems(r)
         /\ \A d, t : Told(r, d, t) => Told(y, d, t)
<1>1. DistinctItems(y) => DistinctItems(r)
  BY DEF Same, DistinctItems
<1>2. /\ \A op : Leaves(y, op) = Leaves(r, op)
      /\ \A t, v : Got(y, t, v) = Got(r, t, v)
  BY Zenon DEF Same, Leaves, Got
<1>3. ASSUME NEW d, NEW t, Told(r, d, t) PROVE Told(y, d, t)
  <2>1. y.batch = r.batch /\ y.kind = r.kind /\ y.touched = r.touched
    BY Zenon DEF Same
  <2>2. ASSUME NEW i \in DOMAIN y.batch[t], NEW v, v = Column[KeyOf(r.kind, r.batch[t][i])]
        PROVE  \/ <<t, v>> \in y.touched
               \/ y.kind = "write" /\ d[t][v] = Leaves(y, y.batch[t][i])
               \/ y.kind = "get" /\ Got(y, t, v) = {d[t][v]} \ {NoRow}
    <3>1. /\ Leaves(y, y.batch[t][i]) = Leaves(r, r.batch[t][i])
          /\ Got(y, t, v) = Got(r, t, v)
      BY <1>2, <2>1, Zenon
    <3>2. i \in DOMAIN r.batch[t]
      BY <2>1, Zenon
    <3>3. \/ <<t, v>> \in r.touched
          \/ r.kind = "write" /\ d[t][v] = Leaves(r, r.batch[t][i])
          \/ r.kind = "get" /\ Got(r, t, v) = {d[t][v]} \ {NoRow}
      BY <1>3, <2>2, <3>2, Zenon DEF Told
    <3> QED
      BY <2>1, <3>1, <3>3, Zenon
  <2> QED
    BY <2>1, <2>2, Zenon DEF Told
<1> QED
  BY <1>1, <1>3, Zenon

LEMMA ReceiveStep ==
  ASSUME IInv, NEW c \in Client, NEW kind \in {"get", "write"}, NEW batch \in Writes \cup Gets,
         Receive(c, kind, batch)
  PROVE  IInv'
<1> DEFINE r == [Idle EXCEPT !.pc = "next", !.kind = kind, !.id = requests + 1,
                             !.batch = batch, !.todo = DOMAIN batch]
<1>1. /\ requests' = requests + 1 /\ UNCHANGED <<rows, orphans>> /\ requests \in Id
      /\ requests < MaxRequests
  BY Zenon DEF Receive, IInv, Shape
<1>2. requests' \in Id /\ requests <= requests' /\ requests' <= requests'
  BY <1>1, ParamAssumption DEF Id
<1>3. CASE req' = [req EXCEPT ![c] = Idle]
  BY <1>1, <1>2, <1>3, OwnEnd, Zenon
<1>4. CASE req' = [req EXCEPT ![c] = r] /\ DOMAIN batch \subseteq Table /\ Translates(kind, batch)
  <2>1. /\ r \in Request /\ r.pc = "next" /\ r.kind = kind /\ r.batch = batch
        /\ r.todo = DOMAIN batch /\ r.items = {} /\ r.id = requests'
    <3>1. /\ requests + 1 \in Id /\ DOMAIN batch \in SUBSET Table /\ "next" \in Pc
          /\ Idle \in Request /\ Idle.items = {}
      BY <1>1, <1>2, <1>4, IdleIs, Zenon DEF Pc, Idle
    <3>2. r \in Request
      BY <3>1, Zenon DEF Request
    <3>3. /\ r.pc = "next" /\ r.kind = kind /\ r.batch = batch
          /\ r.todo = DOMAIN batch /\ r.items = Idle.items /\ r.id = requests + 1
      BY <3>1, Zenon DEF Request
    <3> QED
      BY <1>1, <3>1, <3>2, <3>3, Zenon
  <2> HIDE DEF r
  <2>2. ~InTransaction(r) /\ Finished(r) = {}
    BY <2>1, Zenon DEF InTransaction, Finished
  <2>3. \A t \in DOMAIN batch : \A i \in DOMAIN batch[t] :
          IF kind = "get" THEN GetKeyed(batch[t][i]) ELSE WriteKeyed(batch[t][i])
    BY <1>4, Zenon DEF Translates
  <2>4. Accepted(r)
    BY <1>4, <2>1, <2>2, <2>3, Zenon DEF Accepted
  <2>5. Named(r) /\ PutsWritten(r) /\ DeletesWritten(r, rows)
    BY <2>1, <2>2, Zenon DEF Named, PutsWritten, DeletesWritten
  <2>6. Sound(r, rows)
    BY <2>1, <2>2, <2>4, <2>5, Zenon DEF Sound
  <2> QED
    BY <1>1, <1>2, <1>4, <2>1, <2>2, <2>6, ClearMove, Zenon DEF r
<1> QED
  BY <1>3, <1>4, Zenon DEF Receive, Answer, Goto

\* A request begins, or begins again, with one of its tables.
Basis(r, d) ==
  /\ Accepted(r) /\ \A x \in r.items : x.table \in Finished(r)
  /\ DistinctItems(r) => \A t \in Finished(r) : Told(r, d, t)

LEMMA StartedIs ==
  ASSUME NEW r \in Request, NEW t \in Table, NEW n \in Nat
  PROVE  LET y == Started(r, t, n)
         IN  /\ y \in Request /\ Same(y, r) /\ y.todo = r.todo /\ y.table = t
             /\ y.pc = (IF r.kind = "get" THEN "read" ELSE "puts")
             /\ y.at = 1 /\ y.writes = Clean
<1>1. Clean \in WriteSet
  BY CleanIs, Zenon
<1> DEFINE q == IF r.kind = "get" THEN "read" ELSE "puts"
           y == [r EXCEPT !.pc = q, !.table = t, !.attempt = n, !.at = 1, !.targets = {},
                          !.writes = Clean]
<1>2. Started(r, t, n) = y /\ q \in Pc
  BY Zenon DEF Started, Pc
<1> HIDE DEF q
<1>3. y \in Request
  <2>1. /\ q \in Pc /\ t \in Table \cup {"none"} /\ 1 \in Nat \ {0}
        /\ {} \in SUBSET Col /\ Clean \in WriteSet
    BY <1>1, <1>2
  <2> DEFINE z == [r EXCEPT !.pc = q, !.table = t]
  <2>2. z \in Request
    BY <2>1, Zenon DEF Request
  <2>3. y = [z EXCEPT !.attempt = n, !.at = 1, !.targets = {}, !.writes = Clean]
    BY Zenon DEF Request
  <2> HIDE DEF z
  <2> QED
    BY <2>1, <2>2, <2>3, Zenon DEF Request
<1>4. /\ Same(y, r) /\ y.todo = r.todo /\ y.table = t /\ y.pc = q
      /\ y.at = 1 /\ y.writes = Clean
  BY Zenon DEF Request, Same
<1> HIDE DEF y
<1> QED
  BY <1>2, <1>3, <1>4, Zenon DEF q

LEMMA StartedSound ==
  ASSUME NEW r \in Request, NEW s \in Request, NEW d, Basis(s, d), Same(r, s),
         NEW t \in DOMAIN s.batch \ r.todo, r.todo \subseteq DOMAIN s.batch, NEW n \in Nat,
         Finished(s) = DOMAIN s.batch \ (r.todo \cup {t})
  PROVE  LET y == Started(r, t, n)
         IN  /\ y \in Request /\ Sound(y, d) /\ y.id = s.id
             /\ Written(y.writes) = {}
<1> DEFINE y == Started(r, t, n)
<1>1. Accepted(s) /\ t \in Table /\ Same(r, s)
  BY Zenon DEF Basis, Accepted
<1>2. /\ y \in Request /\ Same(y, r) /\ y.todo = r.todo /\ y.table = t
      /\ y.pc = (IF r.kind = "get" THEN "read" ELSE "puts")
      /\ y.at = 1 /\ y.writes = Clean
  BY <1>1, StartedIs
<1> HIDE DEF y
<1>3. Same(y, s) /\ y.pc \in {"read", "puts"} /\ Written(y.writes) = {}
  BY <1>1, <1>2, CleanIs, Zenon DEF Same
<1>4. Finished(y) = Finished(s)
  BY <1>2, <1>3, Zenon DEF Finished, Same
<1>5. Accepted(y)
  BY <1>1, <1>2, <1>3, Zenon DEF Accepted, Same, InTransaction, Request
<1>6. Named(y) /\ DeletesWritten(y, d)
  BY <1>3, Zenon DEF Named, DeletesWritten
<1>7. PutsWritten(y)
  <2>1. ASSUME NEW i \in DOMAIN Ops(y), y.pc = "puts" PROVE ~(i < 1)
    <3>1. y.table \in DOMAIN y.batch /\ y.batch \in Writes \cup Gets
      BY <1>5, <2>1, Zenon DEF Accepted
    <3>2. i \in 1..Len(Ops(y))
      BY <3>1, ParamAssumption, Zenon DEF Ops
    <3> QED
      BY <3>2
  <2> QED
    BY <1>2, <2>1, Zenon DEF PutsWritten
<1>8. /\ \A x \in y.items : x.table \in Finished(y)
      /\ DistinctItems(y) => \A u \in Finished(y) : Told(y, d, u)
  BY <1>3, <1>4, SameTold, Zenon DEF Basis, Same
<1> QED
  BY <1>2, <1>3, <1>5, <1>6, <1>7, <1>8, Zenon DEF Sound, y, Same

LEMMA SoundBasis == ASSUME NEW r, NEW d, Sound(r, d) PROVE Basis(r, d)
  BY Zenon DEF Sound, Basis

\* with_retry begins the table's part again.
LEMMA RetrySound ==
  ASSUME NEW r \in Request, NEW d, Basis(r, d), r.pc # "next", NEW n \in Nat
  PROVE  LET y == Started(r, r.table, n)
         IN  /\ y \in Request /\ Sound(y, d) /\ y.id = r.id
             /\ Written(y.writes) = {}
<1>1. r.table \in DOMAIN r.batch \ r.todo /\ r.todo \subseteq DOMAIN r.batch
  BY Zenon DEF Basis, Accepted
<1>2. Finished(r) = DOMAIN r.batch \ (r.todo \cup {r.table}) /\ Same(r, r)
  BY Zenon DEF Finished, Same
<1> QED
  BY <1>1, <1>2, StartedSound, Zenon

LEMMA NextTableStep ==
  ASSUME IInv, NEW c \in Client, NEW t \in Table, NextTable(c, t)
  PROVE  IInv'
<1> DEFINE r == req[c]
           s == [r EXCEPT !.todo = @ \ {t}]
           y == Started(s, t, 0)
<1>1. /\ r.pc = "next" /\ t \in r.todo /\ req' = [req EXCEPT ![c] = y]
      /\ UNCHANGED <<rows, orphans, requests>>
  BY Zenon DEF NextTable, Goto
<1>2. r \in Request /\ requests \in Id
  BY Zenon DEF IInv, Shape
<1>3. Sound(r, rows) /\ r.id <= requests
  BY <1>1, Zenon DEF IInv, Active, Past
<1>4. s \in Request /\ Same(s, r) /\ s.todo = r.todo \ {t}
  BY <1>2, Zenon DEF Request, Same
<1>5. /\ t \in DOMAIN r.batch \ s.todo /\ s.todo \subseteq DOMAIN r.batch
      /\ Finished(r) = DOMAIN r.batch \ (s.todo \cup {t})
  BY <1>1, <1>3, <1>4, Zenon DEF Sound, Accepted, Finished
<1>6. y \in Request /\ Sound(y, rows) /\ y.id = r.id /\ Written(y.writes) = {}
  <2> HIDE DEF s
  <2>1. Basis(r, rows)
    BY <1>3, SoundBasis, Zenon
  <2> QED
    BY <1>2, <1>4, <1>5, <2>1, StartedSound, Zenon
<1>7. requests' \in Id /\ requests <= requests' /\ y.id <= requests'
  BY <1>1, <1>2, <1>3, <1>6 DEF Id
<1> QED
  BY <1>1, <1>6, <1>7, ClearMove, Zenon

\* The table in progress is done as well.
Complete(r, d) ==
  /\ Accepted(r) /\ r.pc # "next" /\ \A x \in r.items : x.table \in DOMAIN r.batch \ r.todo
  /\ DistinctItems(r) => \A t \in DOMAIN r.batch \ r.todo : Told(r, d, t)

LEMMA AdvanceSound ==
  ASSUME NEW r \in Request, NEW d, Complete(r, d)
  PROVE  LET y == [r EXCEPT !.pc = "next"]
         IN  y \in Request /\ Sound(y, d) /\ y.id = r.id /\ ~InTransaction(y)
<1> DEFINE y == [r EXCEPT !.pc = "next"]
<1>1. y \in Request /\ Same(y, r) /\ y.todo = r.todo /\ y.pc = "next"
  BY Zenon DEF Request, Same, Pc
<1> HIDE DEF y
<1>2. ~InTransaction(y) /\ Finished(y) = DOMAIN r.batch \ r.todo
  BY <1>1, Zenon DEF InTransaction, Finished, Same
<1>3. Accepted(y)
  BY <1>1, <1>2, Zenon DEF Complete, Accepted, Same
<1>4. Named(y) /\ PutsWritten(y) /\ DeletesWritten(y, d)
  BY <1>1, <1>2, Zenon DEF Named, PutsWritten, DeletesWritten
<1>5. /\ \A x \in y.items : x.table \in Finished(y)
      /\ DistinctItems(y) => \A t \in Finished(y) : Told(y, d, t)
  BY <1>1, <1>2, SameTold, Zenon DEF Complete, Same
<1> QED
  BY <1>1, <1>2, <1>3, <1>4, <1>5, Zenon DEF Sound, y, Same

\* The items batch_get_raw reads.
Asked(r) == {Column[Ops(r)[i].get] : i \in DOMAIN Ops(r)}
Found(r, d) == {[table |-> r.table, col |-> v, row |-> d[r.table][v]] :
                  v \in {w \in Asked(r) : d[r.table][w] # NoRow}}

LEMMA ReadComplete ==
  ASSUME NEW r \in Request, NEW d \in Tables, Sound(r, d), r.pc = "read"
  PROVE  LET y == [r EXCEPT !.items = @ \cup Found(r, d)]
         IN  y \in Request /\ Complete(y, d) /\ y.id = r.id
<1> DEFINE y == [r EXCEPT !.items = @ \cup Found(r, d)]
           t == r.table
<1>1. Accepted(r) /\ t \in DOMAIN r.batch \ r.todo /\ t \in Table /\ r.kind = "get"
  BY Zenon DEF Sound, Accepted
<1>2. \A i \in DOMAIN r.batch[t] : Column[KeyOf("get", r.batch[t][i])] \in Col
  BY <1>1, PlacesAreRows, Zenon
<1>3. Asked(r) \subseteq Col
  BY <1>2, Zenon DEF Asked, Ops, KeyOf
<1>4. Found(r, d) \subseteq Item
  BY <1>1, <1>3 DEF Found, Item, Tables
<1>5. /\ y \in Request /\ y.batch = r.batch /\ y.kind = r.kind /\ y.id = r.id /\ y.todo = r.todo
      /\ y.table = t /\ y.touched = r.touched /\ y.pc = "read"
      /\ y.items = r.items \cup Found(r, d)
  BY <1>4, Zenon DEF Request
<1>6. Finished(r) = (DOMAIN r.batch \ r.todo) \ {t}
  BY Zenon DEF Finished
<1>7. \A x \in r.items : x.table \in Finished(r)
  BY Zenon DEF Sound
<1>8. \A x \in Found(r, d) : x.table = t
  BY DEF Found
<1>9. Accepted(y)
  BY <1>1, <1>5, Zenon DEF Accepted, InTransaction
<1> HIDE DEF y
<1>10. \A x \in y.items : x.table \in DOMAIN y.batch \ y.todo
  BY <1>1, <1>5, <1>6, <1>7, <1>8, Zenon
<1>11. ASSUME DistinctItems(y), NEW u \in Finished(r) PROVE Told(y, d, u)
  <2>1. DistinctItems(r)
    BY <1>5, <1>11 DEF DistinctItems
  <2>2. Told(r, d, u)
    BY <2>1, Zenon DEF Sound
  <2>3. \A v : Got(y, u, v) = Got(r, u, v)
    BY <1>5, <1>6, <1>8, Zenon DEF Got
  <2> QED
    BY <1>1, <1>5, <2>2, <2>3 DEF Told
<1>12. Told(y, d, t)
  <2> SUFFICES ASSUME NEW i \in DOMAIN r.batch[t]
               PROVE  Got(y, t, Column[KeyOf("get", r.batch[t][i])])
                        = {d[t][Column[KeyOf("get", r.batch[t][i])]]} \ {NoRow}
    BY <1>1, <1>5, Zenon DEF Told
  <2> DEFINE v == Column[KeyOf("get", r.batch[t][i])]
  <2>1. v \in Asked(r)
    BY Zenon DEF Asked, KeyOf, Ops
  <2>2. \A x \in y.items : x.table = t => x \in Found(r, d)
    BY <1>5, <1>6, <1>7, Zenon
  <2> HIDE DEF v
  <2>3. \A x \in Found(r, d) : x.col = v => x.row = d[t][v] /\ d[t][v] # NoRow
    BY DEF Found
  <2>4. d[t][v] # NoRow => \E x \in Found(r, d) : x.table = t /\ x.col = v /\ x.row = d[t][v]
    <3> SUFFICES ASSUME d[t][v] # NoRow
                 PROVE  \E x \in Found(r, d) : x.table = t /\ x.col = v /\ x.row = d[t][v]
      BY Zenon
    <3> DEFINE x == [table |-> t, col |-> v, row |-> d[t][v]]
    <3>1. x \in Found(r, d)
      BY <2>1, Zenon DEF Found
    <3> QED
      BY <3>1, Zenon
  <2>5. \A x \in Found(r, d) : x \in y.items
    BY <1>5, Zenon
  <2> QED
    BY <2>2, <2>3, <2>4, <2>5, Zenon DEF Got, v
<1> QED
  BY <1>5, <1>6, <1>9, <1>10, <1>11, <1>12, Zenon DEF Complete, y

LEMMA ReadStep == ASSUME IInv, NEW c \in Client, Read(c) PROVE IInv'
<1> DEFINE r == req[c]
           y == [r EXCEPT !.items = @ \cup Found(r, rows)]
           z == [y EXCEPT !.pc = "next"]
<1>1. /\ r.pc = "read" /\ UNCHANGED <<rows, orphans, requests>>
      /\ req' = [req EXCEPT ![c] = z] \/ req' = [req EXCEPT ![c] = Idle]
  BY Zenon DEF Read, Advance, Goto, Answer, Found, Asked
<1>2. r \in Request /\ rows \in Tables /\ requests \in Id /\ Sound(r, rows) /\ r.id <= requests
  BY <1>1, Zenon DEF IInv, Shape, Active, Past
<1>3. y \in Request /\ Complete(y, rows) /\ y.id = r.id
  BY <1>1, <1>2, ReadComplete, Zenon
<1> HIDE DEF y
<1>4. z \in Request /\ Sound(z, rows) /\ z.id = r.id /\ ~InTransaction(z)
  BY <1>3, AdvanceSound, Zenon
<1>5. requests' \in Id /\ requests <= requests' /\ z.id <= requests'
  BY <1>1, <1>2, <1>4 DEF Id
<1> HIDE DEF z
<1> QED
  BY <1>1, <1>4, <1>5, ClearMove, OwnEnd, Zenon

\* A transaction keeps to its table: all but what it has written stays.
Within(y, r) ==
  /\ Same(y, r) /\ y.todo = r.todo /\ y.table = r.table
  /\ InTransaction(y) /\ InTransaction(r)

LEMMA WithinSound ==
  ASSUME NEW r \in Request, NEW y \in Request, NEW d, Sound(r, d), Within(y, r),
         Named(y), PutsWritten(y), DeletesWritten(y, d)
  PROVE  Sound(y, d)
<1>1. Accepted(y)
  BY Zenon DEF Sound, Accepted, Within, Same, InTransaction
<1>2. Finished(y) = Finished(r)
  BY Zenon DEF Finished, Within, Same, InTransaction
<1>3. /\ \A x \in y.items : x.table \in Finished(y)
      /\ DistinctItems(y) => \A t \in Finished(y) : Told(y, d, t)
  BY <1>2, SameTold, Zenon DEF Sound, Within, Same
<1> QED
  BY <1>1, <1>3, Zenon DEF Sound

Frame(y, r) ==
  y.pc = r.pc /\ y.table = r.table /\ y.todo = r.todo /\ y.at = r.at /\ y.targets = r.targets

Wrote(y, r, v, row) ==
  /\ y \in Request /\ Same(y, r) /\ Frame(y, r) /\ y.writes[v] = row
  /\ \A u \in Col \ {v} : y.writes[u] = r.writes[u]
  /\ Written(y.writes) = Written(r.writes) \cup {v}

LEMMA WriteIs ==
  ASSUME NEW r \in Request, NEW v \in Col, NEW row \in Row
  PROVE  Wrote(Write(r, v, row), r, v, row)
<1> DEFINE w == [r.writes EXCEPT ![v] = row]
           y == Write(r, v, row)
<1>1. w \in WriteSet /\ w[v] = row /\ \A u \in Col \ {v} : w[u] = r.writes[u]
  BY Zenon DEF Request, WriteSet
<1>2. y = [r EXCEPT !.writes = w]
  BY Zenon DEF Write
<1> HIDE DEF w
<1>3. y \in Request /\ Same(y, r) /\ y.writes = w /\ Frame(y, r)
  BY <1>1, <1>2 DEF Request, Same, Frame
<1>4. Written(w) = Written(r.writes) \cup {v}
  BY <1>1, NoRowIsRow, Zenon DEF Written
<1> QED
  BY <1>1, <1>3, <1>4, Zenon DEF Wrote

LEMMA PutRowStep == ASSUME IInv, NEW c \in Client, PutRow(c) PROVE IInv'
<1> DEFINE r == req[c]
<1>1. PICK i \in NextPuts(r) :
        /\ r.pc = "puts" /\ Free(c, r.table, Column[Ops(r)[i].put])
        /\ UNCHANGED <<rows, orphans, requests>>
        /\ \/ Goto(req, c, [Write(r, Column[Ops(r)[i].put], r.id) EXCEPT !.at = i + 1])
           \/ Answer(req, c, r, "error")
  BY Zenon DEF PutRow
<1> DEFINE v == Column[Ops(r)[i].put]
           z == Write(r, v, r.id)
           y == [z EXCEPT !.at = i + 1]
<1>2. r \in Request /\ Shape /\ Sound(r, rows) /\ InTransaction(r) /\ Accepted(r)
  BY <1>1, Zenon DEF IInv, Shape, Active, InTransaction, Sound
<1>3. /\ i \in DOMAIN Ops(r) /\ r.at <= i /\ IsPut(Ops(r)[i])
      /\ \A j \in r.at..i - 1 : ~IsPut(Ops(r)[j])
  BY Zenon DEF NextPuts
<1>4. v = At(Ops(r)[i]) /\ v \in Col /\ \A j \in DOMAIN Ops(r) : At(Ops(r)[j]) \in Col
  BY <1>2, <1>3, DeletedAreRows, Zenon DEF At, KeyOf
<1>5. DOMAIN Ops(r) = 1..Len(Ops(r)) /\ r.at \in Nat \ {0} /\ r.id \in Row
  BY <1>2, ParamAssumption, Zenon DEF Accepted, InTransaction, Request, Row, Ops
<1>6. /\ z \in Request /\ Same(z, r) /\ z.writes[v] = r.id
      /\ Frame(z, r)
      /\ \A u \in Col \ {v} : z.writes[u] = r.writes[u]
      /\ Written(z.writes) = Written(r.writes) \cup {v}
  <2>1. r \in Request /\ v \in Col /\ r.id \in Row
    BY <1>2, <1>4, <1>5, Zenon
  <2>2. Wrote(z, r, v, r.id)
    BY <2>1, WriteIs, Zenon
  <2> QED
    BY <2>2, Zenon DEF Wrote
<1>7. i + 1 \in Nat \ {0} /\ z.pc = r.pc /\ z.table = r.table /\ z.todo = r.todo
  <2>1. i + 1 \in Nat \ {0}
    BY <1>3, <1>5
  <2> QED
    BY <1>6, <2>1, Zenon DEF Frame
<1> HIDE DEF z
<1>8. /\ y \in Request /\ Same(y, r) /\ y.writes = z.writes /\ y.at = i + 1
      /\ y.pc = r.pc /\ y.table = r.table /\ y.todo = r.todo
  BY <1>6, <1>7, Zenon DEF Request, Same
<1> HIDE DEF y, v, r
<1>9. Ops(y) = Ops(r) /\ y.id = r.id /\ Within(y, r)
  BY <1>2, <1>8, Zenon DEF Ops, Same, Within, InTransaction
<1>10. Named(y)
  <2>1. ASSUME NEW u \in Written(y.writes)
        PROVE  y.writes[u] \in {y.id, NoRow} /\ \E j \in DOMAIN Ops(y) : At(Ops(y)[j]) = u
    <3>1. CASE u = v
      BY <1>3, <1>4, <1>6, <1>8, <1>9, <3>1, Zenon
    <3>2. CASE u # v
      <4>1. u \in Written(r.writes) /\ y.writes[u] = r.writes[u]
        BY <1>6, <1>8, <3>2, Zenon DEF Written
      <4> QED
        BY <1>2, <1>9, <4>1, Zenon DEF Sound, Named
    <3> QED
      BY <3>1, <3>2, Zenon
  <2> QED
    BY <2>1, Zenon DEF Named
<1>11. PutsWritten(y)
  <2>1. ASSUME NEW j \in DOMAIN Ops(r), j < i + 1, IsPut(Ops(r)[j])
        PROVE  y.writes[At(Ops(r)[j])] = r.id
    <3>1. j < r.at \/ j = i
      BY <1>3, <1>5, <2>1
    <3>2. CASE j = i
      BY <1>4, <1>6, <1>8, <3>2, Zenon
    <3>3. CASE j < r.at
      <4>1. r.writes[At(Ops(r)[j])] = r.id
        BY <1>1, <1>2, <2>1, <3>3, Zenon DEF Sound, PutsWritten, r
      <4> QED
        BY <1>4, <1>6, <1>8, <4>1, Zenon
    <3> QED
      BY <3>1, <3>2, <3>3, Zenon
  <2> QED
    BY <1>8, <1>9, <2>1, Zenon DEF PutsWritten
<1>12. DeletesWritten(y, rows)
  BY <1>1, <1>8, Zenon DEF DeletesWritten, r
<1>13. Sound(y, rows)
  BY <1>2, <1>8, <1>9, <1>10, <1>11, <1>12, WithinSound, Zenon
<1>14. CASE req' = [req EXCEPT ![c] = y]
  BY <1>1, <1>2, <1>6, <1>8, <1>9, <1>13, <1>14, WriteMove, Zenon DEF r, v
<1>15. CASE req' = [req EXCEPT ![c] = Idle]
  <2>1. requests' \in Id /\ requests <= requests'
    BY <1>1, <1>2 DEF Shape, Id
  <2> QED
    BY <1>1, <1>15, <2>1, OwnEnd, Zenon
<1> QED
  BY <1>1, <1>14, <1>15, Zenon DEF Goto, Answer, y, z, v, r

LEMMA StartDeleteStep == ASSUME IInv, NEW c \in Client, StartDelete(c) PROVE IInv'
<1> DEFINE r == req[c]
           seen == {v \in Col : rows[r.table][v] # NoRow} \cup Written(r.writes)
           y == [r EXCEPT !.pc = "deletes", !.targets = Deleted(r) \cap seen]
<1>1. /\ r.pc = "puts" /\ PutsDone(r) /\ UNCHANGED <<rows, orphans, requests>>
      /\ req' = [req EXCEPT ![c] = y]
  BY Zenon DEF StartDelete, Goto
<1>2. /\ r \in Request /\ Shape /\ Disjoint /\ Past /\ Sound(r, rows) /\ InTransaction(r)
      /\ Accepted(r)
  BY <1>1, Zenon DEF IInv, Shape, Active, InTransaction, Sound
<1>3. Deleted(r) \subseteq Col /\ \A j \in DOMAIN Ops(r) : At(Ops(r)[j]) \in Col
  BY <1>2, DeletedAreRows, Zenon
<1>4. DOMAIN Ops(r) = 1..Len(Ops(r)) /\ r.at \in Nat \ {0} /\ r.id \in Row
  BY <1>2, ParamAssumption, Zenon DEF Accepted, InTransaction, Request, Row, Ops
<1>5. Deleted(r) \cap seen \in SUBSET Col
  BY <1>3, Zenon
<1> HIDE DEF seen
<1>6. /\ y \in Request /\ Same(y, r) /\ y.writes = r.writes /\ y.table = r.table
      /\ y.todo = r.todo /\ y.pc = "deletes" /\ y.targets = Deleted(r) \cap seen
  BY <1>2, <1>5, Zenon DEF Request, Same, Pc
<1> HIDE DEF y
<1>7. Ops(y) = Ops(r) /\ y.id = r.id /\ Within(y, r)
  BY <1>2, <1>6, Zenon DEF Ops, Same, Within, InTransaction
<1>8. Deleted(y) = Deleted(r)
  BY <1>7, Zenon DEF Deleted
<1>9. Named(y) /\ PutsWritten(y)
  BY <1>2, <1>6, <1>7, Zenon DEF Sound, Named, PutsWritten
<1>10. ASSUME NEW j \in DOMAIN Ops(r), IsPut(Ops(r)[j]) PROVE r.writes[At(Ops(r)[j])] = r.id
  <2>1. j < r.at
    BY <1>1, <1>4, <1>10 DEF PutsDone
  <2> QED
    BY <1>1, <1>2, <1>10, <2>1, Zenon DEF Sound, PutsWritten
<1>11. \A v \in Deleted(r) : \/ v \in y.targets
                             \/ r.writes[v] = Unwritten /\ rows[r.table][v] = NoRow
  BY <1>3, <1>6, Zenon DEF seen, Written
<1>12. DeletesWritten(y, rows)
  BY <1>6, <1>7, <1>8, <1>10, <1>11, Zenon DEF DeletesWritten
<1>13. Sound(y, rows)
  BY <1>2, <1>6, <1>7, <1>9, <1>12, WithinSound, Zenon
<1>14. \A z : Apart(r, z) => Apart(y, z)
  BY <1>2, <1>6, Zenon DEF Apart
<1>15. requests' \in Id /\ requests <= requests' /\ y.id <= requests'
  BY <1>1, <1>2, <1>7 DEF Shape, Id, Past, Active
<1>16. \A d \in Client \ {c} : Apart(y, req[d])
  BY <1>2, <1>14, Zenon DEF Disjoint
<1>17. \A o \in orphans : Apart(y, o.req)
  BY <1>2, <1>14, Zenon DEF Disjoint
<1> QED
  BY <1>1, <1>6, <1>13, <1>15, <1>16, <1>17, OwnMove, Zenon

LEMMA DeleteRowStep ==
  ASSUME IInv, NEW c \in Client, NEW v \in Col, DeleteRow(c, v)
  PROVE  IInv'
<1> DEFINE r == req[c]
           z == Write(r, v, NoRow)
           y == [z EXCEPT !.targets = @ \ {v}]
<1>1. /\ r.pc = "deletes" /\ v \in r.targets /\ Free(c, r.table, v)
      /\ UNCHANGED <<rows, orphans, requests>> /\ req' = [req EXCEPT ![c] = y]
  BY Zenon DEF DeleteRow, Goto
<1>2. r \in Request /\ Sound(r, rows) /\ InTransaction(r) /\ Accepted(r)
  BY <1>1, Zenon DEF IInv, Shape, Active, InTransaction, Sound
<1>3. /\ z \in Request /\ Same(z, r) /\ z.writes[v] = NoRow
      /\ Frame(z, r)
      /\ \A u \in Col \ {v} : z.writes[u] = r.writes[u]
      /\ Written(z.writes) = Written(r.writes) \cup {v}
  <2>1. Wrote(z, r, v, NoRow)
    BY <1>2, NoRowIsRow, WriteIs, Zenon
  <2> QED
    BY <2>1, Zenon DEF Wrote
<1> HIDE DEF z
<1>4. /\ y \in Request /\ Same(y, r) /\ y.writes = z.writes
      /\ y.pc = "deletes" /\ y.table = r.table /\ y.todo = r.todo /\ y.targets = r.targets \ {v}
  BY <1>1, <1>2, <1>3 DEF Request, Same, Frame
<1> HIDE DEF y
<1>5. Ops(y) = Ops(r) /\ y.id = r.id /\ Within(y, r)
  BY <1>2, <1>4, Zenon DEF Ops, Same, Within, InTransaction
<1>6. Deleted(y) = Deleted(r)
  BY <1>5, Zenon DEF Deleted
<1>7. DeletesWritten(r, rows)
  BY <1>2, Zenon DEF Sound
<1>8. /\ Deleted(r) \subseteq Col /\ \A j \in DOMAIN Ops(r) : At(Ops(r)[j]) \in Col
      /\ \A u \in Deleted(r) : \E j \in DOMAIN Ops(r) : IsDelete(Ops(r)[j]) /\ At(Ops(r)[j]) = u
  BY <1>2, DeletedAreRows, Zenon
<1>9. v \in Deleted(r) /\ r.targets \subseteq Deleted(r)
  BY <1>1, <1>7, Zenon DEF DeletesWritten
<1>10. Named(y)
  <2>1. ASSUME NEW u \in Written(y.writes)
        PROVE  y.writes[u] \in {y.id, NoRow} /\ \E j \in DOMAIN Ops(y) : At(Ops(y)[j]) = u
    <3>1. CASE u = v
      BY <1>3, <1>4, <1>5, <1>8, <1>9, <3>1, Zenon
    <3>2. CASE u # v
      <4>1. u \in Written(r.writes) /\ y.writes[u] = r.writes[u]
        BY <1>3, <1>4, <3>2, Zenon DEF Written
      <4> QED
        BY <1>2, <1>5, <4>1, Zenon DEF Sound, Named
    <3> QED
      BY <3>1, <3>2, Zenon
  <2> QED
    BY <2>1, Zenon DEF Named
<1>11. PutsWritten(y)
  BY <1>4, Zenon DEF PutsWritten
<1>12. DeletesWritten(y, rows)
  <2>1. ASSUME NEW j \in DOMAIN Ops(r), IsPut(Ops(r)[j])
        PROVE  y.writes[At(Ops(r)[j])] = r.id \/ At(Ops(r)[j]) \in Deleted(r)
    BY <1>1, <1>3, <1>4, <1>7, <1>8, <1>9, <2>1, Zenon DEF DeletesWritten
  <2>2. ASSUME NEW u \in Deleted(r)
        PROVE  \/ u \in y.targets
               \/ y.writes[u] = NoRow
               \/ y.writes[u] = Unwritten
                  /\ (rows[r.table][u] = NoRow \/ <<r.table, u>> \in r.touched)
    BY <1>1, <1>3, <1>4, <1>7, <1>8, Zenon DEF DeletesWritten
  <2> QED
    BY <1>4, <1>5, <1>6, <1>9, <2>1, <2>2, Zenon DEF DeletesWritten, Same
<1>13. Sound(y, rows)
  BY <1>2, <1>4, <1>5, <1>10, <1>11, <1>12, WithinSound, Zenon
<1> QED
  BY <1>1, <1>2, <1>3, <1>4, <1>5, <1>13, WriteMove, Zenon

\* At the COMMIT the table has, or gets, what its part of the batch asks for.
LEMMA PartIsDone ==
  ASSUME NEW r \in Request, NEW d \in Tables, Sound(r, d), r.pc = "deletes", r.targets = {},
         DistinctItems(r), NEW i \in DOMAIN Ops(r)
  PROVE  \/ Land(d, r.table, r.writes)[r.table][At(Ops(r)[i])] = Leaves(r, Ops(r)[i])
         \/ IsDelete(Ops(r)[i]) /\ <<r.table, At(Ops(r)[i])>> \in r.touched
<1> DEFINE e == Land(d, r.table, r.writes)
           v == At(Ops(r)[i])
<1>1. /\ InTransaction(r) /\ Accepted(r) /\ DeletesWritten(r, d) /\ r.table \in Table
      /\ r.kind = "write" /\ r.table \in DOMAIN r.batch /\ r.writes \in WriteSet /\ r.id \in Id
  BY Zenon DEF Sound, Accepted, InTransaction, Request
<1>2. v \in Col /\ IsPut(Ops(r)[i]) # IsDelete(Ops(r)[i])
  BY <1>1, PlacesAreRows, Zenon DEF Ops
<1>3. /\ \A j \in DOMAIN Ops(r) : IsDelete(Ops(r)[j]) => At(Ops(r)[j]) \in Deleted(r)
      /\ \A u \in Deleted(r) : \E j \in DOMAIN Ops(r) : IsDelete(Ops(r)[j]) /\ At(Ops(r)[j]) = u
  BY <1>1, DeletedAreRows, Zenon
<1>4. /\ v \in Written(r.writes) => e[r.table][v] = r.writes[v]
      /\ v \notin Written(r.writes) => e[r.table][v] = d[r.table][v]
  BY <1>1, <1>2, LandIs
<1> HIDE DEF e
<1>5. CASE IsPut(Ops(r)[i])
  <2>1. \A j \in DOMAIN Ops(r) : At(Ops(r)[j]) = v => j = i
    <3>1. \A j, k \in DOMAIN r.batch[r.table] :
            Column[KeyOf("write", r.batch[r.table][j])]
              = Column[KeyOf("write", r.batch[r.table][k])] => j = k
      BY <1>1, Zenon DEF DistinctItems
    <3> QED
      BY <3>1, Zenon DEF Ops, At
  <2>2. v \notin Deleted(r)
    BY <1>2, <1>3, <1>5, <2>1, Zenon
  <2>3. r.writes[v] = r.id
    BY <1>1, <1>5, <2>2, Zenon DEF DeletesWritten
  <2>4. v \in Written(r.writes)
    BY <1>1, <1>2, <2>3, ParamAssumption, Zenon DEF Written, Id
  <2> QED
    BY <1>4, <1>5, <2>3, <2>4, Zenon DEF Leaves, e
<1>6. CASE IsDelete(Ops(r)[i])
  <2>1. ~IsPut(Ops(r)[i]) /\ v \in Deleted(r)
    BY <1>2, <1>3, <1>6, Zenon
  <2>2. \/ r.writes[v] = NoRow
        \/ r.writes[v] = Unwritten /\ (d[r.table][v] = NoRow \/ <<r.table, v>> \in r.touched)
    BY <1>1, <2>1, Zenon DEF DeletesWritten
  <2>3. e[r.table][v] = NoRow \/ <<r.table, v>> \in r.touched
    BY <1>2, <1>4, <2>2, NoRowIsRow, Zenon DEF Written
  <2> QED
    BY <1>6, <2>1, <2>3, Zenon DEF Leaves, e
<1>7. IsPut(Ops(r)[i]) \/ IsDelete(Ops(r)[i])
  BY <1>2, Zenon DEF IsPut, IsDelete
<1> QED
  BY <1>5, <1>6, <1>7, Zenon

LEMMA CommitComplete ==
  ASSUME NEW r \in Request, NEW d \in Tables, Sound(r, d), r.pc = "deletes", r.targets = {}
  PROVE  /\ Complete(r, Land(d, r.table, r.writes))
         /\ Basis(r, Land(d, r.table, r.writes))
<1> DEFINE e == Land(d, r.table, r.writes)
           t == r.table
<1>1. /\ Accepted(r) /\ r.table \in Table /\ r.kind = "write" /\ DOMAIN r.batch \subseteq Table
      /\ r.table \in DOMAIN r.batch \ r.todo /\ r.writes \in WriteSet
  BY Zenon DEF Sound, Accepted, InTransaction, Request
<1>2. Finished(r) = (DOMAIN r.batch \ r.todo) \ {t}
  BY Zenon DEF Finished
<1>3. \A x \in r.items : x.table \in Finished(r)
  BY Zenon DEF Sound
<1>4. ASSUME DistinctItems(r), NEW u \in Finished(r) PROVE Told(r, e, u)
  <2>1. Told(r, d, u)
    BY <1>4, Zenon DEF Sound
  <2>2. e[u] = d[u]
    BY <1>1, <1>2, LandIs
  <2> QED
    BY <2>1, <2>2, Zenon DEF Told
<1>5. ASSUME DistinctItems(r) PROVE Told(r, e, t)
  <2> SUFFICES ASSUME NEW i \in DOMAIN Ops(r)
               PROVE  \/ <<t, At(Ops(r)[i])>> \in r.touched
                      \/ e[t][At(Ops(r)[i])] = Leaves(r, Ops(r)[i])
    BY <1>1, Zenon DEF Told, Ops, At
  <2> QED
    BY <1>5, PartIsDone, Zenon
<1> HIDE DEF e
<1>6. Complete(r, e)
  BY <1>1, <1>2, <1>3, <1>4, <1>5, Zenon DEF Complete
<1>7. Basis(r, e)
  BY <1>1, <1>3, <1>4, Zenon DEF Basis
<1> QED
  BY <1>6, <1>7, Zenon DEF e

\* The request commits and goes on as y, with no row held.
LEMMA CommitMove ==
  ASSUME IInv, NEW c \in Client, NEW y \in Request,
         req[c].pc = "deletes",
         rows' = After(req[c].table, req[c].writes),
         req' = [Changed(Client \ {c}, req[c].table, req[c].writes) EXCEPT ![c] = y],
         orphans' = Outlived(orphans, req[c].table, req[c].writes), requests' = requests,
         y.pc # "idle" => Sound(y, rows') /\ y.id = req[c].id,
         InTransaction(y) => Written(y.writes) = {}
  PROVE  IInv'
<1> DEFINE r == req[c]
           t == r.table
           w == r.writes
           D == Client \ {c}
<1>1. /\ Sound(r, rows) /\ r \in Request /\ r.id <= requests /\ requests \in Id
      /\ Shape /\ Disjoint /\ Past /\ InTransaction(r)
  BY Zenon DEF IInv, Shape, Active, Past, InTransaction
<1>2. t \in Table /\ w \in WriteSet /\ \A v \in Written(w) : w[v] \in 0..requests \cup {NoRow}
  BY <1>1, NamedPast, Zenon
<1>3. Spared(D, orphans, t, w)
  <2>1. \A d \in D : Apart(req[d], r)
    BY <1>1, Zenon DEF Disjoint
  <2>2. \A o \in orphans : Apart(r, o.req) /\ InTransaction(o.req)
    BY <1>1, Zenon DEF Disjoint, IInv, Left
  <2> QED
    BY <1>1, <2>1, <2>2, Zenon DEF Spared, Apart
<1>4. Lives(D, orphans, t, w)
  <2>1. D \in SUBSET Client /\ orphans \in SUBSET orphans
    BY Zenon
  <2> HIDE DEF D
  <2> QED
    BY <1>2, <1>3, <2>1, OthersLive, Zenon
<1>5. /\ req'[c] = y /\ \A d \in D : req'[d] = Changed(D, t, w)[d]
      /\ req' = [d \in Client |-> req'[d]]
  BY Zenon DEF Changed
<1> HIDE DEF t, w, D
<1>6. /\ rows' \in Tables
      /\ \A d \in D : /\ req'[d] \in Request /\ Similar(req'[d], req[d])
                      /\ Active(d) => Sound(req'[d], rows')
      /\ orphans' \subseteq Orphan /\ \A p \in orphans' : Left(p, rows')
      /\ \A p \in orphans' : \E o \in orphans :
           p = [o EXCEPT !.req = Touched(o.req, t, w)] /\ Similar(p.req, o.req)
  BY <1>4, <1>5, Zenon DEF Lives
<1>7. Shape'
  BY <1>1, <1>5, <1>6, Zenon DEF Shape, D
<1>8. \A d \in D : Active(d)' => Active(d) /\ req'[d].id = req[d].id
  BY <1>6, Zenon DEF Active, Similar
<1>9. Disjoint'
  <2>1. \A z : Apart(y, z) /\ Apart(z, y)
    BY ClearApart, Zenon
  <2>2. ASSUME NEW d \in D, NEW e \in D, d # e PROVE Apart(req'[d], req'[e])
    BY <1>1, <1>6, <2>2, SimilarApart, Zenon DEF Disjoint, D
  <2>3. ASSUME NEW d \in D, NEW p \in orphans' PROVE Apart(req'[d], p.req)
    <3>1. PICK o \in orphans : Similar(p.req, o.req)
      BY <1>6, Zenon
    <3>2. Apart(req[d], o.req) /\ Similar(req'[d], req[d])
      BY <1>1, <1>6, Zenon DEF Disjoint, D
    <3> QED
      BY <3>1, <3>2, SimilarApart, Zenon
  <2>4. ASSUME NEW p \in orphans', NEW q \in orphans', p # q PROVE Apart(p.req, q.req)
    BY <1>1, <1>6, <2>4, SimilarApart DEF Disjoint
  <2> QED
    <3>1. ASSUME NEW d \in Client, NEW e \in Client, d # e PROVE Apart(req'[d], req'[e])
      <4>1. d = c \/ e = c \/ (d \in D /\ e \in D)
        BY Zenon DEF D
      <4> QED
        BY <1>5, <2>1, <2>2, <3>1, <4>1, Zenon
    <3>2. \A d \in Client, p \in orphans' : Apart(req'[d], p.req)
      BY <1>5, <2>1, <2>3, Zenon DEF D
    <3> QED
      BY <2>4, <3>1, <3>2, Zenon DEF Disjoint
<1>10. Past'
  <2>1. \A u \in Table, v \in Col : rows'[u][v] \in 0..requests' \cup {NoRow}
    BY <1>2, LandPast, Zenon DEF t, w
  <2>2. \A d \in Client : Active(d)' => req'[d].id <= requests'
    BY <1>1, <1>5, <1>8, Zenon DEF Past, D, Active
  <2>3. \A p \in orphans' : p.req.id <= requests'
    <3> SUFFICES ASSUME NEW p \in orphans' PROVE p.req.id <= requests'
      BY Zenon
    <3>1. PICK q \in orphans : Similar(p.req, q.req)
      BY <1>6, Zenon
    <3>2. p.req.id = q.req.id /\ q.req.id <= requests
      BY <1>1, <3>1, Zenon DEF Past, Similar
    <3> QED
      BY <3>2, Zenon
  <2> QED
    BY <2>1, <2>2, <2>3, Zenon DEF Past
<1>11. \A d \in Client : Active(d)' => Sound(req'[d], rows')
  BY <1>5, <1>6, <1>8, Zenon DEF D, Active
<1> QED
  BY <1>6, <1>7, <1>9, <1>10, <1>11, Zenon DEF IInv

LEMMA CommitStep == ASSUME IInv, NEW c \in Client, Commit(c) PROVE IInv'
<1> DEFINE r == req[c]
           n == r.attempt + 1
           R == Changed(Client \ {c}, r.table, r.writes)
           next == [r EXCEPT !.pc = "next"]
           again == Started(r, r.table, n)
<1>1. /\ r.pc = "deletes" /\ r.targets = {} /\ rows' = After(r.table, r.writes)
      /\ orphans' = Outlived(orphans, r.table, r.writes) /\ requests' = requests
      /\ \/ req' = [R EXCEPT ![c] = next] \/ req' = [R EXCEPT ![c] = Idle]
         \/ req' = [R EXCEPT ![c] = again]
  BY Zenon DEF Commit, Advance, FailTransient, Goto, Answer
<1>2. r \in Request /\ rows \in Tables /\ Sound(r, rows) /\ n \in Nat
  BY <1>1 DEF IInv, Shape, Active, Request
<1>3. Complete(r, rows') /\ Basis(r, rows')
  <2>1. rows' = Land(rows, r.table, r.writes)
    BY <1>1, Zenon DEF After, Land
  <2> QED
    BY <1>1, <1>2, <2>1, CommitComplete, Zenon
<1>4. next \in Request /\ Sound(next, rows') /\ next.id = r.id /\ ~InTransaction(next)
  BY <1>2, <1>3, AdvanceSound, Zenon
<1>5. again \in Request /\ Sound(again, rows') /\ again.id = r.id /\ Written(again.writes) = {}
  BY <1>1, <1>2, <1>3, RetrySound, Zenon
<1> HIDE DEF next, again, R, n
<1>6. CASE req' = [R EXCEPT ![c] = next]
  BY <1>1, <1>4, <1>6, CommitMove, Zenon DEF R
<1>7. CASE req' = [R EXCEPT ![c] = again]
  BY <1>1, <1>5, <1>7, CommitMove, Zenon DEF R
<1>8. CASE req' = [R EXCEPT ![c] = Idle]
  BY <1>1, <1>8, IdleIs, CommitMove, Zenon DEF R
<1> QED
  BY <1>1, <1>6, <1>7, <1>8, Zenon

--------------------------------------------------------------------------------
(* Failures, and what is left behind.                                      *)

\* A transaction rolls back and is tried again, or the request ends.
LEMMA FailMove ==
  ASSUME IInv, NEW c \in Client, req[c].pc \in {"puts", "deletes", "read"},
         UNCHANGED <<rows, orphans, requests>>,
         FailTransient(req, c) \/ Answer(req, c, req[c], "error")
  PROVE  IInv'
<1> DEFINE r == req[c]
           n == r.attempt + 1
           y == Started(r, r.table, n)
<1>1. req' = [req EXCEPT ![c] = y] \/ req' = [req EXCEPT ![c] = Idle]
  BY Zenon DEF FailTransient, Goto, Answer
<1>2. /\ r \in Request /\ requests \in Id /\ n \in Nat /\ r.pc # "next"
      /\ Sound(r, rows) /\ r.id <= requests
  BY DEF IInv, Shape, Active, Request, Past
<1>3. Basis(r, rows)
  BY <1>2, SoundBasis, Zenon
<1>4. y \in Request /\ Sound(y, rows) /\ y.id = r.id /\ Written(y.writes) = {}
  BY <1>2, <1>3, RetrySound, Zenon
<1>5. requests' \in Id /\ requests <= requests' /\ y.id <= requests'
  BY <1>2, <1>4 DEF Id
<1> HIDE DEF y
<1> QED
  BY <1>1, <1>4, <1>5, ClearMove, OwnEnd, Zenon

\* The timeout: the request ends, its transaction does not.
LEMMA LeaveMove ==
  ASSUME IInv, NEW c \in Client, InTransaction(req[c]), NEW lands \in BOOLEAN,
         lands => req[c].pc = "deletes" /\ req[c].targets = {},
         req' = [req EXCEPT ![c] = Idle], UNCHANGED <<rows, requests>>,
         orphans' = orphans \cup {[req |-> req[c], holds |-> Written(req[c].writes),
                                   lands |-> lands, last |-> requests]}
  PROVE  IInv'
<1> DEFINE r == req[c]
           p == [req |-> r, holds |-> Written(r.writes), lands |-> lands, last |-> requests]
<1>1. /\ r \in Request /\ requests \in Id /\ Shape /\ Disjoint /\ Past
      /\ Sound(r, rows) /\ r.id <= requests
  BY Zenon DEF IInv, Shape, Active, InTransaction, Past
<1>2. /\ p \in Orphan /\ p.req = r /\ p.holds = Written(r.writes) /\ p.lands = lands
      /\ p.last = requests
  BY <1>1, Zenon DEF Orphan, Written
<1> HIDE DEF p
<1>3. orphans' = orphans \cup {p}
  BY Zenon DEF p
<1>4. Left(p, rows)
  <2>1. ASSUME NEW v \in Written(r.writes) PROVE rows[r.table][v] \in 0..requests \cup {NoRow}
    BY <1>1, Zenon DEF Past, Written, Sound, Accepted, InTransaction
  <2> QED
    BY <1>1, <1>2, <2>1, Zenon DEF Left
<1>5. /\ req'[c] = Idle /\ req' \in [Client -> Request]
      /\ \A d \in Client \ {c} : req'[d] = req[d]
  BY <1>1, IdleIs, Zenon DEF Shape
<1>6. Shape'
  BY <1>1, <1>2, <1>3, <1>5, Zenon DEF Shape
<1>7. Disjoint'
  <2>1. \A z : Apart(Idle, z) /\ Apart(z, Idle)
    BY IdleIs, ClearApart, Zenon
  <2>2. \A d \in Client \ {c} : Apart(req[d], r)
    BY <1>1, Zenon DEF Disjoint
  <2>3. \A o \in orphans : Apart(r, o.req) /\ Apart(o.req, r)
    BY <1>1, ApartSwaps, Zenon DEF Disjoint
  <2>4. ASSUME NEW d \in Client, NEW e \in Client, d # e PROVE Apart(req'[d], req'[e])
    BY <1>1, <1>5, <2>1, <2>4, Zenon DEF Disjoint
  <2>5. ASSUME NEW d \in Client, NEW o \in orphans' PROVE Apart(req'[d], o.req)
    BY <1>1, <1>2, <1>3, <1>5, <2>1, <2>2, Zenon DEF Disjoint
  <2>6. ASSUME NEW o \in orphans', NEW q \in orphans', o # q PROVE Apart(o.req, q.req)
    BY <1>1, <1>2, <1>3, <2>3, <2>6, Zenon DEF Disjoint
  <2> QED
    BY <2>4, <2>5, <2>6, Zenon DEF Disjoint
<1>8. Past'
  BY <1>1, <1>2, <1>3, <1>5, IdleIs, Zenon DEF Past, Active
<1>9. \A d \in Client : Active(d)' => Sound(req'[d], rows')
  BY <1>5, IdleIs, Zenon DEF IInv, Active
<1>10. \A o \in orphans' : Left(o, rows')
  BY <1>3, <1>4, Zenon DEF IInv
<1> QED
  BY <1>6, <1>7, <1>8, <1>9, <1>10, Zenon DEF IInv

LEMMA TimeoutStep == ASSUME IInv, NEW c \in Client, Timeout(c) PROVE IInv'
<1>1. req' = [req EXCEPT ![c] = Idle] /\ UNCHANGED <<rows, requests>>
  BY Zenon DEF Timeout, Answer
<1>2. CASE UNCHANGED orphans
  <2>1. requests' \in Id /\ requests <= requests'
    BY <1>1 DEF IInv, Shape, Id
  <2> QED
    BY <1>1, <1>2, <2>1, OwnEnd, Zenon
<1>3. CASE /\ InTransaction(req[c])
           /\ orphans' = orphans \cup {[req |-> req[c], holds |-> Written(req[c].writes),
                                        lands |-> FALSE, last |-> requests]}
  BY <1>1, <1>3, LeaveMove, Zenon
<1>4. CASE /\ req[c].pc = "deletes" /\ req[c].targets = {}
           /\ orphans' = orphans \cup {[req |-> req[c], holds |-> Written(req[c].writes),
                                        lands |-> TRUE, last |-> requests]}
  <2>1. InTransaction(req[c])
    BY <1>4, Zenon DEF InTransaction
  <2> QED
    BY <1>1, <1>4, <2>1, LeaveMove, Zenon
<1> QED
  BY <1>2, <1>3, <1>4, Zenon DEF Timeout, InTx, InTransaction

\* A transaction left behind is rolled back.
LEMMA RollbackStep ==
  ASSUME IInv, NEW o \in orphans, ~o.lands, EndOrphan(o)
  PROVE  IInv'
<1>1. orphans' = orphans \ {o} /\ UNCHANGED <<rows, req, requests>>
  BY Zenon DEF EndOrphan
<1>2. Shape' /\ Past'
  BY <1>1, Zenon DEF IInv, Shape, Past, Active
<1>3. Disjoint'
  BY <1>1, Zenon DEF IInv, Disjoint
<1>4. /\ \A c \in Client : Active(c)' => Sound(req'[c], rows')
      /\ \A p \in orphans' : Left(p, rows')
  BY <1>1, Zenon DEF IInv, Active
<1> QED
  BY <1>2, <1>3, <1>4, Zenon DEF IInv

--------------------------------------------------------------------------------
LEMMA InitIInv == Init => IInv
<1> SUFFICES ASSUME Init PROVE IInv
  BY Zenon
<1>1. /\ rows \in [Table -> [Col -> {0, NoRow}]] /\ req = [c \in Client |-> Idle]
      /\ orphans = {} /\ requests = 0
  BY ParamAssumption, Zenon DEF Init
<1>2. 0 \in Id /\ 0 \in Row /\ NoRow \in Row
  BY ParamAssumption DEF Id, Row
<1>3. \A c \in Client : req[c] = Idle /\ ~Active(c) /\ ~InTransaction(req[c])
  BY <1>1, IdleIs, Zenon DEF Active
<1>4. Shape
  BY <1>1, <1>2, IdleIs DEF Shape, Tables
<1>5. Disjoint
  BY <1>1, <1>3, Zenon DEF Disjoint, Apart
<1>6. Past
  BY <1>1, <1>3 DEF Past
<1> QED
  BY <1>1, <1>3, <1>4, <1>5, <1>6, Zenon DEF IInv

LEMMA NextIInv == IInv /\ [Next]_vars => IInv'
<1> SUFFICES ASSUME IInv, [Next]_vars PROVE IInv'
  BY Zenon
<1>1. CASE UNCHANGED vars
  <2>1. rows' = rows /\ req' = req /\ orphans' = orphans /\ requests' = requests
    BY <1>1, Zenon DEF vars
  <2>2. Shape' /\ Disjoint' /\ Past'
    BY <2>1, Zenon DEF IInv, Shape, Disjoint, Past, Active
  <2> QED
    BY <2>1, <2>2, Zenon DEF IInv, Active
<1>2. ASSUME NEW c \in Client, BatchWriteItem(c) \/ BatchGetItem(c) PROVE IInv'
  BY <1>2, ReceiveStep, Zenon DEF BatchWriteItem, BatchGetItem
<1>3. ASSUME NEW c \in Client, Work(c) PROVE IInv'
  <2>1. ASSUME Deadlock(c) PROVE IInv'
    <3>1. /\ req[c].pc \in {"puts", "deletes", "read"} /\ FailTransient(req, c)
          /\ UNCHANGED <<rows, orphans, requests>>
      BY <2>1, Zenon DEF Deadlock, InTx
    <3> QED
      BY <3>1, FailMove, Zenon
  <2> QED
    BY Zenon, <1>3, <2>1, NextTableStep, ReadStep, PutRowStep, StartDeleteStep, CommitStep,
       DeleteRowStep, Zenon DEF Work
<1>4. ASSUME NEW c \in Client, Fail(c) PROVE IInv'
  BY <1>4, FailMove, Zenon DEF Fail
<1>5. ASSUME NEW c \in Client, Timeout(c) PROVE IInv'
  BY <1>5, TimeoutStep, Zenon
<1>6. ASSUME NEW o \in orphans, EndOrphan(o) PROVE IInv'
  BY <1>6, LandStep, RollbackStep, Zenon
<1> QED
  BY <1>1, <1>2, <1>3, <1>4, <1>5, <1>6, Zenon DEF Next

LEMMA AlwaysIInv == Spec => []IInv
  BY InitIInv, NextIInv, PTL DEF Spec

\* A step that answers "ok" answers a request with every table done.
LEMMA OkIsComplete ==
  ASSUME IInv, Next, reply'.is = "ok"
  PROVE  Complete(reply'.req, rows') /\ reply'.req.todo = {}
<1>1. NoReply.is = "none"
  BY Zenon DEF NoReply
<1>2. ASSUME NEW c \in Client, Read(c)
      PROVE  Complete(reply'.req, rows') /\ reply'.req.todo = {}
  <2> DEFINE r == req[c]
             y == [r EXCEPT !.items = @ \cup Found(r, rows)]
  <2>1. /\ r.pc = "read" /\ rows' = rows
        /\ \/ reply' = NoReply
           \/ y.todo = {} /\ reply' = [is |-> "ok", req |-> y]
    BY <1>2, Zenon DEF Read, Advance, Goto, Answer, Found, Asked
  <2>2. r \in Request /\ rows \in Tables /\ Sound(r, rows)
    BY <2>1, Zenon DEF IInv, Shape, Active
  <2>3. Complete(y, rows)
    BY <2>1, <2>2, ReadComplete, Zenon
  <2> HIDE DEF y
  <2>4. reply'.req = y /\ y.todo = {}
    BY <1>1, <2>1
  <2> QED
    BY <2>1, <2>3, <2>4, Zenon
<1>3. ASSUME NEW c \in Client, Commit(c)
      PROVE  Complete(reply'.req, rows') /\ reply'.req.todo = {}
  <2> DEFINE r == req[c]
  <2>1. /\ r.pc = "deletes" /\ r.targets = {} /\ rows' = Land(rows, r.table, r.writes)
        /\ \/ reply' = NoReply
           \/ r.todo = {} /\ reply' = [is |-> "ok", req |-> r]
           \/ reply' = [is |-> "error", req |-> r]
    BY <1>3, Zenon DEF Commit, Advance, FailTransient, Goto, Answer, After, Land
  <2>2. r \in Request /\ rows \in Tables /\ Sound(r, rows)
    BY <2>1, Zenon DEF IInv, Shape, Active
  <2>3. Complete(r, rows')
    BY <2>1, <2>2, CommitComplete, Zenon
  <2> HIDE DEF r
  <2>4. reply'.req = r /\ r.todo = {}
    BY <1>1, <2>1
  <2> QED
    BY <2>3, <2>4, Zenon
<1>4. ASSUME NEW c \in Client,
             \/ BatchWriteItem(c) \/ BatchGetItem(c) \/ Fail(c) \/ Timeout(c)
             \/ \E t \in Table : NextTable(c, t)
             \/ PutRow(c) \/ StartDelete(c) \/ Deadlock(c)
             \/ \E v \in Col : DeleteRow(c, v)
      PROVE  FALSE
  <2>1. \/ reply' = NoReply
        \/ \E is \in {"error", "invalid", "not_found"} : \E r : reply' = [is |-> is, req |-> r]
    BY <1>4, Zenon DEF BatchWriteItem, BatchGetItem, Receive, Fail, Timeout, NextTable,
       PutRow, StartDelete, Deadlock, DeleteRow, FailTransient, Goto, Answer
  <2> QED
    BY <1>1, <2>1
<1>5. ASSUME NEW o \in orphans, EndOrphan(o) PROVE FALSE
  BY <1>1, <1>5, Zenon DEF EndOrphan
<1> QED
  BY <1>2, <1>3, <1>4, <1>5, Zenon DEF Next, Work

Answered == reply.is = "ok" => Complete(reply.req, rows) /\ reply.req.todo = {}

(***************************************************************************)
(* An answered batch can be relied on, whatever other requests, retries,   *)
(* deadlocks, timeouts and late COMMITs there were while it ran.           *)
(***************************************************************************)
THEOREM AnswersAreCurrent == Spec => []AnswerIsCurrent
<1>1. Init => Answered
  BY DEF Init, Answered, NoReply
<1>2. IInv /\ Answered /\ [Next]_vars => Answered'
  <2> SUFFICES ASSUME IInv, Answered, [Next]_vars PROVE Answered'
    BY Zenon
  <2>1. CASE UNCHANGED vars
    BY <2>1, Zenon DEF vars, Answered
  <2>2. CASE Next
    BY <2>2, OkIsComplete, Zenon DEF Answered
  <2> QED
    BY <2>1, <2>2, Zenon
<1>3. Answered => AnswerIsCurrent
  <2> SUFFICES ASSUME Answered, reply.is = "ok", DistinctItems(reply.req),
                      NEW t \in DOMAIN reply.req.batch
               PROVE  Told(reply.req, rows, t)
    BY Zenon DEF AnswerIsCurrent, Told, Got
  <2> QED
    BY Zenon DEF Answered, Complete
<1> QED
  BY <1>1, <1>2, <1>3, AlwaysIInv, PTL DEF Spec

\* The commit of a transaction changes its table to what its request asks of it.
LEMMA CommitIsWhole ==
  ASSUME IInv, NEW r \in Request, Sound(r, rows), r.pc = "deletes", r.targets = {},
         rows' = After(r.table, r.writes)
  PROVE  /\ \A t \in Table : rows'[t] # rows[t] => r.table = t
         /\ DistinctItems(r) => Whole(r)
<1>1. rows' = Land(rows, r.table, r.writes) /\ rows \in Tables
  BY Zenon DEF After, Land, IInv, Shape
<1>2. r.table \in Table /\ r.writes \in WriteSet /\ InTransaction(r) /\ Named(r)
  BY Zenon DEF Sound, Accepted, InTransaction, Request
<1>3. /\ \A t \in Table \ {r.table} : rows'[t] = rows[t]
      /\ \A v \in Col \ Written(r.writes) : rows'[r.table][v] = rows[r.table][v]
  BY <1>1, <1>2, LandIs
<1>4. ASSUME DistinctItems(r) PROVE Whole(r)
  <2>1. \A i \in DOMAIN Ops(r) :
          \/ rows'[r.table][At(Ops(r)[i])] = Leaves(r, Ops(r)[i])
          \/ IsDelete(Ops(r)[i]) /\ <<r.table, At(Ops(r)[i])>> \in r.touched
    BY <1>1, <1>4, PartIsDone, Zenon
  <2>2. \A v \in Col : rows'[r.table][v] # rows[r.table][v] =>
          \E i \in DOMAIN Ops(r) : At(Ops(r)[i]) = v
    BY <1>2, <1>3, Zenon DEF Named
  <2> QED
    BY <2>1, <2>2, Zenon DEF Whole, Ops, At
<1> QED
  BY <1>3, <1>4, Zenon

(***************************************************************************)
(* Failure never splits a table: every step that changes one changes it to *)
(* all of what one request asks of it.                                     *)
(***************************************************************************)
THEOREM TablesStayWhole == Spec => TablesWhole
<1>1. IInv /\ [Next]_vars =>
        \A t \in Table : rows'[t] # rows[t] =>
          \E r \in {req[c] : c \in {d \in Client : InTx(d)}} \cup {o.req : o \in orphans} :
            r.table = t /\ (DistinctItems(r) => Whole(r))
  <2> DEFINE Reqs == {req[c] : c \in {d \in Client : InTx(d)}} \cup {o.req : o \in orphans}
             Body == \A t \in Table : rows'[t] # rows[t] =>
                       \E r \in Reqs : r.table = t /\ (DistinctItems(r) => Whole(r))
  <2> SUFFICES ASSUME IInv, [Next]_vars PROVE Body
    BY Zenon
  <2> HIDE DEF Reqs
  <2>1. ASSUME NEW r \in Reqs, r \in Request, Sound(r, rows), r.pc = "deletes",
               r.targets = {}, rows' = After(r.table, r.writes)
        PROVE  Body
    BY <2>1, CommitIsWhole, Zenon
  <2>2. CASE UNCHANGED rows
    BY <2>2, Zenon
  <2> HIDE DEF Body
  <2>3. ASSUME NEW c \in Client, Commit(c) PROVE Body
    <3>1. /\ req[c].pc = "deletes" /\ req[c].targets = {}
          /\ rows' = After(req[c].table, req[c].writes)
      BY <2>3, Zenon DEF Commit
    <3>2. req[c] \in Reqs /\ req[c] \in Request /\ Sound(req[c], rows)
      BY <3>1, Zenon DEF Reqs, InTx, IInv, Shape, Active
    <3> QED
      BY <2>1, <3>1, <3>2, Zenon
  <2>4. ASSUME NEW o \in orphans, EndOrphan(o) PROVE Body
    <3>1. CASE ~o.lands
      BY <2>2, <2>4, <3>1, Zenon DEF EndOrphan
    <3>2. CASE o.lands
      <4>1. rows' = After(o.req.table, o.req.writes)
        BY <2>4, <3>2, Zenon DEF EndOrphan
      <4>2. /\ o.req \in Request /\ Sound(o.req, rows) /\ o.req.pc = "deletes"
            /\ o.req.targets = {}
        BY <3>2, Zenon DEF IInv, Shape, Orphan, Left
      <4>3. o.req \in Reqs
        BY Zenon DEF Reqs
      <4> QED
        BY <2>1, <4>1, <4>2, <4>3, Zenon
    <3> QED
      BY <3>1, <3>2, Zenon
  <2>5. ASSUME NEW c \in Client,
               \/ BatchWriteItem(c) \/ BatchGetItem(c) \/ Fail(c) \/ Timeout(c)
               \/ \E t \in Table : NextTable(c, t)
               \/ Read(c) \/ PutRow(c) \/ StartDelete(c) \/ Deadlock(c)
               \/ \E v \in Col : DeleteRow(c, v)
        PROVE  UNCHANGED rows
    BY <2>5, Zenon DEF BatchWriteItem, BatchGetItem, Receive, Fail, Timeout, NextTable,
       Read, PutRow, StartDelete, Deadlock, DeleteRow
  <2>6. UNCHANGED vars => UNCHANGED rows
    BY Zenon DEF vars
  <2> QED
    BY <2>2, <2>3, <2>4, <2>5, <2>6, Zenon DEF Next, Work
<1> QED
  BY <1>1, AlwaysIInv, PTL DEF Spec, TablesWhole

(***************************************************************************)
(* A COMMIT that reaches PostgreSQL after its request has timed out finds  *)
(* no row of a request that came later: the transaction kept its locks.    *)
(***************************************************************************)
THEOREM LateCommitsAreOlder == Spec => LateCommitIsOlder
<1>1. IInv => \A o \in orphans :
        o.lands /\ (\A other \in orphans' : other.req.id # o.req.id) =>
          \A v \in Written(o.req.writes) : rows[o.req.table][v] \in 0..o.last \cup {NoRow}
  BY Zenon DEF IInv, Left
<1> QED
  BY <1>1, AlwaysIInv, PTL DEF LateCommitIsOlder

================================================================================
