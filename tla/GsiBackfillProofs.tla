--------------------------- MODULE GsiBackfillProofs ---------------------------
(***************************************************************************)
(* Proof that a first backfill of GsiBackfill leaves no row behind, for    *)
(* every table, chunk size, number of tasks and requests in flight.        *)
(***************************************************************************)
EXTENDS GsiBackfill, TLAPS

LEMMA ExtractType == \A item : Extract(item) \in Columns
  BY Zenon DEF Extract, Columns

LEMMA AllNullType == AllNull \in Columns
  BY Zenon DEF AllNull, Columns

LEMMA WrittenType ==
  \A item \in Item, old \in Columns, known \in SUBSET Col :
    Written(item, old, known) \in Columns
  BY ExtractType DEF Written, Columns

LEMMA WrittenAll ==
  \A item \in Item, old \in Columns : Written(item, old, Col) = Extract(item)
  BY Zenon DEF Written, Extract

\* A statement that does not know the partition column leaves it as it was.
LEMMA WrittenShared ==
  ASSUME First \notin SharedCol
  PROVE  \A item \in Item, old \in Columns :
           Written(item, old, SharedCol)[First] = old[First]
  BY ColAssumption, Zenon DEF Written, Columns

LEMMA NoRowIsNoItem == NoRow \notin Item
  BY RowAssumption, Zenon DEF Item

\* An empty chunk is a short one.
LEMMA EmptyCard == Cardinality({}) = 0
  <1> DEFINE CS == CHOOSE f : f = [T \in SUBSET {} |->
                     IF T = {} THEN 0 ELSE 1 + f[T \ {CHOOSE x : x \in T}]]
             zero == [T \in SUBSET {} |-> 0]
  <1>1. zero = [T \in SUBSET {} |->
                  IF T = {} THEN 0 ELSE 1 + zero[T \ {CHOOSE x : x \in T}]]
    BY Zenon
  <1>2. CS = [T \in SUBSET {} |->
                IF T = {} THEN 0 ELSE 1 + CS[T \ {CHOOSE x : x \in T}]]
    BY <1>1, Zenon
  <1>3. Cardinality({}) = CS[{}]
    BY Zenon DEF Cardinality
  <1> QED BY <1>2, <1>3, Zenon

--------------------------------------------------------------------------------

LEMMA InitTypeOK == Init => TypeOK
  <1> SUFFICES ASSUME Init PROVE TypeOK
    BY Zenon
  <1>1. col \in [Pk -> Columns]
    <2>1. \A k \in Pk : Present(k) => data[k] \in Item
      BY Zenon DEF Init, Present
    <2> QED BY <2>1, WrittenType, AllNullType, ColAssumption, Zenon DEF Init
  <1>2. exists \in BOOLEAN /\ cached \in BOOLEAN
    BY Zenon DEF Init
  <1>3. drops \in 0..MaxDrops /\ inFlight \in 0..MaxInFlight
    BY BoundAssumption DEF Init
  <1>4. /\ pc \in [Worker -> {"idle", "loop", "chunk", "done"}]
        /\ cursor \in [Worker -> Pk \cup {NoCursor}]
        /\ picked \in [Worker -> SUBSET Pk]
        /\ live \in [Worker -> SUBSET Pk]
    BY Zenon DEF Init
  <1> QED BY <1>1, <1>2, <1>3, <1>4, Zenon DEF Init, TypeOK

LEMMA StepTypeOK == TypeOK /\ [Next]_vars => TypeOK'
  <1> SUFFICES ASSUME TypeOK, [Next]_vars PROVE TypeOK'
    BY Zenon
  <1>1. CASE CreateGsi
    BY <1>1, Zenon DEF CreateGsi, TypeOK, rowVars, workerVars
  <1>2. CASE DropGsi
    <2>1. col' \in [Pk -> Columns]
      BY <1>2 DEF DropGsi, TypeOK, Columns
    <2>2. drops' \in 0..MaxDrops
      BY <1>2, BoundAssumption DEF DropGsi, TypeOK
    <2>3. pc' \in [Worker -> {"idle", "loop", "chunk", "done"}]
      BY <1>2, Zenon DEF DropGsi, TypeOK
    <2>4. exists' \in BOOLEAN /\ stale' \subseteq Pk
      BY <1>2, Zenon DEF DropGsi
    <2> QED BY <1>2, <2>1, <2>2, <2>3, <2>4, Zenon DEF DropGsi, TypeOK
  <1>3. CASE Refresh
    BY <1>3, Zenon DEF Refresh, TypeOK, rowVars, workerVars
  <1>4. ASSUME NEW k \in Pk, NEW item \in Item, PutItem(k, item)
        PROVE  TypeOK'
    <2>1. Written(item, col[k], IF exists THEN Col ELSE SharedCol) \in Columns
      BY WrittenType, ColAssumption, Zenon DEF TypeOK
    <2> QED BY <1>4, <2>1, Zenon DEF PutItem, TypeOK, ddlVars, workerVars
  <1>5. ASSUME NEW k \in Pk, NEW item \in Item, StalePut(k, item)
        PROVE  TypeOK'
    <2>1. Written(item, col[k], SharedCol) \in Columns
      BY WrittenType, ColAssumption, Zenon DEF TypeOK
    <2> QED BY <1>5, <2>1, BoundAssumption DEF StalePut, TypeOK, workerVars
  <1>6. ASSUME NEW k \in Pk, DeleteItem(k) PROVE TypeOK'
    BY <1>6, AllNullType, Zenon DEF DeleteItem, TypeOK, ddlVars
  <1>7. CASE PlanPut
    BY <1>7, BoundAssumption DEF PlanPut, TypeOK, rowVars, workerVars
  <1>8. ASSUME NEW w \in Worker, Start(w) PROVE TypeOK'
    BY <1>8, Zenon DEF Start, TypeOK, rowVars, ddlVars
  <1>9. ASSUME NEW w \in Worker, Select(w) PROVE TypeOK'
    BY <1>9 DEF Select, Candidates, TypeOK, rowVars, ddlVars
  <1>10. ASSUME NEW w \in Worker, CommitChunk(w) PROVE TypeOK'
    <2>1. \A k \in Pk : Extract(data[k]) \in Columns
      BY ExtractType, Zenon
    <2> QED BY <1>10, <2>1 DEF CommitChunk, TypeOK, ddlVars
  <1>11. ASSUME NEW w \in Worker, Finish(w) \/ Fail(w) \/ Crash(w)
         PROVE  TypeOK'
    BY <1>11 DEF Finish, Fail, Crash, Forget, TypeOK, rowVars, ddlVars
  <1>12. CASE UNCHANGED vars
    BY <1>12 DEF vars, TypeOK
  <1> QED
    BY Zenon, <1>1, <1>2, <1>3, <1>4, <1>5, <1>6, <1>7, <1>8, <1>9, <1>10, <1>11,
       <1>12 DEF Next, Ddl, Client, Backfill

(***************************************************************************)
(* The variables of the backfill keep their types: no handler writes a     *)
(* value outside them, whatever the table, chunk size and number of tasks. *)
(***************************************************************************)
THEOREM TypeCorrect == Spec => []TypeOK
  BY InitTypeOK, StepTypeOK, PTL DEF Spec

--------------------------------------------------------------------------------

(***************************************************************************)
(* Dual-write statements and chunk commits never undo each other: a row    *)
(* whose columns match its item keeps matching, whatever the orders and    *)
(* shared columns (the race the header of backfill.rs discusses).          *)
(***************************************************************************)
THEOREM WritersAgree == Spec => StaysInSync
  <1> DEFINE Keeps == \A k \in Pk : exists /\ exists' /\ Present(k) /\ InSync(k)
                        => InSync(k)' \/ k \in stale'
  <1>1. TypeOK /\ [Next]_vars => [Keeps]_vars
    <2> SUFFICES ASSUME TypeOK, [Next]_vars, NEW k \in Pk,
                        exists, exists', Present(k), InSync(k)
                 PROVE  InSync(k)' \/ k \in stale'
      BY Zenon
    <2> USE DEF rowVars, ddlVars, workerVars
    <2>1. CASE Ddl \/ PlanPut \/ UNCHANGED vars
      BY <2>1, Zenon DEF Ddl, CreateGsi, DropGsi, Refresh, PlanPut, vars, InSync, Present
    <2>2. ASSUME NEW l \in Pk, NEW item \in Item, PutItem(l, item)
          PROVE  InSync(k)'
      <3>1. CASE l = k
        <4>1. data'[k] = item /\ col'[k] = Extract(item)
          BY <2>2, <3>1, WrittenAll, Zenon DEF PutItem, TypeOK
        <4> QED BY <4>1, Zenon DEF InSync
      <3>2. CASE l # k
        BY <2>2, <3>2, Zenon DEF PutItem, TypeOK, InSync, Present
      <3> QED BY <3>1, <3>2, Zenon
    <2>3. ASSUME NEW l \in Pk, NEW item \in Item, StalePut(l, item)
          PROVE  InSync(k)' \/ k \in stale'
      <3>1. l = k => k \in stale'
        BY <2>3, Zenon DEF StalePut
      <3>2. l # k => InSync(k)'
        BY <2>3, Zenon DEF StalePut, TypeOK, InSync, Present
      <3> QED BY <3>1, <3>2, Zenon
    <2>4. ASSUME NEW l \in Pk, DeleteItem(l)
          PROVE  InSync(k)'
      BY <2>4, SMTT(30) DEF DeleteItem, TypeOK, InSync, Present
    <2>5. ASSUME NEW w \in Worker, CommitChunk(w)
          PROVE  InSync(k)'
      BY <2>5, SMTT(30) DEF CommitChunk, InSync, Present
    <2>6. ASSUME NEW w \in Worker, Start(w) \/ Select(w) \/ Finish(w) \/ Fail(w) \/ Crash(w)
          PROVE  InSync(k)'
      BY <2>6, SMTT(30) DEF Start, Select, Finish, Fail, Crash, Forget, InSync, Present
    <2> QED BY <2>1, <2>2, <2>3, <2>4, <2>5, <2>6, Zenon DEF Next, Client, Backfill
  <1> QED BY <1>1, TypeCorrect, PTL DEF Spec, StaysInSync

\* The rows of an open chunk are beyond the task's cursor.
LiveAhead ==
  \A w \in Worker : pc[w] = "chunk" => \A k \in live[w] : After(k, cursor[w])

LEMMA StepLiveAhead == TypeOK /\ LiveAhead /\ [Next]_vars => LiveAhead'
  <1> SUFFICES ASSUME TypeOK, LiveAhead, [Next]_vars,
                      NEW v \in Worker, pc'[v] = "chunk", NEW k \in live'[v]
               PROVE  After(k, cursor'[v])
    BY Zenon DEF LiveAhead, After
  <1> USE DEF rowVars, ddlVars, workerVars
  <1>1. CASE Ddl \/ PlanPut \/ UNCHANGED vars
    BY <1>1, SMTT(30) DEF Ddl, CreateGsi, DropGsi, Refresh, PlanPut, vars, LiveAhead
  <1>2. ASSUME NEW l \in Pk, NEW item \in Item, PutItem(l, item) \/ StalePut(l, item)
        PROVE  After(k, cursor'[v])
    BY <1>2, Zenon DEF PutItem, StalePut, LiveAhead
  <1>3. ASSUME NEW l \in Pk, DeleteItem(l) PROVE After(k, cursor'[v])
    BY <1>3, Zenon DEF DeleteItem, LiveAhead
  <1>4. ASSUME NEW w \in Worker, Select(w) PROVE After(k, cursor'[v])
    BY <1>4 DEF Select, Candidates, TypeOK, LiveAhead
  <1>5. ASSUME NEW w \in Worker, Start(w) \/ CommitChunk(w) \/ Finish(w) \/ Fail(w) \/ Crash(w)
        PROVE  After(k, cursor'[v])
    <2>1. v # w
      BY <1>5, SMTT(30) DEF Start, CommitChunk, Finish, Fail, Crash, Forget, TypeOK
    <2>2. pc[v] = "chunk" /\ live'[v] = live[v] /\ cursor'[v] = cursor[v]
      BY <1>5, <2>1 DEF Start, CommitChunk, Finish, Fail, Crash, Forget, TypeOK
    <2> QED BY <2>2, SMTT(30) DEF LiveAhead
  <1> QED BY <1>1, <1>2, <1>3, <1>4, <1>5, Zenon DEF Next, Client, Backfill

(***************************************************************************)
(* Each chunk moves its task's cursor strictly forward in text order, for  *)
(* numeric keys as well: the loop cannot visit a row twice.                *)
(***************************************************************************)
THEOREM CursorMonotonic == Spec => CursorAdvances
  <1> DEFINE Moves == \A w \in Worker : pc[w] = "chunk" /\ pc'[w] = "loop"
                        => cursor'[w] \in Pk /\ After(cursor'[w], cursor[w])
  <1>1. Init => LiveAhead
    BY Zenon DEF Init, LiveAhead
  <1>2. TypeOK /\ LiveAhead /\ [Next]_vars => [Moves]_vars
    <2> SUFFICES ASSUME TypeOK, LiveAhead, [Next]_vars,
                        NEW w \in Worker, pc[w] = "chunk", pc'[w] = "loop"
                 PROVE  cursor'[w] \in Pk /\ After(cursor'[w], cursor[w])
      BY SMTT(30)
    <2> USE DEF rowVars, ddlVars, workerVars
    <2>1. CASE Ddl \/ Client \/ UNCHANGED vars
      BY <2>1, SMTT(30) DEF Ddl, CreateGsi, DropGsi, Refresh, Client, PutItem, StalePut,
                  DeleteItem, PlanPut, vars
    <2>2. ASSUME NEW u \in Worker, Backfill(u) \/ Crash(u), ~CommitChunk(u)
          PROVE  FALSE
      BY <2>2 DEF Backfill, Start, Select, Finish, Fail, Crash, Forget, TypeOK
    <2>3. ASSUME NEW u \in Worker, CommitChunk(u)
          PROVE  cursor'[w] \in Pk /\ After(cursor'[w], cursor[w])
      <3>1. u = w
        BY <2>3, Zenon DEF CommitChunk, TypeOK
      <3> QED BY <2>3, <3>1 DEF CommitChunk, TypeOK, LiveAhead
    <2> QED BY <2>1, <2>2, <2>3, Zenon DEF Next
  <1> QED BY <1>1, <1>2, TypeCorrect, StepLiveAhead, PTL DEF Spec, CursorAdvances

(***************************************************************************)
(* String and binary keys: ORDER BY pk and the comparison of pk::text with *)
(* the cursor agree.  Numeric keys do not satisfy this.                    *)
(***************************************************************************)
OrdersAgree ==
  \A k, l \in Pk : NativeRank[k] < NativeRank[l] => TextRank[k] < TextRank[l]

\* A row that differs from its item although no stale request wrote it.
Bad(k) == k \notin stale /\ Present(k) /\ ~InSync(k)

\* A row the table does not have has no columns, and before the GSI exists
\* its partition column is empty everywhere.
Blank ==
  /\ \A k \in Pk : ~Present(k) => col[k] = AllNull
  /\ ~exists => \A k \in Pk : col[k][First] = Null

\* The chunk query can still find every bad row.
Findable == \A k \in Pk : Bad(k) => col[k][First] = Null

\* Rows at or below a cursor are done with.
Covered(c) == \A k \in Pk : Bad(k) => After(k, c)

CursorsCover ==
  drops = 0 =>
    /\ Covered(lastPk)
    /\ \A w \in Worker : pc[w] \in {"loop", "chunk"} => Covered(cursor[w])

\* An open chunk holds the first of the bad rows that remain.
ChunkIsPrefix ==
  \A w \in Worker : pc[w] = "chunk" =>
    /\ exists
    /\ live[w] \subseteq picked[w]
    /\ \A k \in live[w] : Present(k) /\ After(k, cursor[w])
    /\ \A k \in Pk : Bad(k) /\ After(k, cursor[w]) =>
         \/ k \in live[w]
         \/ picked[w] # {} /\ \A l \in picked[w] : NativeRank[l] < NativeRank[k]

\* No task has run before the GSI first exists.
Started ==
  drops = 0 /\ ~exists =>
    lastPk = NoCursor /\ \A w \in Worker : pc[w] = "idle"

IInv ==
  /\ TypeOK
  /\ Blank /\ Findable /\ Started
  /\ CursorsCover /\ ChunkIsPrefix
  /\ FirstBackfillComplete

--------------------------------------------------------------------------------

LEMMA InitIInv ==
  ASSUME First \notin SharedCol
  PROVE  Init => IInv
  <1> SUFFICES ASSUME Init PROVE IInv
    BY Zenon
  <1>1. TypeOK
    BY InitTypeOK, Zenon
  <1>2. Blank
    <2>1. ASSUME NEW k \in Pk, Present(k) PROVE col[k][First] = Null
      <3>1. data[k] \in Item /\ col[k] = Written(data[k], AllNull, SharedCol)
        BY <2>1, Zenon DEF Init, Present
      <3> QED BY <3>1, WrittenShared, AllNullType, ColAssumption DEF AllNull
    <2> QED BY <2>1, ColAssumption, Zenon DEF Init, Blank, AllNull
  <1>3. Findable
    BY <1>2, Zenon DEF Blank, Findable, Init
  <1>4. Started /\ ChunkIsPrefix /\ FirstBackfillComplete
    BY Zenon DEF Init, Started, ChunkIsPrefix, FirstBackfillComplete
  <1>5. CursorsCover
    BY Zenon DEF Init, CursorsCover, Covered, After
  <1> QED BY <1>1, <1>2, <1>3, <1>4, <1>5 DEF IInv

\* Steps that leave the rows and the tasks alone.
LEMMA SameRows ==
  ASSUME IInv, UNCHANGED <<rowVars, workerVars, lastPk, drops>>,
         exists' = exists \/ exists' = TRUE
  PROVE  /\ Blank' /\ Findable' /\ Started'
         /\ CursorsCover' /\ ChunkIsPrefix' /\ FirstBackfillComplete'
  <1>1. UNCHANGED <<data, col, stale, pc, cursor, picked, live>>
    BY Zenon DEF rowVars, workerVars
  <1>2. \A k : Bad(k)' <=> Bad(k)
    BY <1>1, Zenon DEF Bad, Present, InSync
  <1>3. Blank' /\ Findable' /\ Started'
    BY <1>1, <1>2, Zenon DEF IInv, Blank, Findable, Started, Present
  <1>4. CursorsCover' /\ ChunkIsPrefix'
    BY <1>1, <1>2 DEF IInv, CursorsCover, Covered, ChunkIsPrefix, Present, After
  <1>5. FirstBackfillComplete'
    BY <1>1, Zenon DEF IInv, FirstBackfillComplete, Complete, InSync, Present
  <1> QED BY <1>3, <1>4, <1>5, Zenon

\* A client's step before the GSI exists cannot disturb a backfill.
LEMMA BeforeGsi ==
  ASSUME IInv, ~exists, exists' = exists, Blank',
         UNCHANGED <<lastPk, drops, pc, cursor, picked>>
  PROVE  /\ Findable' /\ Started'
         /\ CursorsCover' /\ ChunkIsPrefix' /\ FirstBackfillComplete'
  <1>1. Findable'
    BY Zenon DEF Blank, Findable
  <1>2. Started' /\ ChunkIsPrefix'
    BY Zenon DEF IInv, Started, ChunkIsPrefix
  <1>3. CursorsCover' /\ FirstBackfillComplete'
    BY <1>2, Zenon DEF IInv, Started, CursorsCover, Covered, After, FirstBackfillComplete
  <1> QED BY <1>1, <1>2, <1>3, Zenon

\* A client's step that makes no row bad, and takes from the open chunks only
\* rows it deletes, disturbs nothing.
LEMMA NoNewBad ==
  ASSUME IInv, exists, exists' = exists,
         UNCHANGED <<lastPk, drops, pc, cursor, picked>>,
         \A k \in Pk : Bad(k)' => Bad(k) /\ col'[k] = col[k],
         \A w \in Worker : pc[w] = "chunk" =>
           /\ live'[w] \subseteq live[w]
           /\ \A k \in live'[w] : Present(k)'
           /\ \A k \in live[w] \ live'[w] : ~Present(k)'
  PROVE  /\ Findable' /\ Started'
         /\ CursorsCover' /\ ChunkIsPrefix' /\ FirstBackfillComplete'
  <1>1. Findable' /\ Started'
    BY Zenon DEF IInv, Findable, Started
  <1>2. CursorsCover'
    BY Zenon DEF IInv, CursorsCover, Covered, After
  <1>3. ChunkIsPrefix'
    <2> SUFFICES ASSUME NEW w \in Worker, pc[w] = "chunk"
                 PROVE  /\ exists'
                        /\ live'[w] \subseteq picked[w]
                        /\ \A k \in live'[w] : Present(k)' /\ After(k, cursor[w])
                        /\ \A k \in Pk : Bad(k)' /\ After(k, cursor[w]) =>
                             \/ k \in live'[w]
                             \/ /\ picked[w] # {}
                                /\ \A l \in picked[w] : NativeRank[l] < NativeRank[k]
      BY DEF ChunkIsPrefix, After
    <2>1. live'[w] \subseteq picked[w]
          /\ \A k \in live'[w] : Present(k)' /\ After(k, cursor[w])
      BY Zenon DEF IInv, ChunkIsPrefix
    <2>2. ASSUME NEW k \in Pk, Bad(k)', After(k, cursor[w])
          PROVE  \/ k \in live'[w]
                 \/ /\ picked[w] # {}
                    /\ \A l \in picked[w] : NativeRank[l] < NativeRank[k]
      <3>1. Present(k)'
        BY <2>2, Zenon DEF Bad
      <3> QED BY <2>2, <3>1, Zenon DEF IInv, ChunkIsPrefix
    <2> QED BY <2>1, <2>2, Zenon
  <1>4. FirstBackfillComplete'
    <2> SUFFICES ASSUME NEW w \in Worker, drops = 0, pc[w] = "done", picked[w] = {},
                        NEW k \in Pk \ stale'
                 PROVE  InSync(k)'
      BY Zenon DEF FirstBackfillComplete, Complete
    <2>1. ~Bad(k)
      BY Zenon DEF IInv, FirstBackfillComplete, Complete, Bad
    <2> QED BY <2>1, Zenon DEF Bad, InSync, Present
  <1> QED BY <1>1, <1>2, <1>3, <1>4, Zenon
--------------------------------------------------------------------------------

LEMMA DropStep ==
  ASSUME First \notin SharedCol, IInv, TypeOK, TypeOK', DropGsi
  PROVE  IInv'
  <1> USE DEF rowVars, ddlVars, workerVars
  <1>1. Blank'
    <2>1. ASSUME NEW k \in Pk, ~Present(k)' PROVE col'[k] = AllNull
      BY <2>1, Zenon DEF DropGsi, IInv, Blank, Present, AllNull
    <2>2. ASSUME NEW k \in Pk PROVE col'[k][First] = Null
      BY ColAssumption DEF DropGsi
    <2> QED BY <2>1, <2>2, Zenon DEF Blank
  <1>2. Findable'
    BY <1>1, Zenon DEF DropGsi, Blank, Findable
  <1>3. drops' # 0
    BY BoundAssumption DEF DropGsi, TypeOK
  <1>4. Started' /\ CursorsCover' /\ FirstBackfillComplete'
    BY <1>3, Zenon DEF Started, CursorsCover, FirstBackfillComplete
  <1>5. ChunkIsPrefix'
    BY Zenon DEF DropGsi, NoOpenChunk, ChunkIsPrefix
  <1> QED BY <1>1, <1>2, <1>4, <1>5, Zenon DEF IInv

LEMMA PutStep ==
  ASSUME First \notin SharedCol, IInv, TypeOK, TypeOK',
         NEW k \in Pk, NEW item \in Item, PutItem(k, item)
  PROVE  IInv'
  <1> USE DEF rowVars, ddlVars, workerVars
  <1>1. data' = [data EXCEPT ![k] = item] /\ data'[k] = item
    BY Zenon DEF PutItem, TypeOK
  <1>2. Present(k)' /\ \A l \in Pk : l # k => (Present(l)' <=> Present(l))
    BY <1>1, NoRowIsNoItem DEF Present, TypeOK
  <1>3. \A l \in Pk : l # k => col'[l] = col[l] /\ (Bad(l)' <=> Bad(l))
    BY <1>1, <1>2, SMTT(30) DEF PutItem, TypeOK, Bad, InSync, Present
  <1>4. CASE exists
    <2>1. col'[k] = Extract(item)
      BY <1>4, WrittenAll DEF PutItem, TypeOK
    <2>2. ~Bad(k)'
      BY <1>1, <2>1, Zenon DEF Bad, InSync
    <2>3. Blank'
      BY <1>2, <1>3, <1>4, Zenon DEF PutItem, IInv, Blank
    <2>4. \A l \in Pk : Bad(l)' => Bad(l) /\ col'[l] = col[l]
      BY <1>3, <2>2, Zenon
    <2>5. \A w \in Worker : pc[w] = "chunk" => \A l \in live[w] : Present(l)'
      <3> SUFFICES ASSUME NEW w \in Worker, pc[w] = "chunk", NEW l \in live[w]
                   PROVE  Present(l)'
        BY Zenon
      <3>1. l \in Pk /\ Present(l)
        BY Zenon DEF TypeOK, IInv, ChunkIsPrefix
      <3> QED BY <3>1, <1>2, Zenon
    <2> QED BY <1>4, <2>3, <2>4, <2>5, NoNewBad, Zenon DEF PutItem, IInv
  <1>5. CASE ~exists
    <2>1. col'[k][First] = col[k][First]
      BY <1>5, WrittenShared, ColAssumption DEF PutItem, TypeOK
    <2>2. Blank'
      BY <1>2, <1>3, <1>5, <2>1 DEF PutItem, IInv, Blank
    <2> QED BY <1>5, <2>2, BeforeGsi, Zenon DEF PutItem, IInv
  <1> QED BY <1>4, <1>5, Zenon

LEMMA StalePutStep ==
  ASSUME First \notin SharedCol, IInv, TypeOK, TypeOK',
         NEW k \in Pk, NEW item \in Item, StalePut(k, item)
  PROVE  IInv'
  <1> USE DEF rowVars, ddlVars, workerVars
  <1>1. data' = [data EXCEPT ![k] = item] /\ data'[k] = item
    BY Zenon DEF StalePut, TypeOK
  <1>2. Present(k)' /\ \A l \in Pk : l # k => (Present(l)' <=> Present(l))
    BY <1>1, NoRowIsNoItem DEF Present, TypeOK
  <1>3. \A l \in Pk : l # k => col'[l] = col[l] /\ (Bad(l)' <=> Bad(l))
    BY <1>1, <1>2 DEF StalePut, TypeOK, Bad, InSync, Present
  <1>4. CASE exists
    <2>1. ~Bad(k)'
      BY <1>4, Zenon DEF StalePut, Bad
    <2>2. Blank'
      BY <1>2, <1>3, <1>4, Zenon DEF StalePut, IInv, Blank
    <2>3. \A l \in Pk : Bad(l)' => Bad(l) /\ col'[l] = col[l]
      BY <1>3, <2>1, Zenon
    <2>4. \A w \in Worker : pc[w] = "chunk" => \A l \in live[w] : Present(l)'
      <3> SUFFICES ASSUME NEW w \in Worker, pc[w] = "chunk", NEW l \in live[w]
                   PROVE  Present(l)'
        BY Zenon
      <3>1. l \in Pk /\ Present(l)
        BY Zenon DEF TypeOK, IInv, ChunkIsPrefix
      <3> QED BY <3>1, <1>2, Zenon
    <2> QED BY <1>4, <2>2, <2>3, <2>4, NoNewBad, Zenon DEF StalePut, IInv
  <1>5. CASE ~exists
    <2>1. col'[k][First] = col[k][First]
      BY <1>5, WrittenShared, ColAssumption DEF StalePut, TypeOK
    <2>2. Blank'
      BY <1>2, <1>3, <1>5, <2>1 DEF StalePut, IInv, Blank
    <2> QED BY <1>5, <2>2, BeforeGsi, Zenon DEF StalePut, IInv
  <1> QED BY <1>4, <1>5, Zenon

LEMMA DeleteStep ==
  ASSUME IInv, TypeOK, TypeOK',
         NEW k \in Pk, DeleteItem(k)
  PROVE  IInv'
  <1> USE DEF rowVars, ddlVars, workerVars
  <1>1. ~Present(k)' /\ \A l \in Pk : l # k => (Present(l)' <=> Present(l))
    BY DEF DeleteItem, Present, TypeOK
  <1>2. \A l \in Pk : l # k => col'[l] = col[l] /\ (Bad(l)' <=> Bad(l))
    BY <1>1 DEF DeleteItem, TypeOK, Bad, InSync, Present
  <1>3. \A l \in Pk : Bad(l)' => Bad(l) /\ col'[l] = col[l]
    BY <1>1, <1>2, Zenon DEF Bad
  <1>4. col'[k] = AllNull
    BY Zenon DEF DeleteItem, TypeOK
  <1>5. Blank'
    <2>1. \A l \in Pk : ~Present(l)' => col'[l] = AllNull
      BY <1>1, <1>2, <1>4, SMTT(30) DEF IInv, Blank
    <2>2. ~exists' => \A l \in Pk : col'[l][First] = Null
      BY <1>2, <1>4, ColAssumption, SMTT(40) DEF DeleteItem, IInv, Blank, AllNull
    <2> QED BY <2>1, <2>2, Zenon DEF Blank
  <1>6. CASE ~exists
    BY <1>5, <1>6, BeforeGsi, SMTT(30) DEF DeleteItem, IInv
  <1>7. CASE exists
    <2>1. ASSUME NEW w \in Worker, pc[w] = "chunk"
          PROVE  /\ live'[w] \subseteq live[w]
                 /\ \A l \in live'[w] : Present(l)'
                 /\ \A l \in live[w] \ live'[w] : ~Present(l)'
      <3>1. live'[w] = live[w] \ {k} /\ live[w] \subseteq Pk
        BY SMTT(30) DEF DeleteItem, TypeOK
      <3>2. \A l \in live[w] : Present(l)
        BY <2>1, Zenon DEF IInv, ChunkIsPrefix
      <3> QED BY <1>1, <3>1, <3>2, Zenon
    <2> QED BY <1>3, <1>5, <1>7, <2>1, NoNewBad, Zenon DEF DeleteItem, IInv
  <1> QED BY <1>6, <1>7, Zenon

LEMMA StartStep ==
  ASSUME IInv, TypeOK, TypeOK',
         NEW w \in Worker, Start(w)
  PROVE  IInv'
  <1> USE DEF rowVars, ddlVars, workerVars
  <1>1. \A k : Bad(k)' <=> Bad(k)
    BY Zenon DEF Start, Bad, Present, InSync
  <1>2. pc' = [pc EXCEPT ![w] = "loop"] /\ pc[w] = "idle" /\ exists
    BY Zenon DEF Start
  <1>3. Blank' /\ Findable' /\ Started'
    BY <1>1, <1>2, Zenon DEF Start, IInv, Blank, Findable, Started, Present
  <1>4. CursorsCover'
    <2> SUFFICES ASSUME drops = 0
                 PROVE  /\ Covered(lastPk)
                        /\ \A v \in Worker : pc'[v] \in {"loop", "chunk"} =>
                             Covered(cursor'[v])
      BY <1>1, Zenon DEF Start, CursorsCover, Covered, After
    <2>1. Covered(lastPk)
      BY Zenon DEF IInv, CursorsCover
    <2>2. cursor'[w] = lastPk
      BY DEF Start, TypeOK
    <2>3. \A v \in Worker : v # w => cursor'[v] = cursor[v] /\ pc'[v] = pc[v]
      BY DEF Start, TypeOK
    <2> QED BY <2>1, <2>2, <2>3, SMTT(30) DEF IInv, CursorsCover
  <1>5. ChunkIsPrefix'
    <2> SUFFICES ASSUME NEW v \in Worker, pc'[v] = "chunk"
                 PROVE  pc[v] = "chunk" /\ cursor'[v] = cursor[v]
      BY <1>1, SMTT(30) DEF Start, IInv, ChunkIsPrefix, Present, After
    <2>1. v # w
      BY <1>2, SMTT(30) DEF TypeOK
    <2> QED BY <2>1, SMTT(30) DEF Start, TypeOK
  <1>6. FirstBackfillComplete'
    <2>1. \A v \in Worker : pc'[v] = "done" => pc[v] = "done"
      BY <1>2, Zenon DEF TypeOK
    <2>2. Complete' <=> Complete
      BY Zenon DEF Start, Complete, InSync, Present
    <2> QED BY <2>1, <2>2, Zenon DEF Start, IInv, FirstBackfillComplete
  <1> QED BY <1>3, <1>4, <1>5, <1>6, Zenon DEF IInv

LEMMA SelectStep ==
  ASSUME IInv, TypeOK, TypeOK',
         NEW w \in Worker, Select(w)
  PROVE  IInv'
  <1> USE DEF rowVars, ddlVars, workerVars
  <1>1. PICK S \in SUBSET Candidates(cursor[w]) :
          /\ IsChunk(S, Candidates(cursor[w]))
          /\ picked' = [picked EXCEPT ![w] = S]
          /\ live' = [live EXCEPT ![w] = S]
    BY Zenon DEF Select
  <1>2. \A k : (Bad(k)' <=> Bad(k)) /\ (Present(k)' <=> Present(k))
    BY Zenon DEF Select, Bad, Present, InSync
  <1>3. pc' = [pc EXCEPT ![w] = "chunk"] /\ pc[w] = "loop" /\ exists
    BY Zenon DEF Select
  <1>4. Blank' /\ Findable' /\ Started'
    BY <1>2, <1>3, Zenon DEF Select, IInv, Blank, Findable, Started
  <1>5. CursorsCover'
    <2>1. \A v \in Worker : pc'[v] \in {"loop", "chunk"} => pc[v] \in {"loop", "chunk"}
      BY <1>3, SMTT(30) DEF TypeOK
    <2> QED BY <1>2, <2>1, Zenon DEF Select, IInv, CursorsCover, Covered, After
  <1>6. ChunkIsPrefix'
    <2> SUFFICES ASSUME NEW v \in Worker, pc'[v] = "chunk"
                 PROVE  /\ live'[v] \subseteq picked'[v]
                        /\ \A k \in live'[v] : Present(k) /\ After(k, cursor[v])
                        /\ \A k \in Pk : Bad(k) /\ After(k, cursor[v]) =>
                             \/ k \in live'[v]
                             \/ /\ picked'[v] # {}
                                /\ \A l \in picked'[v] :
                                     NativeRank[l] < NativeRank[k]
      BY <1>2, SMTT(30) DEF Select, ChunkIsPrefix, After
    <2>1. CASE v # w
      <3>1. /\ picked'[v] = picked[v] /\ live'[v] = live[v]
            /\ pc[v] = "chunk"
        BY <1>1, <1>3, <2>1, SMTT(30) DEF TypeOK
      <3> QED BY <3>1, Zenon DEF IInv, ChunkIsPrefix
    <2>2. CASE v = w
      <3>1. picked'[v] = S /\ live'[v] = S
        BY <1>1, <2>2, SMTT(30) DEF TypeOK
      <3>2. \A k \in S : Present(k) /\ After(k, cursor[v])
        BY <1>1, <2>2, SMTT(30) DEF Candidates
      <3>3. ASSUME NEW k \in Pk, Bad(k), After(k, cursor[v]), k \notin S
            PROVE  S # {} /\ \A l \in S : NativeRank[l] < NativeRank[k]
        <4>1. k \in Candidates(cursor[w])
          BY <2>2, <3>3, Zenon DEF Candidates, IInv, Findable, Bad
        <4>2. S # {}
          <5>1. S # Candidates(cursor[w])
            BY <3>3, <4>1, Zenon
          <5>2. Cardinality({}) = 0
            BY EmptyCard, Zenon
          <5> QED BY <1>1, <5>1, <5>2, BoundAssumption DEF IsChunk
        <4> QED BY <1>1, <3>3, <4>1, <4>2, Zenon DEF IsChunk
      <3> QED BY <3>1, <3>2, <3>3, Zenon
    <2> QED BY <2>1, <2>2, Zenon
  <1>7. FirstBackfillComplete'
    <2>1. \A v \in Worker : pc'[v] = "done" => pc[v] = "done" /\ picked'[v] = picked[v]
      BY <1>1, <1>3, SMTT(30) DEF TypeOK
    <2>2. Complete' <=> Complete
      BY SMTT(30) DEF Select, Complete, InSync, Present
    <2> QED BY <2>1, <2>2, Zenon DEF Select, IInv, FirstBackfillComplete
  <1> QED BY <1>4, <1>5, <1>6, <1>7, Zenon DEF IInv

LEMMA CommitStep ==
  ASSUME OrdersAgree, IInv, TypeOK, TypeOK',
         NEW w \in Worker, CommitChunk(w)
  PROVE  IInv'
  <1> USE DEF rowVars, ddlVars, workerVars
  <1>1. PICK last \in live[w] :
          lastPk' = last /\ cursor' = [cursor EXCEPT ![w] = last]
    BY Zenon DEF CommitChunk
  <1>2. /\ pc[w] = "chunk" /\ exists /\ exists' = exists /\ drops' = drops
        /\ data' = data
        /\ picked' = [picked EXCEPT ![w] = {}]
        /\ live' = [live EXCEPT ![w] = {}]
        /\ pc' = [pc EXCEPT ![w] = "loop"]
    BY Zenon DEF CommitChunk
  <1>3. \A k \in live[w] : k \in Pk /\ col'[k] = Extract(data[k]) /\ ~Bad(k)'
    BY Zenon DEF CommitChunk, TypeOK, Bad, InSync
  <1>4. \A k \in Pk \ live[w] : col'[k] = col[k] /\ (Bad(k)' <=> Bad(k))
    BY Zenon DEF CommitChunk, Bad, InSync, Present
  <1>5. \A k \in Pk : Bad(k)' => k \notin live[w] /\ Bad(k) /\ col'[k] = col[k]
    BY <1>3, <1>4, Zenon
  <1>6. \A k : Present(k)' <=> Present(k)
    BY <1>2, Zenon DEF Present
  <1>7. Blank'
    BY <1>2, <1>3, <1>4, <1>6, Zenon DEF IInv, Blank, ChunkIsPrefix
  <1>8. Findable' /\ Started'
    BY <1>2, <1>5, Zenon DEF IInv, Findable, Started
  <1>9. ASSUME drops = 0, NEW k \in Pk, Bad(k)' PROVE After(k, last)
    <2>1. Bad(k) /\ After(k, cursor[w]) /\ k \notin live[w]
      BY <1>2, <1>5, <1>9, SMTT(30) DEF IInv, CursorsCover, Covered
    <2>2. last \in picked[w] /\ last \in Pk
      BY <1>1, <1>2, SMTT(30) DEF IInv, ChunkIsPrefix, TypeOK
    <2>3. NativeRank[last] < NativeRank[k]
      BY <1>2, <2>1, <2>2, Zenon DEF IInv, ChunkIsPrefix
    <2>4. TextRank[last] < TextRank[k]
      BY <2>2, <2>3, Zenon DEF OrdersAgree
    <2> QED BY <2>2, <2>4, KeyAssumption, SMTT(30) DEF After
  <1>10. CursorsCover'
    <2> SUFFICES ASSUME drops = 0
                 PROVE  \A k \in Pk : Bad(k)' =>
                          /\ After(k, last)
                          /\ \A v \in Worker : pc'[v] \in {"loop", "chunk"} =>
                               After(k, cursor'[v])
      BY <1>1, <1>2, Zenon DEF CursorsCover, Covered, After
    <2>1. cursor'[w] = last
      BY <1>1 DEF TypeOK
    <2>2. \A v \in Worker : v # w => cursor'[v] = cursor[v] /\ pc'[v] = pc[v]
      BY <1>1, <1>2 DEF TypeOK
    <2> QED BY <1>5, <1>9, <2>1, <2>2 DEF IInv, CursorsCover, Covered
  <1>11. ChunkIsPrefix'
    <2> SUFFICES ASSUME NEW v \in Worker, pc'[v] = "chunk"
                 PROVE  /\ pc[v] = "chunk" /\ cursor'[v] = cursor[v]
                        /\ picked'[v] = picked[v] /\ live'[v] = live[v]
      BY <1>2, <1>5, <1>6 DEF IInv, ChunkIsPrefix, After
    <2>1. v # w
      BY <1>2, Zenon DEF TypeOK
    <2> QED BY <1>1, <1>2, <2>1, SMTT(30) DEF TypeOK
  <1>12. FirstBackfillComplete'
    <2> SUFFICES ASSUME NEW v \in Worker, drops = 0, pc'[v] = "done", picked'[v] = {},
                        NEW k \in Pk \ stale'
                 PROVE  InSync(k)'
      BY <1>2, Zenon DEF FirstBackfillComplete, Complete
    <2>1. pc[v] = "done" /\ picked[v] = {}
      BY <1>2 DEF TypeOK
    <2>2. ~Bad(k)'
      BY <1>5, <2>1, Zenon DEF IInv, FirstBackfillComplete, Complete, Bad
    <2> QED BY <2>2, Zenon DEF Bad, InSync
  <1> QED BY <1>7, <1>8, <1>10, <1>11, <1>12, Zenon DEF IInv

LEMMA FinishStep ==
  ASSUME IInv, TypeOK, TypeOK',
         NEW w \in Worker, Finish(w)
  PROVE  IInv'
  <1> USE DEF rowVars, ddlVars, workerVars
  <1>1. \A k : (Bad(k)' <=> Bad(k)) /\ (Present(k)' <=> Present(k))
    BY SMTT(30) DEF Finish, Bad, Present, InSync
  <1>2. pc' = [pc EXCEPT ![w] = "done"] /\ pc[w] = "chunk" /\ exists /\ live[w] = {}
    BY Zenon DEF Finish
  <1>3. \A v \in Worker : v # w => pc'[v] = pc[v]
    BY <1>2, Zenon DEF TypeOK
  <1>4. pc'[w] = "done"
    BY <1>2, SMTT(30) DEF TypeOK
  <1>5. Blank' /\ Findable' /\ Started'
    BY <1>1, <1>2, Zenon DEF Finish, IInv, Blank, Findable, Started
  <1>6. CursorsCover'
    BY <1>1, <1>3, <1>4, SMTT(30) DEF Finish, IInv, CursorsCover, Covered, After
  <1>7. ChunkIsPrefix'
    BY <1>1, <1>3, <1>4 DEF Finish, IInv, ChunkIsPrefix, After
  <1>8. FirstBackfillComplete'
    <2> SUFFICES ASSUME NEW v \in Worker, drops = 0, pc'[v] = "done", picked[v] = {}
                 PROVE  Complete
      BY Zenon DEF Finish, FirstBackfillComplete, Complete, InSync, Present
    <2>1. CASE v # w
      BY <1>3, <2>1, Zenon DEF IInv, FirstBackfillComplete
    <2>2. CASE v = w
      <3>1. \A k \in Pk : ~Bad(k)
        BY <1>2, <2>2, Zenon DEF IInv, CursorsCover, Covered, ChunkIsPrefix
      <3> QED BY <3>1, Zenon DEF Complete, Bad, InSync
    <2> QED BY <2>1, <2>2, Zenon
  <1> QED BY <1>5, <1>6, <1>7, <1>8, Zenon DEF IInv

LEMMA ForgetStep ==
  ASSUME IInv, TypeOK, TypeOK',
         NEW w \in Worker, Fail(w) \/ Crash(w)
  PROVE  IInv'
  <1> USE DEF rowVars, ddlVars, workerVars
  <1>1. \A k : (Bad(k)' <=> Bad(k)) /\ (Present(k)' <=> Present(k))
    BY Zenon DEF Fail, Crash, Forget, Bad, Present, InSync
  <1>2. pc' = [pc EXCEPT ![w] = "idle"] /\ UNCHANGED <<rowVars, ddlVars, lastPk>>
    BY Zenon DEF Fail, Crash, Forget
  <1>3. \A v \in Worker :
          \/ pc'[v] = "idle"
          \/ /\ pc'[v] = pc[v] /\ cursor'[v] = cursor[v]
             /\ picked'[v] = picked[v] /\ live'[v] = live[v]
    BY SMTT(30) DEF Fail, Crash, Forget, TypeOK
  <1>4. Blank' /\ Findable' /\ Started'
    BY <1>1, <1>2, <1>3, SMTT(30) DEF IInv, Blank, Findable, Started
  <1>5. CursorsCover' /\ ChunkIsPrefix'
    BY <1>1, <1>2, <1>3, Zenon DEF IInv, CursorsCover, Covered, ChunkIsPrefix, After
  <1>6. FirstBackfillComplete'
    BY <1>2, <1>3, Zenon DEF IInv, FirstBackfillComplete, Complete, InSync, Present
  <1> QED BY <1>4, <1>5, <1>6, Zenon DEF IInv

LEMMA StepIInv ==
  ASSUME First \notin SharedCol, OrdersAgree
  PROVE  IInv /\ [Next]_vars => IInv'
  <1> SUFFICES ASSUME IInv, [Next]_vars PROVE IInv'
    BY Zenon
  <1> USE DEF rowVars, ddlVars, workerVars
  <1>0. TypeOK /\ TypeOK'
    BY StepTypeOK, Zenon DEF IInv
  <1>1. CASE CreateGsi
    BY <1>0, <1>1, SameRows, Zenon DEF CreateGsi, IInv
  <1>2. CASE DropGsi
    BY <1>0, <1>2, DropStep, Zenon
  <1>3. CASE Refresh
    BY <1>0, <1>3, SameRows, Zenon DEF Refresh, IInv
  <1>4. ASSUME NEW k \in Pk, NEW item \in Item, PutItem(k, item) PROVE IInv'
    BY <1>0, <1>4, PutStep, Zenon
  <1>5. ASSUME NEW k \in Pk, NEW item \in Item, StalePut(k, item) PROVE IInv'
    BY <1>0, <1>5, StalePutStep, Zenon
  <1>6. ASSUME NEW k \in Pk, DeleteItem(k) PROVE IInv'
    BY <1>0, <1>6, DeleteStep, Zenon
  <1>7. CASE PlanPut
    BY <1>0, <1>7, SameRows, Zenon DEF PlanPut, IInv
  <1>8. ASSUME NEW w \in Worker, Backfill(w) \/ Crash(w) PROVE IInv'
    BY <1>0, <1>8, StartStep, SelectStep, CommitStep, FinishStep, ForgetStep, Zenon
       DEF Backfill
  <1>9. CASE UNCHANGED vars
    BY <1>0, <1>9, SameRows, Zenon DEF vars, IInv
  <1> QED BY <1>1, <1>2, <1>3, <1>4, <1>5, <1>6, <1>7, <1>8, <1>9
          DEF Next, Ddl, Client

(***************************************************************************)
(* run_backfill is correct when the partition column is the GSI's own and  *)
(* the key's order agrees with its text order: a first backfill that finds *)
(* no more rows has left no row behind, for any table, chunk size, number  *)
(* of concurrent tasks, crashes and requests in flight.                    *)
(***************************************************************************)
THEOREM FirstBackfillCorrect ==
  ASSUME First \notin SharedCol, OrdersAgree
  PROVE  Spec => []FirstBackfillComplete
  <1>1. Init => IInv
    BY InitIInv, Zenon
  <1>2. IInv /\ [Next]_vars => IInv'
    BY StepIInv, Zenon
  <1>3. IInv => FirstBackfillComplete
    BY Zenon DEF IInv
  <1> QED BY <1>1, <1>2, <1>3, PTL DEF Spec
================================================================================
