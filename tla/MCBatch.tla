------------------------------- MODULE MCBatch --------------------------------
(***************************************************************************)
(* Instances of Batch for TLC: two tables with a numeric key, where "1"    *)
(* and "1.0" spell the same key.                                           *)
(***************************************************************************)
EXTENDS Batch, TLC

CONSTANTS c1, c2, t1, t2, unknown

Spelling == {"1", "1.0", "2"}
Numeric == [k \in Spelling |-> IF k = "2" THEN 2 ELSE 1]

\* Two tables in one batch, rows in both orders, puts and deletes of one key.
Overlapping ==
  {t1 :> <<Put("1")>>, t1 :> <<Put("1"), Put("2")>> @@ t2 :> <<Put("1")>>,
   t1 :> <<Put("2"), Put("1")>>,
   t1 :> <<Delete("1"), Put("2")>> @@ t2 :> <<Delete("1")>>,
   t1 :> <<Delete("2"), Delete("1")>>}

\* The same item twice: under two spellings, under one, in a Put with a Delete.
Repeated ==
  {t2 :> <<Put("1"), Put("1.0")>>, t2 :> <<Put("1"), Delete("1.0")>>,
   t2 :> <<Put("1"), Delete("1")>>}

\* Nothing, no entry, no key, neither Put nor Delete, too many, a missing table.
Malformed ==
  {<<>>, t1 :> <<>>, t1 :> <<[put |-> NoKey, delete |-> NoKey]>>,
   t1 :> <<Put("x")>>, t1 :> <<Put("1"), Put("2"), Put("1.0")>> @@ t2 :> <<Put("1")>>,
   unknown :> <<Put("1")>>}

MCWrites == Overlapping \cup Repeated \cup Malformed
AllOrNone == {[t \in Table |-> [v \in Col |-> x]] : x \in {0, NoRow}}
MCGets == {t1 :> <<Get("1"), Get("2")>> @@ t2 :> <<Get("1")>>, t2 :> <<Get("1"), Get("1")>>}

================================================================================
