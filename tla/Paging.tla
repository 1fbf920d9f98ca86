------------------------------- MODULE Paging --------------------------------
(***************************************************************************)
(* Query and Scan in pages (crates/rekt-storage-libpq/src/query.rs and     *)
(* scan.rs, crates/rekt-translator/src/paging.rs, handle_query and         *)
(* handle_scan of crates/rekt-server/src/lib.rs): a client asks for page   *)
(* after page, passing each LastEvaluatedKey back as ExclusiveStartKey,    *)
(* while others put and delete items.                                      *)
(***************************************************************************)
EXTENDS Integers, Sequences, FiniteSets

CONSTANTS
  Pk, Sk,      \* values of the table's partition and sort attributes "p" and "s"
  Attr,        \* values of the attribute "a", which an item may lack
  NoAttr,      \* the item has no attribute "a"
  NoItem,      \* the key has no item
  NoKey,       \* no ExclusiveStartKey or LastEvaluatedKey
  Indexes,     \* what is read: "base" for the table, or an index
  Limits,      \* Limit of the request; the default when it has none is 1000
  MaxWrites    \* bound: items put or deleted while the client pages

ASSUME ParamAssumption ==
  /\ Pk \cup Sk \cup Attr \subseteq Nat
  /\ Limits \subseteq 1..1000 /\ MaxWrites \in Nat
  /\ Indexes \subseteq {"base", "lsi", "gsi", "inverted"}
  /\ NoAttr \notin Nat /\ NoItem \notin Nat \cup {NoAttr}

VARIABLES
  table,     \* per key: the attribute "a" of its item, or NoItem
  req,       \* the request, the same for every page but for its ExclusiveStartKey
  esk,       \* the LastEvaluatedKey of the last page
  page,      \* keys of the items the last page returned
  got,       \* keys of the items all pages returned
  stable,    \* history: keys whose item has not changed since the first page
  pc, writes

vars == <<table, req, esk, page, got, stable, pc, writes>>

(***************************************************************************)
(* Schemas: the key attributes, partition first.  A hash-only table has    *)
(* one.  The indexes are an LSI on "a", a GSI on "a" without sort key, and *)
(* a GSI with the two key attributes of the table exchanged.               *)
(***************************************************************************)
BaseAttrs == IF req.composite THEN <<"p", "s">> ELSE <<"p">>
KeyAttrs ==
  CASE req.index = "base" -> BaseAttrs
    [] req.index = "lsi" -> <<"p", "a">>
    [] req.index = "gsi" -> <<"a">>
    [] req.index = "inverted" -> <<"s", "p">>
HashOnly == Len(KeyAttrs) = 1

Keys(composite) == IF composite THEN Pk \X Sk ELSE Pk \X {0}
Values == Pk \cup Sk \cup Attr

\* The value of an attribute of the item at k, and its key in the index.
Value(k, attr) == CASE attr = "p" -> k[1] [] attr = "s" -> k[2] [] attr = "a" -> table[k]
Pos(k) == [i \in DOMAIN KeyAttrs |-> Value(k, KeyAttrs[i])]
IsNull(v) == v = NoAttr

--------------------------------------------------------------------------------
(***************************************************************************)
(* The rows a page is taken from, and their order.                         *)
(***************************************************************************)

\* PostgreSQL's order of column values: NULL comes last (first if DESC).
Less(v, w) == IF IsNull(v) THEN FALSE ELSE IF IsNull(w) THEN TRUE ELSE v < w

\* ORDER BY sk ASC or DESC for a query, ORDER BY pk, sk for a scan.
Before(j, k) ==
  LET x == Pos(j)
      y == Pos(k)
  IN  IF req.op = "query"
        THEN ~HashOnly /\ IF req.forward THEN Less(x[2], y[2]) ELSE Less(y[2], x[2])
        ELSE Less(x[1], y[1]) \/ (~HashOnly /\ x[1] = y[1] /\ Less(x[2], y[2]))

\* The key condition of a query: partition = value, and a condition on the sort key.
Selected(k) ==
  LET x == Pos(k)
  IN  req.op = "query" => /\ x[1] = req.pk
                          /\ HashOnly \/ req.range = Values \/ x[2] \in req.range

\* Mutant of After: the cursor's own row is read again.
AfterInclusive(k, cursor) ==
  LET x == Pos(k)
  IN  IF req.op = "query"
        THEN ~IsNull(x[2]) /\ IF req.forward THEN x[2] >= cursor[2] ELSE x[2] <= cursor[2]
        ELSE IF HashOnly THEN x[1] >= cursor[1]
        ELSE x[1] > cursor[1] \/ (x[1] = cursor[1] /\ x[2] >= cursor[2])

\* The row lies behind the ExclusiveStartKey; a comparison with NULL is not true.
After(k, cursor) ==
  LET x == Pos(k)
  IN  IF req.op = "query"
        THEN ~IsNull(x[2]) /\ IF req.forward THEN x[2] > cursor[2] ELSE x[2] < cursor[2]
        ELSE /\ ~IsNull(x[1])
             /\ \/ x[1] > cursor[1]
                \/ ~HashOnly /\ x[1] = cursor[1] /\ ~IsNull(x[2]) /\ x[2] > cursor[2]

Items == {k \in DOMAIN table : table[k] # NoItem}
Candidates(cursor) == {k \in Items : Selected(k) /\ (cursor = NoKey \/ After(k, cursor))}

\* LIMIT: some of the rows that come first; rows with equal keys in any order.
IsPage(P, S) ==
  /\ Cardinality(P) = IF Cardinality(S) < req.limit THEN Cardinality(S) ELSE req.limit
  /\ \A x \in P, y \in S \ P : ~Before(y, x)
IsLast(k, P) == k \in P /\ \A x \in P : ~Before(k, x)

\* FilterExpression, evaluated on the rows of the page.
Filtered(P) == {k \in P : req.filter => table[k] \in Attr}

--------------------------------------------------------------------------------
(***************************************************************************)
(* Cursors on the wire: a function from attribute names to values.         *)
(***************************************************************************)

\* Mutant of EncodeLek: the whole item.
EncodeItem(k) ==
  [attr \in {"p", "s", "a"} |-> Value(k, attr)]

\* encode_lek: the index key of the row, under the names of the table's attributes.
EncodeLek(k) ==
  [attr \in {BaseAttrs[i] : i \in DOMAIN BaseAttrs \cap DOMAIN Pos(k)} |->
     IF attr = BaseAttrs[1] THEN Pos(k)[1] ELSE Pos(k)[2]]

\* decode_esk, decode_scan_esk: exactly the key attributes of the schema that is
\* read, and, for a query, the partition that is queried.
Accepts(e) ==
  /\ DOMAIN e = {KeyAttrs[i] : i \in DOMAIN KeyAttrs}
  /\ req.op = "query" => e[KeyAttrs[1]] = req.pk
DecodeEsk(e) == [i \in DOMAIN KeyAttrs |-> e[KeyAttrs[i]]]

\* Mutant of LastKey: the last row that the filter keeps.
LastKeyFiltered(P, last) ==
  IF Cardinality(P) = req.limit /\ last \in Filtered(P) THEN EncodeLek(last) ELSE NoKey

\* LastEvaluatedKey iff the page is full before the filter; lek_from_row finds no
\* key in a row that lacks an attribute of the index.
LastKey(P, last) ==
  IF Cardinality(P) = req.limit /\ \A i \in DOMAIN KeyAttrs : ~IsNull(Pos(last)[i])
    THEN EncodeLek(last) ELSE NoKey

--------------------------------------------------------------------------------
Request ==
  [op : {"query", "scan"}, index : Indexes, composite : BOOLEAN, pk : Pk \cup Sk \cup Attr,
   range : {Values} \cup {{v} : v \in Sk}, forward : BOOLEAN, limit : Limits, filter : BOOLEAN]

\* Requests the translator accepts, without fields that do not matter.
Sensible(r) ==
  /\ r.index \in {"lsi", "inverted"} => r.composite
  /\ r.op = "scan" => r.forward /\ r.range = Values /\ r.pk = CHOOSE p \in Pk : TRUE
  /\ ~r.composite \/ r.index = "gsi" => r.forward /\ r.range = Values
  /\ r.index \in {"base", "lsi"} => r.pk \in Pk
  /\ r.index = "gsi" /\ r.op = "query" => r.pk \in Attr
  /\ r.index = "inverted" /\ r.op = "query" => r.pk \in Sk

Init ==
  /\ req \in {r \in Request : Sensible(r)}
  /\ table \in [Keys(req.composite) -> Attr \cup {NoAttr, NoItem}]
  /\ esk = NoKey /\ page = {} /\ got = {}
  /\ stable = Items
  /\ pc = "paging" /\ writes = 0

Return(P, last) ==
  /\ page' = Filtered(P) /\ got' = got \cup Filtered(P)
  /\ esk' = last
  /\ pc' = IF last = NoKey THEN "done" ELSE "paging"
  /\ UNCHANGED <<table, req, stable, writes>>

\* The translator refuses the ExclusiveStartKey.
Reject ==
  /\ esk # NoKey /\ ~Accepts(esk)
  /\ pc' = "rejected"
  /\ UNCHANGED <<table, req, esk, page, got, stable, writes>>

\* A query of a schema without sort key that has an ExclusiveStartKey: no SQL.
PastOnlyRow ==
  /\ esk # NoKey /\ Accepts(esk)
  /\ req.op = "query" /\ HashOnly
  /\ Return({}, NoKey)

NextPage ==
  /\ esk # NoKey => Accepts(esk) /\ ~(req.op = "query" /\ HashOnly)
  /\ LET S == Candidates(IF esk = NoKey THEN NoKey ELSE DecodeEsk(esk))
     IN  \/ S = {} /\ Return({}, NoKey)
         \/ \E P \in SUBSET S : /\ IsPage(P, S)
                                /\ \E last \in P : IsLast(last, P) /\ Return(P, LastKey(P, last))

Page == pc = "paging" /\ (Reject \/ PastOnlyRow \/ NextPage)

\* Somebody puts or deletes an item.
Write(k) ==
  /\ pc = "paging" /\ writes < MaxWrites /\ writes' = writes + 1
  /\ \E v \in (Attr \cup {NoAttr, NoItem}) \ {table[k]} : table' = [table EXCEPT ![k] = v]
  /\ stable' = stable \ {k}
  /\ UNCHANGED <<req, esk, page, got, pc>>

Next == Page \/ \E k \in DOMAIN table : Write(k)
Spec == Init /\ [][Next]_vars

\* The client asks for the next page until there is no LastEvaluatedKey.
FairSpec == Spec /\ WF_vars(Page)

--------------------------------------------------------------------------------
\* The types.  In particular LastEvaluatedKey names key attributes only, and a
\* page returns items of the table.
TypeOK ==
  /\ req \in Request
  /\ table \in [Keys(req.composite) -> Attr \cup {NoAttr, NoItem}]
  /\ esk = NoKey \/ DOMAIN esk \subseteq {"p", "s"}
  /\ page \subseteq got /\ got \subseteq DOMAIN table /\ stable \subseteq Items
  /\ pc \in {"paging", "done", "rejected"} /\ writes \in 0..MaxWrites

(***************************************************************************)
(* Nothing in the table is missed: when a page of a query or scan of the   *)
(* table comes without LastEvaluatedKey, every item that was there all the *)
(* time and meets the key condition and the filter has been returned,      *)
(* whatever was put and deleted around it and however the filter emptied   *)
(* pages.                                                                  *)
(***************************************************************************)
PagesComplete ==
  pc = "done" /\ req.index = "base" =>
    \A k \in stable : Selected(k) /\ (req.filter => table[k] \in Attr) => k \in got

(***************************************************************************)
(* Pages continue each other: no key is returned twice, even when its item *)
(* was replaced meanwhile, and every key comes behind those of the earlier *)
(* pages in the order of the request.                                      *)
(***************************************************************************)
PagesInOrder ==
  [][got' # got \/ page' # page =>
       \A j \in got, k \in page' : j # k /\ Before(j, k)]_vars

(***************************************************************************)
(* Paging ends, however many full pages the filter has emptied, and that   *)
(* of the table with its last page: the LastEvaluatedKey of each page is   *)
(* accepted as ExclusiveStartKey of the next.                              *)
(***************************************************************************)
PagingEnds == <>(pc = "done" \/ (pc = "rejected" /\ req.index # "base"))

(***************************************************************************)
(* What encode_lek says of its result: "The shape matches what DDB returns *)
(* and what `decode_esk` accepts on the next call."                        *)
(***************************************************************************)
CursorIsAccepted == pc # "rejected"

================================================================================
