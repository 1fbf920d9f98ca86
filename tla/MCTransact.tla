----------------------------- MODULE MCTransact ------------------------------
(***************************************************************************)
(* Instances of Transact for TLC: two keys, requests of two items.         *)
(***************************************************************************)
EXTENDS Transact

CONSTANTS c1, c2, k1, k2

Item(kind, k, cond) == [kind |-> kind, key |-> k, cond |-> cond]

\* Every kind of item on k1 and then on k2; some also in the other order, so that
\* transactions can wait for each other.
Mixed(k) ==
  {Item("put", k, "none"), Item("put", k, "absent"), Item("delete", k, "exists"),
   Item("delete", k, "none"), Item("check", k, "exists"), Item("check", k, "absent"),
   Item("update", k, "none")}
Few(k) == {Item("put", k, "none"), Item("update", k, "exists")}
MixedWrites == {<<a, b>> : a \in Mixed(k1), b \in Few(k2) \cup {Item("check", k2, "absent")}}
               \cup {<<b, a>> : a \in Few(k1), b \in Few(k2)}
BothKeys == {<<k1, k2>>}
AnyDb == [Key -> {0, NoRow}]

\* "Create this item unless the other one exists."
Claims == {<<Item("check", k1, "absent"), Item("put", k2, "none")>>,
           <<Item("check", k2, "absent"), Item("put", k1, "none")>>}
NoGets == {}
EmptyDb == {[k \in Key |-> NoRow]}

================================================================================
