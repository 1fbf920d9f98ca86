------------------------------ MODULE MCCatalog ------------------------------
(***************************************************************************)
(* Instances of Catalog for TLC.                                           *)
(***************************************************************************)
EXTENDS Catalog

CONSTANTS n1, n2, c1, c2, a, b, p1

\* Two names that sanitize_pg_table_name maps to one, such as A.b and a_b.
Colliding == [name \in {a, b} |-> p1]

\* The second CreateTable declares a sort key, the others none.
MixedKeys == [id \in 0..MaxRequests |-> IF id = 2 THEN "range" ELSE "hash"]

==============================================================================
