------------------------------ MODULE GsiContract ------------------------------
(***************************************************************************)
(* What a GSI added with UpdateTable promises its user, without workers,   *)
(* state rows or crashes: it is created, becomes active once its column    *)
(* and index are built, is deleted, and is forgotten once both are gone.   *)
(* These are the edges of the D5 state machine in rekt-gsi's lib.rs.       *)
(***************************************************************************)

VARIABLES
  status,   \* absent, creating, active, degraded, deleting, failed
  built     \* none, some or all of the column and the valid index exist

vars == <<status, built>>

Init == status = "absent" /\ built = "none"

Create ==
  /\ status = "absent"
  /\ status' = "creating" /\ built' = "some"

\* The index is built, or a broken one dropped, while the GSI is created.
Build ==
  /\ status = "creating"
  /\ built' \in {"some", "all"}
  /\ status' = status

Activate ==
  /\ status = "creating" /\ built = "all"
  /\ status' = "active" /\ built' = built

Degrade ==
  /\ status = "active"
  /\ status' = "degraded" /\ built' = built

Fail ==
  /\ status \in {"creating", "deleting"}
  /\ status' = "failed" /\ built' = built

Delete ==
  /\ status \in {"active", "degraded", "failed"}
  /\ status' = "deleting" /\ built' = built

\* The index goes first.
DropIndex ==
  /\ status = "deleting" /\ built # "none"
  /\ built' = "some" /\ status' = status

\* The column, the catalog entry and the state row go together.
Forget ==
  /\ status = "deleting" /\ built = "some"
  /\ status' = "absent" /\ built' = "none"

Next ==
  \/ Create \/ Build \/ Activate \/ Degrade
  \/ Fail \/ Delete \/ DropIndex \/ Forget

Spec == Init /\ [][Next]_vars
================================================================================
