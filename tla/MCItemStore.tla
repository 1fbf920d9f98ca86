----------------------------- MODULE MCItemStore -----------------------------
(***************************************************************************)
(* Instances of ItemStore for TLC.                                         *)
(***************************************************************************)
EXTENDS ItemStore

CONSTANTS c1, c2, c3

================================================================================
