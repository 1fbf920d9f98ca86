---------------------------- MODULE MCGsiLifecycle ----------------------------
(***************************************************************************)
(* Instances of GsiLifecycle for TLC.                                      *)
(***************************************************************************)
EXTENDS GsiLifecycle

CONSTANTS n1, n2

================================================================================
