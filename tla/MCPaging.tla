------------------------------ MODULE MCPaging -------------------------------
(***************************************************************************)
(* Instances of Paging for TLC: the cfg files give the constants.          *)
(***************************************************************************)
EXTENDS Paging

================================================================================
