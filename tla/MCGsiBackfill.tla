----------------------------- MODULE MCGsiBackfill -----------------------------
(***************************************************************************)
(* Instances of GsiBackfill for TLC.  Keys are 1..3 in the order of the    *)
(* column's own type; TextOrder is the order of string keys, and           *)
(* DecimalOrder that of the numeric keys 9, 10, 11 read as text.           *)
(***************************************************************************)
EXTENDS GsiBackfill, TLC

TypedOrder == [k \in Pk |-> k]
TextOrder == [k \in Pk |-> k]
DecimalOrder == (1 :> 3) @@ (2 :> 1) @@ (3 :> 2)

OneColumn == {"part"}
TwoColumns == {"part", "sort"}
Partition == "part"
PartitionOnly == {"part"}
NoColumn == {}
================================================================================
