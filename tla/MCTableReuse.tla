----------------------------- MODULE MCTableReuse -----------------------------
(***************************************************************************)
(* Instances of TableReuse for TLC.                                        *)
(***************************************************************************)
EXTENDS TableReuse, TLC

CONSTANTS c1, c2

keyA == [col |-> "a", type |-> "S"]
keyANumber == [col |-> "a", type |-> "N"]
keyB == [col |-> "b", type |-> "S"]

\* Hash-only, composite, another type, the two keys exchanged.
AllSchemas == {<<keyA>>, <<keyANumber>>, <<keyA, keyB>>, <<keyB, keyA>>}
S(v) == [type |-> "S", val |-> v]
N(v) == [type |-> "N", val |-> v]
Samples == {[a |-> S(1), b |-> None], [a |-> N(1), b |-> None], [a |-> S(1), b |-> S(1)],
            [a |-> S(1), b |-> S(2)], [a |-> S(2), b |-> S(1)]}
ClientSymmetry == Permutations(Client)
ExchangedSchemas == {<<keyA, keyB>>, <<keyB, keyA>>}

================================================================================
