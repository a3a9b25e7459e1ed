---------------------------- MODULE MCFilterKernel ----------------------------
(* Subtrees of a small size: three leaves at depths 1 and 2 below node 1,  *)
(* and two leaves below node 6.                                            *)
EXTENDS FilterKernel

MCNodes == 1 .. 8
MCLeft  == [u \in MCNodes |-> CASE u = 1 -> 2 [] u = 2 -> 3 [] u = 6 -> 7 [] OTHER -> 0]
MCRight == [u \in MCNodes |-> CASE u = 1 -> 5 [] u = 2 -> 4 [] u = 6 -> 8 [] OTHER -> 0]
MCRoot  == [p \in {1, 2} |-> IF p = 1 THEN 1 ELSE 6]

OneNodes == 1 .. 5
OneLeft  == [u \in OneNodes |-> MCLeft[u]]
OneRight == [u \in OneNodes |-> MCRight[u]]
OneRoot  == [p \in {1} |-> 1]

OffChip(l) == [onchip |-> FALSE, l |-> l]
OnChip(l) == [onchip |-> TRUE, l |-> l]
OneIteration == {OffChip(1), OnChip(1)}
Repeated == {OnChip(3)}
RepeatedOffChip == {OffChip(2)}

==============================================================================
