------------------------------- MODULE Centres -------------------------------
(* The centres of the clustering kernel: how many there may be (top.h) and *)
(* where they may start.                                                   *)
EXTENDS FixedPoint

CONSTANTS
  K,                    \* centre indices are below K = 2^CNTR_INDEX_BITWIDTH
  LastIndices,          \* values of the argument k: index of the last centre
  CentrePositions       \* points a centre may start at

ASSUME CentreAssumption ==
  /\ K \in Nat \ {0} /\ LastIndices \subseteq 0 .. K - 1
  /\ CentrePositions \subseteq Point

Indices == 0 .. K - 1
NoIndex == K

==============================================================================
