--------------------------------- MODULE Data ---------------------------------
(* The data points, and how many kernels, each with a tree of its own,     *)
(* share them.                                                             *)
EXTENDS FixedPoint

CONSTANTS
  N,                    \* number of data points
  P,                    \* parallelism: number of sub-trees, a power of two
  DataPoints            \* the points that occur

ASSUME DataAssumption ==
  /\ N \in Nat \ {0} /\ P \in {1, 2, 4}
  /\ DataPoints \subseteq Point

Addresses == 1 .. 2 * N         \* of tree nodes, in each kernel's memory
Parts == 0 .. P - 1

==============================================================================
