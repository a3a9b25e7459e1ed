----------------------------- MODULE MCClustering -----------------------------
(* Coordinates of four bits and products that lose their last two: the     *)
(* widths of the source, scaled down.                                      *)
EXTENDS Clustering

Vector(x, y, z) == [d \in Dims |-> CASE d = 0 -> x [] d = 1 -> y [] d = 2 -> z]
(* With candidates <<-1, 0, 0>> and <<5, 1, 1>> the bits lost in the test  *)
(* prune the second, which is closer to <<2, 3, 3>>.                       *)
MCDataPoints == {Vector(-7, -4, -1), Vector(2, 3, 3), Vector(-7, 3, 0), Vector(1, -4, 3)}
MCCentrePositions == {Vector(-1, 0, 0), Vector(5, 1, 1), Vector(-8, -5, 1), Vector(5, -5, -1)}

==============================================================================
