------------------------------ MODULE FixedPoint ------------------------------
(***************************************************************************)
(* The arithmetic of the clustering kernel (filtering_algorithm_util.cpp)  *)
(* and of the tree builder: two's complement integers of a fixed width,    *)
(* products whose operands saturate and whose result loses its last bits.  *)
(*                                                                         *)
(* A width w stands for the bound 2^(w-1) of its numbers: COORD of a       *)
(* coordinate (16 bits), MUL of a factor (18 bits), EXT of everything wide *)
(* (32 bits).  SCALE is 2^MUL_FRACTIONAL_BITS.                             *)
(***************************************************************************)
EXTENDS Integers

CONSTANTS COORD, MUL, EXT, SCALE

(* What the source's 16, 18, 32 and 6 bits satisfy: the difference of two  *)
(* coordinates is never saturated, and neither a distance nor twice a      *)
(* product of the pruning test leaves the wide range.                      *)
ASSUME WidthAssumption ==
  /\ COORD \in Nat \ {0} /\ MUL \in Nat /\ EXT \in Nat /\ SCALE \in Nat
  /\ 2 <= SCALE
  /\ 2 * COORD <= MUL /\ MUL <= EXT
  /\ 6 * ((4 * COORD * COORD) \div SCALE) + 6 < EXT

D == 3
Dims == 0 .. D - 1

Coord == -COORD .. COORD - 1
Point == [Dims -> Coord]
Origin == [d \in Dims |-> 0]

(* Assignment to a signed integer of bound m drops the high bits.          *)
Wrap(x, m) == IF x \in -m .. m - 1 THEN x ELSE ((x + m) % (2 * m)) - m
Ext(x) == Wrap(x, EXT)

(* Division in C rounds towards zero; a shift to the right rounds down.    *)
Quotient(x, y) == IF x >= 0 THEN x \div y ELSE -((-x) \div y)

saturate_mul_input(x) == IF x > MUL - 1 THEN MUL - 1 ELSE IF x < -MUL THEN -MUL ELSE x

Shift(x) == x \div SCALE
fi_mul(x, y) == Ext(Shift(saturate_mul_input(x) * saturate_mul_input(y)))

------------------------------------------------------------------------------
(* tree_adder adds m numbers pairwise, in place: a level halves them, and  *)
(* takes along the last one when m is not a multiple of 2^j.  The          *)
(* parallelism and the dimension are at most eight, and the last level     *)
(* adds what is left in the first two places.                              *)
Level(a, m, j) ==
  LET h == m \div 2^j
  IN  [i \in 0 .. m - 1 |->
         IF i < h THEN Ext(a[2 * i] + a[2 * i + 1])
         ELSE IF i = h /\ m > h * 2^j THEN a[2 * h]
         ELSE a[i]]

AddFirstTwo(a) == Ext(a[0] + a[1])

tree_adder(a, m) ==
  CASE m = 1       -> a[0]
    [] m = 2       -> AddFirstTwo(a)
    [] m \in 3 .. 4 -> AddFirstTwo(Level(a, m, 1))
    [] m \in 5 .. 8 -> AddFirstTwo(Level(Level(a, m, 1), m, 2))

compute_distance(p, q) ==
  tree_adder([d \in Dims |-> fi_mul(Ext(p[d] - q[d]), Ext(p[d] - q[d]))], D)

------------------------------------------------------------------------------
(* tooFar_fi: the corner of the box that lies furthest in the direction    *)
(* from closest_cand to cand decides whether any point of the box can be   *)
(* closer to cand.                                                         *)
ccComp(closest_cand, cand, d) == Ext(cand[d] - closest_cand[d])
Corner(closest_cand, cand, lo, hi, d) ==
  IF ccComp(closest_cand, cand, d) > 0 THEN hi[d] ELSE lo[d]

ccDot(closest_cand, cand) ==
  tree_adder([d \in Dims |->
    fi_mul(ccComp(closest_cand, cand, d), ccComp(closest_cand, cand, d))], D)
boxDot(closest_cand, cand, lo, hi) ==
  tree_adder([d \in Dims |->
    fi_mul(Ext(Corner(closest_cand, cand, lo, hi, d) - closest_cand[d]),
           ccComp(closest_cand, cand, d))], D)

(* The slips test for at least, and with the corners exchanged.            *)
tooFarOrEqual(closest_cand, cand, lo, hi) ==
  ccDot(closest_cand, cand) >= Ext(2 * boxDot(closest_cand, cand, lo, hi))
tooFarSwapped(closest_cand, cand, lo, hi) ==
  ccDot(closest_cand, cand) > Ext(2 * boxDot(closest_cand, cand, hi, lo))
tooFar_fi(closest_cand, cand, lo, hi) ==
  ccDot(closest_cand, cand) > Ext(2 * boxDot(closest_cand, cand, lo, hi))

------------------------------------------------------------------------------
(* What the properties compare with: exact squared distances, and what the *)
(* bits dropped from the products can make of them.  One product loses     *)
(* less than SCALE; the pruning test sees each box product twice.          *)
Square(x) == x * x
Dist2(p, q) == Square(p[0] - q[0]) + Square(p[1] - q[1]) + Square(p[2] - q[2])

SearchSlack == D * (SCALE - 1)
PruneSlack == 2 * D * (SCALE - 1) - SCALE

==============================================================================
