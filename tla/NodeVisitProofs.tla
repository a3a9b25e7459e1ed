--------------------------- MODULE NodeVisitProofs ---------------------------
(***************************************************************************)
(* What the pruning walk guarantees, for every width the source's widths   *)
(* are an instance of, every tree of nested boxes and every set of centres.*)
(***************************************************************************)
EXTENDS NodeVisit, TLAPS

(* Differences of coordinates, the largest product of two of them after    *)
(* the shift, and the range of such products.                              *)
Difference == -(2 * COORD - 1) .. 2 * COORD - 1
Quota == (4 * COORD * COORD) \div SCALE
Products == -(Quota + 1) .. Quota

------------------------------------------------------------------------------
(* A number in the range of the wide type is stored as it is.              *)
LEMMA ExtKeeps ==
  ASSUME NEW x \in Int, -EXT <= x, x < EXT
  PROVE  Ext(x) = x
BY WidthAssumption DEF Ext, Wrap

(* A shift to the right divides and rounds down: it drops less than SCALE, *)
(* and it is monotonic.                                                    *)
LEMMA ShiftDrops ==
  ASSUME NEW x \in Int
  PROVE  /\ Shift(x) \in Int
         /\ SCALE * Shift(x) <= x
         /\ x <= SCALE * Shift(x) + SCALE - 1
BY WidthAssumption DEF Shift

LEMMA ShiftMonotonic ==
  ASSUME NEW x \in Int, NEW y \in Int, x <= y
  PROVE  Shift(x) <= Shift(y)
<1>1. SCALE \in Int /\ SCALE > 0
  BY WidthAssumption
<1>2. Shift(x) \in Int /\ Shift(y) \in Int
  BY ShiftDrops
<1>3. SCALE * Shift(x) <= SCALE * Shift(y) + SCALE - 1
  BY <1>1, <1>2, ShiftDrops, SMT
<1>4. SUFFICES ASSUME Shift(x) >= Shift(y) + 1
               PROVE  FALSE
  BY <1>2
<1>5. SCALE * Shift(x) >= SCALE * (Shift(y) + 1)
  BY <1>1, <1>2, <1>4, SMT
<1>6. QED
  BY <1>1, <1>2, <1>3, <1>5, SMT

(* The product of two differences fits the product range.                  *)
LEMMA QuotaFacts ==
  /\ Quota \in Nat
  /\ 6 * Quota + 6 < EXT
<1>1. COORD \in Nat /\ 4 * COORD * COORD \in Nat
  BY WidthAssumption, SMT
<1>2. Quota = Shift(4 * COORD * COORD)
  BY DEF Quota, Shift
<1>3. Quota \in Int /\ 4 * COORD * COORD <= SCALE * Quota + SCALE - 1
  BY <1>1, <1>2, ShiftDrops
<1>4. Quota >= 0
  BY <1>1, <1>3, WidthAssumption, SMT
<1>5. QED
  BY <1>3, <1>4, WidthAssumption DEF Quota

LEMMA ProductBounds ==
  ASSUME NEW x \in Difference, NEW y \in Difference
  PROVE  /\ x * y \in Int
         /\ x * y <= 4 * COORD * COORD
         /\ -(4 * COORD * COORD) <= x * y
<1> DEFINE c == 2 * COORD
<1>1. c \in Nat /\ x \in Int /\ y \in Int /\ -c <= x /\ x <= c /\ -c <= y /\ y <= c
  BY WidthAssumption DEF Difference
<1>2. c * c = 4 * COORD * COORD
  BY WidthAssumption, SMT
<1>3. x * y <= c * c /\ -(c * c) <= x * y
  <2> HIDE DEF c
  <2>1. (c - x) * (c + y) >= 0 /\ (c + x) * (c - y) >= 0
    BY <1>1, SMT
  <2>2. (c - x) * (c - y) >= 0 /\ (c + x) * (c + y) >= 0
    BY <1>1, SMT
  <2>3. QED
    BY <1>1, <2>1, <2>2, SMT
<1>4. QED
  BY <1>1, <1>2, <1>3

(* fi_mul never saturates on differences: it is the shifted product.       *)
LEMMA FiMulIsShift ==
  ASSUME NEW x \in Difference, NEW y \in Difference
  PROVE  /\ fi_mul(x, y) = Shift(x * y)
         /\ fi_mul(x, y) \in Products
<1> DEFINE m == 4 * COORD * COORD
<1>1. x \in Int /\ y \in Int /\ saturate_mul_input(x) = x /\ saturate_mul_input(y) = y
  BY WidthAssumption DEF Difference, saturate_mul_input
<1>2. x * y \in Int /\ x * y <= m /\ -m <= x * y
  BY ProductBounds
<1>3. m \in Nat /\ Quota = Shift(m)
  BY WidthAssumption, SMT DEF Quota, Shift
<1> HIDE DEF m
<1>4. Shift(x * y) <= Quota
  BY <1>2, <1>3, ShiftMonotonic
<1>5. Shift(-m) <= Shift(x * y)
  BY <1>2, <1>3, ShiftMonotonic
<1>6. -(Quota + 1) <= Shift(-m)
  <2>1. SCALE * Quota <= m /\ m <= SCALE * Quota + SCALE - 1 /\ Quota \in Int
    BY <1>3, ShiftDrops
  <2>2. Shift(-m) \in Int /\ -m <= SCALE * Shift(-m) + SCALE - 1
    BY <1>3, ShiftDrops
  <2>3. SCALE \in Int /\ SCALE > 0
    BY WidthAssumption
  <2>4. SUFFICES ASSUME Shift(-m) + 2 <= -Quota
                 PROVE  FALSE
    BY <2>1, <2>2
  <2>5. SCALE * (Shift(-m) + 2) <= SCALE * (-Quota)
    BY <2>1, <2>2, <2>3, <2>4, SMT
  <2>6. QED
    BY <1>3, <2>1, <2>2, <2>3, <2>5, SMT
<1>7. Shift(x * y) \in Products
  BY <1>2, <1>4, <1>5, <1>6, <1>3, ShiftDrops, QuotaFacts DEF Products
<1>8. Ext(Shift(x * y)) = Shift(x * y)
  BY <1>7, ExtKeeps, QuotaFacts, WidthAssumption DEF Products
<1>9. QED
  BY <1>1, <1>7, <1>8 DEF fi_mul

(* tree_adder adds its three numbers.                                      *)
LEMMA TreeAdderAdds ==
  ASSUME NEW a \in [Dims -> Products]
  PROVE  tree_adder(a, D) = a[0] + a[1] + a[2]
<1>1. a[0] \in Products /\ a[1] \in Products /\ a[2] \in Products
  BY DEF Dims, D
<1>2. /\ Ext(a[0] + a[1]) = a[0] + a[1]
      /\ Ext(a[0] + a[1] + a[2]) = a[0] + a[1] + a[2]
  BY <1>1, ExtKeeps, QuotaFacts, WidthAssumption DEF Products
<1>3. D = 3 /\ D \div 2^1 = 1 /\ 2^1 = 2
  BY DEF D
<1>4. /\ Level(a, D, 1)[0] = Ext(a[0] + a[1])
      /\ Level(a, D, 1)[1] = a[2]
  BY <1>3 DEF Level
<1>5. tree_adder(a, D) = Ext(Level(a, D, 1)[0] + Level(a, D, 1)[1])
  BY <1>3 DEF tree_adder, AddFirstTwo
<1>6. QED
  BY <1>2, <1>4, <1>5

LEMMA DifferenceOfCoords ==
  ASSUME NEW p \in Point, NEW q \in Point, NEW d \in Dims
  PROVE  /\ p[d] - q[d] \in Difference
         /\ Ext(p[d] - q[d]) = p[d] - q[d]
<1>1. p[d] \in Coord /\ q[d] \in Coord
  BY DEF Point
<1>2. p[d] - q[d] \in Difference
  BY <1>1, WidthAssumption DEF Coord, Difference
<1>3. QED
  BY <1>2, ExtKeeps, WidthAssumption DEF Difference

(* A distance is the exact one, scaled, less what three shifts drop; so no *)
(* distance is the largest number, from which minsearch starts.            *)
LEMMA DistanceBounds ==
  ASSUME NEW p \in Point, NEW q \in Point
  PROVE  /\ compute_distance(p, q) \in Int
         /\ compute_distance(p, q) < Largest
         /\ SCALE * compute_distance(p, q) <= Dist2(p, q)
         /\ Dist2(p, q) <= SCALE * compute_distance(p, q) + SearchSlack
<1> DEFINE x(d) == p[d] - q[d]
           a == [d \in Dims |-> fi_mul(Ext(p[d] - q[d]), Ext(p[d] - q[d]))]
<1>1. \A d \in Dims : x(d) \in Difference /\ Ext(p[d] - q[d]) = x(d)
  BY DifferenceOfCoords
<1>2. \A d \in Dims : a[d] = Shift(x(d) * x(d)) /\ a[d] \in Products
  BY <1>1, FiMulIsShift
<1>3. a \in [Dims -> Products]
  BY <1>2
<1>4. \A d \in Dims : /\ x(d) \in Int /\ a[d] \in Int
                      /\ SCALE * a[d] <= x(d) * x(d)
                      /\ x(d) * x(d) <= SCALE * a[d] + SCALE - 1
  BY <1>1, <1>2, ShiftDrops, ProductBounds DEF Difference
<1>5. 0 \in Dims /\ 1 \in Dims /\ 2 \in Dims /\ D = 3
  BY DEF Dims, D
<1>6. compute_distance(p, q) = a[0] + a[1] + a[2]
  BY <1>3, TreeAdderAdds DEF compute_distance
<1>7. Dist2(p, q) = x(0) * x(0) + x(1) * x(1) + x(2) * x(2)
  BY DEF Dist2, Square
<1>8. a[0] + a[1] + a[2] < Largest
  BY <1>2, <1>5, QuotaFacts, WidthAssumption DEF Products, Largest
<1> HIDE DEF x, a
<1>9. /\ SCALE * (a[0] + a[1] + a[2]) <= x(0) * x(0) + x(1) * x(1) + x(2) * x(2)
      /\ x(0) * x(0) + x(1) * x(1) + x(2) * x(2)
           <= SCALE * (a[0] + a[1] + a[2]) + 3 * (SCALE - 1)
  BY <1>4, <1>5, WidthAssumption
<1>10. a[0] + a[1] + a[2] \in Int
  BY <1>4, <1>5
<1>11. QED
  BY <1>5, <1>6, <1>7, <1>8, <1>9, <1>10 DEF SearchSlack

(* One dimension of the pruning test: the corner's product bounds that of  *)
(* every point between the faces.                                          *)
LEMMA CornerIsExtreme ==
  ASSUME NEW e \in Int, NEW l \in Int, NEW h \in Int, l <= e, e <= h, NEW cc \in Int
  PROVE  e * cc <= (IF cc > 0 THEN h ELSE l) * cc
<1>1. CASE cc > 0
  <2>1. (h - e) * cc >= 0
    BY <1>1, SMT
  <2>2. QED
    BY <1>1, <2>1, SMT
<1>2. CASE ~(cc > 0)
  <2>1. (e - l) * (-cc) >= 0
    BY <1>2, SMT
  <2>2. QED
    BY <1>2, <2>1, SMT
<1>3. QED
  BY <1>1, <1>2

(* Squares: how much nearer p is to c than to z.                           *)
LEMMA NearerBy ==
  ASSUME NEW p \in Int, NEW c \in Int, NEW z \in Int
  PROVE  (p - c) * (p - c) - (p - z) * (p - z)
           = (c - z) * (c - z) - 2 * ((p - z) * (c - z))
OBVIOUS

(* A candidate the pruning test drops is nearer to no point of the box     *)
(* than z* is by more than PruneSlack.                                     *)
LEMMA PruneLosesLittle ==
  ASSUME NEW z \in Point, NEW c \in Point, NEW lo \in Point, NEW hi \in Point,
         NEW p \in Point, \A d \in Dims : lo[d] <= p[d] /\ p[d] <= hi[d],
         tooFar_fi(z, c, lo, hi)
  PROVE  Dist2(p, z) <= Dist2(p, c) + PruneSlack
<1> DEFINE cc(d) == c[d] - z[d]
           df(d) == Corner(z, c, lo, hi, d) - z[d]
           e(d) == p[d] - z[d]
           a == [d \in Dims |-> fi_mul(ccComp(z, c, d), ccComp(z, c, d))]
           b == [d \in Dims |-> fi_mul(Ext(Corner(z, c, lo, hi, d) - z[d]), ccComp(z, c, d))]
<1>0. 0 \in Dims /\ 1 \in Dims /\ 2 \in Dims /\ D = 3
  BY DEF Dims, D
<1>1. \A d \in Dims : ccComp(z, c, d) = cc(d) /\ cc(d) \in Difference
  BY DifferenceOfCoords DEF ccComp
<1>2. \A d \in Dims : Ext(Corner(z, c, lo, hi, d) - z[d]) = df(d) /\ df(d) \in Difference
  BY DifferenceOfCoords DEF Corner
<1>3. \A d \in Dims : /\ a[d] = Shift(cc(d) * cc(d)) /\ a[d] \in Products
                      /\ b[d] = Shift(df(d) * cc(d)) /\ b[d] \in Products
  BY <1>1, <1>2, FiMulIsShift
<1>4. a \in [Dims -> Products] /\ b \in [Dims -> Products]
  BY <1>3
<1>5. /\ ccDot(z, c) = a[0] + a[1] + a[2]
      /\ boxDot(z, c, lo, hi) = b[0] + b[1] + b[2]
  BY <1>4, TreeAdderAdds DEF ccDot, boxDot
<1>6. Ext(2 * (b[0] + b[1] + b[2])) = 2 * (b[0] + b[1] + b[2])
  BY <1>0, <1>3, QuotaFacts, WidthAssumption, ExtKeeps DEF Products
<1>7. a[0] + a[1] + a[2] > 2 * (b[0] + b[1] + b[2])
  BY <1>5, <1>6 DEF tooFar_fi
<1>8. \A d \in Dims : /\ a[d] \in Int /\ b[d] \in Int
                      /\ cc(d) \in Int /\ df(d) \in Int /\ e(d) \in Int
                      /\ cc(d) * cc(d) \in Int /\ df(d) * cc(d) \in Int
                      /\ e(d) * cc(d) \in Int
  BY <1>1, <1>2, <1>3, WidthAssumption DEF Difference, Products, Point, Coord, Quota
<1>9. \A d \in Dims : e(d) * cc(d) <= df(d) * cc(d)
  <2> TAKE d \in Dims
  <2>1. /\ lo[d] \in Int /\ hi[d] \in Int /\ p[d] \in Int /\ z[d] \in Int /\ c[d] \in Int
        /\ lo[d] <= p[d] /\ p[d] <= hi[d]
    BY WidthAssumption DEF Point, Coord
  <2>2. df(d) = IF cc(d) > 0 THEN hi[d] - z[d] ELSE lo[d] - z[d]
    BY <1>1 DEF Corner
  <2>3. e(d) * cc(d) <= (IF cc(d) > 0 THEN hi[d] - z[d] ELSE lo[d] - z[d]) * cc(d)
    <3>1. /\ lo[d] - z[d] <= e(d) /\ e(d) <= hi[d] - z[d] /\ cc(d) \in Int
          /\ e(d) \in Int /\ lo[d] - z[d] \in Int /\ hi[d] - z[d] \in Int
      BY <2>1
    <3> HIDE DEF e, cc
    <3>2. QED
      BY <3>1, CornerIsExtreme
  <2>4. QED
    BY <2>2, <2>3
<1>10. \A d \in Dims :
         /\ SCALE * a[d] <= cc(d) * cc(d)
         /\ df(d) * cc(d) <= SCALE * b[d] + SCALE - 1
  BY <1>3, <1>8, ShiftDrops
<1>11. Dist2(p, c) - Dist2(p, z)
         = (cc(0) * cc(0) - 2 * (e(0) * cc(0)))
           + (cc(1) * cc(1) - 2 * (e(1) * cc(1)))
           + (cc(2) * cc(2) - 2 * (e(2) * cc(2)))
  <2>1. \A d \in Dims : (p[d] - c[d]) * (p[d] - c[d]) - (p[d] - z[d]) * (p[d] - z[d])
                          = cc(d) * cc(d) - 2 * (e(d) * cc(d))
    BY NearerBy, WidthAssumption DEF Point, Coord
  <2>2. \A d \in Dims : /\ (p[d] - c[d]) * (p[d] - c[d]) \in Int
                        /\ (p[d] - z[d]) * (p[d] - z[d]) \in Int
    BY WidthAssumption DEF Point, Coord
  <2> HIDE DEF cc, e
  <2>3. QED
    BY <1>0, <1>8, <2>1, <2>2 DEF Dist2, Square
<1>12. Dist2(p, c) \in Int /\ Dist2(p, z) \in Int
  BY <1>0, WidthAssumption DEF Dist2, Square, Point, Coord
<1>13. SCALE * (a[0] + a[1] + a[2]) >= SCALE * (2 * (b[0] + b[1] + b[2]) + 1)
  <2>1. a[0] + a[1] + a[2] >= 2 * (b[0] + b[1] + b[2]) + 1
    BY <1>0, <1>7, <1>8
  <2> DEFINE s == a[0] + a[1] + a[2]
             t == 2 * (b[0] + b[1] + b[2]) + 1
  <2>2. s \in Int /\ t \in Int /\ SCALE \in Nat
    BY <1>0, <1>8, WidthAssumption
  <2>3. s >= t
    BY <2>1
  <2> HIDE DEF s, t
  <2>4. SCALE * s >= SCALE * t
    BY <2>2, <2>3, SMT
  <2>5. QED
    BY <2>4 DEF s, t
<1> HIDE DEF cc, df, e, a, b
<1>14. Dist2(p, c) - Dist2(p, z) >= SCALE - 6 * (SCALE - 1)
  <2> DEFINE C(d) == cc(d) * cc(d)
             F(d) == df(d) * cc(d)
             E(d) == e(d) * cc(d)
  <2>1. \A d \in Dims : /\ C(d) \in Int /\ F(d) \in Int /\ E(d) \in Int
                        /\ a[d] \in Int /\ b[d] \in Int
                        /\ E(d) <= F(d) /\ SCALE * a[d] <= C(d)
                        /\ F(d) <= SCALE * b[d] + SCALE - 1
    BY <1>8, <1>9, <1>10
  <2>2. Dist2(p, c) - Dist2(p, z)
          = (C(0) - 2 * E(0)) + (C(1) - 2 * E(1)) + (C(2) - 2 * E(2))
    BY <1>11
  <2> HIDE DEF C, F, E
  <2>3. QED
    BY <1>0, <1>13, <2>1, <2>2, WidthAssumption, SMT
<1>15. QED
  BY <1>0, <1>12, <1>14, WidthAssumption DEF PruneSlack

(* z* itself always survives.                                              *)
LEMMA ClosestNotTooFar ==
  ASSUME NEW z \in Point, NEW lo \in Point, NEW hi \in Point
  PROVE  ~tooFar_fi(z, z, lo, hi)
<1> DEFINE a == [d \in Dims |-> fi_mul(ccComp(z, z, d), ccComp(z, z, d))]
           b == [d \in Dims |-> fi_mul(Ext(Corner(z, z, lo, hi, d) - z[d]), ccComp(z, z, d))]
<1>1. \A d \in Dims : ccComp(z, z, d) = 0 /\ 0 \in Difference
  BY DifferenceOfCoords, WidthAssumption DEF ccComp, Point, Coord, Difference
<1>2. \A d \in Dims : Ext(Corner(z, z, lo, hi, d) - z[d]) \in Difference
  BY DifferenceOfCoords DEF Corner
<1>3. Shift(0) = 0 /\ 0 \in Products
  BY QuotaFacts, WidthAssumption DEF Shift, Products
<1>4. \A d \in Dims : fi_mul(0, 0) = 0
                      /\ fi_mul(Ext(Corner(z, z, lo, hi, d) - z[d]), 0) = 0
  <2> TAKE d \in Dims
  <2> DEFINE x == Ext(Corner(z, z, lo, hi, d) - z[d])
  <2>1. x \in Difference /\ 0 \in Difference
    BY <1>1, <1>2
  <2> HIDE DEF x
  <2>2. x \in Int /\ x * 0 = 0 /\ 0 * 0 = 0
    BY <2>1, WidthAssumption DEF Difference
  <2>3. fi_mul(0, 0) = Shift(0 * 0) /\ fi_mul(x, 0) = Shift(x * 0)
    BY <2>1, FiMulIsShift
  <2>4. QED
    BY <1>3, <2>2, <2>3 DEF x
<1>5. \A d \in Dims : a[d] = 0 /\ b[d] = 0
  BY <1>1, <1>4
<1>6. a \in [Dims -> Products] /\ b \in [Dims -> Products]
  BY <1>3, <1>5
<1>7. 0 \in Dims /\ 1 \in Dims /\ 2 \in Dims
  BY DEF Dims, D
<1>8. ccDot(z, z) = 0 /\ boxDot(z, z, lo, hi) = 0
  BY <1>5, <1>6, <1>7, TreeAdderAdds DEF ccDot, boxDot
<1>9. Ext(0) = 0
  BY ExtKeeps, WidthAssumption
<1>10. QED
  BY <1>8, <1>9 DEF tooFar_fi

------------------------------------------------------------------------------
(* Distances between points: integers, the same both ways.                 *)
LEMMA Dist2Facts ==
  ASSUME NEW p \in Point, NEW q \in Point
  PROVE  Dist2(p, q) \in Nat /\ Dist2(p, q) = Dist2(q, p)
<1>1. \A d \in Dims : p[d] \in Int /\ q[d] \in Int
  BY WidthAssumption DEF Point, Coord
<1>2. 0 \in Dims /\ 1 \in Dims /\ 2 \in Dims
  BY DEF Dims, D
<1>3. \A x, y \in Int : (x - y) * (x - y) \in Nat /\ (x - y) * (x - y) = (y - x) * (y - x)
  <2>1. \A x \in Int : x * x \in Nat /\ x * x = (-x) * (-x)
    BY SMT
  <2>2. \A x, y \in Int : x - y \in Int /\ y - x = -(x - y)
    OBVIOUS
  <2>3. QED
    BY <2>1, <2>2
<1>4. \A d \in Dims : /\ (p[d] - q[d]) * (p[d] - q[d]) \in Nat
                      /\ (p[d] - q[d]) * (p[d] - q[d]) = (q[d] - p[d]) * (q[d] - p[d])
  BY <1>1, <1>3
<1>5. QED
  BY <1>2, <1>4 DEF Dist2, Square

LEMMA SlackFacts ==
  /\ PruneSlack \in Nat /\ SearchSlack \in Nat
  /\ \A n \in Nat \ {0} : /\ (n - 1) * PruneSlack \in Nat /\ n * PruneSlack \in Nat
                          /\ (n - 1) * PruneSlack + PruneSlack = n * PruneSlack
<1>1. PruneSlack \in Nat /\ SearchSlack \in Nat
  BY WidthAssumption DEF PruneSlack, SearchSlack, D
<1> HIDE DEF PruneSlack
<1>2. QED
  BY <1>1, SMT

(* The points a node stands for lie in its box.                            *)
LEMMA PointsInBox ==
  ASSUME NestedBoxes, NEW n \in Nodes, NEW p \in PointsOf(n)
  PROVE  p \in Point /\ InBox(p, n)
<1>1. CASE IsLeaf(n)
  BY <1>1 DEF NestedBoxes, PointsOf
<1>2. CASE ~IsLeaf(n)
  <2>1. Dims = {0, 1, 2}
    BY DEF Dims, D
  <2>2. /\ \A d \in Dims : tree[n].lo[d] \in Coord /\ tree[n].hi[d] \in Coord
    BY DEF NestedBoxes, Point
  <2>3. PICK x \in tree[n].lo[0] .. tree[n].hi[0],
             y \in tree[n].lo[1] .. tree[n].hi[1],
             z \in tree[n].lo[2] .. tree[n].hi[2] :
               p = [d \in Dims |-> <<x, y, z>>[d + 1]]
    BY <1>2 DEF PointsOf
  <2>4. p[0] = x /\ p[1] = y /\ p[2] = z
    BY <2>1, <2>3
  <2>5. x \in Coord /\ y \in Coord /\ z \in Coord
    BY <2>1, <2>2, WidthAssumption DEF Coord
  <2>6. p \in Point
    BY <2>1, <2>3, <2>5 DEF Point
  <2>7. InBox(p, n)
    BY <2>1, <2>4 DEF InBox
  <2>8. QED
    BY <2>6, <2>7
<1>3. QED
  BY <1>1, <1>2

(* A node's box contains its children's.                                   *)
LEMMA ChildInBox ==
  ASSUME NestedBoxes, NEW n \in Nodes, ~IsLeaf(n), NEW c \in Children(n)
  PROVE  c \in Nodes /\ \A p \in Point : InBox(p, c) => InBox(p, n)
<1>1. /\ c \in Nodes
      /\ \A d \in Dims : tree[n].lo[d] <= tree[c].lo[d] /\ tree[c].hi[d] <= tree[n].hi[d]
  BY DEF NestedBoxes
<1>2. \A m \in Nodes, d \in Dims : tree[m].lo[d] \in Int /\ tree[m].hi[d] \in Int
  BY WidthAssumption DEF NestedBoxes, Point, Coord
<1>3. \A p \in Point, d \in Dims : p[d] \in Int
  BY WidthAssumption DEF Point, Coord
<1>4. QED
  BY <1>1, <1>2, <1>3 DEF InBox

LEMMA NodeFacts ==
  ASSUME NestedBoxes, NEW n \in Nodes
  PROVE  /\ tree[n].lo \in Point /\ tree[n].hi \in Point /\ tree[n].mid \in Point
         /\ IsLeaf(n) => tree[n].wgtCent \in Point
BY DEF NestedBoxes

LEMMA DistanceFacts ==
  ASSUME TypeOK, Visiting, NEW c \in 0 .. k0
  PROVE  /\ Position(c) \in Point /\ comp_point \in Point
         /\ Distance(c) \in Int /\ Distance(c) < Largest
<1>1. Position(c) \in Point
  BY DEF TypeOK, Position
<1>2. comp_point \in Point
  BY NodeFacts DEF TypeOK, comp_point
<1>3. QED
  BY <1>1, <1>2, DistanceBounds DEF Distance

------------------------------------------------------------------------------
(* What a finished visit leaves: candidates that are sorted, z* among them,*)
(* and for every centre one that is at most one visit's slack worse than   *)
(* the candidate the visit began with.                                     *)
LEMMA Survivors ==
  ASSUME IInv, pc = "visited"
  PROVE  /\ tmp_final_idx \in 0 .. k0
         /\ new_k \in 0 .. k
         /\ \E s \in 0 .. new_k : new_set[s] = tmp_final_idx
         /\ Increasing(new_set, new_k + 1)
         /\ KeptBy(new_set, new_k, u, depth * PruneSlack)
<1> USE DEF IInv
<1>1. /\ Visiting /\ Searched = k + 1 /\ Tested = k + 1
      /\ k \in Indices /\ k + 1 > 0 /\ K \in Nat
  BY CentreAssumption DEF Visiting, Searched, Tested, TypeOK, Indices
<1>2. PICK z \in 0 .. k : tmp_final_idx = centre_set[z]
  BY <1>1 DEF SearchInv, Indices
<1>3. \A j \in 0 .. k : centre_set[j] \in 0 .. k0 /\ Position(centre_set[j]) \in Point
  BY <1>1 DEF TypeOK, Position, Indices
<1>4. tmp_final_idx \in 0 .. k0 /\ Position(tmp_final_idx) \in Point
  BY <1>2, <1>3
<1>5. /\ u \in Nodes /\ NestedBoxes /\ tree[u].lo \in Point /\ tree[u].hi \in Point
  BY <1>1, NodeFacts DEF TypeOK
<1>6. ~TooFar(tmp_final_idx, Position(tmp_final_idx))
  BY <1>4, <1>5, ClosestNotTooFar DEF TooFar
<1>7. PICK m \in 0 .. k + 1 :
        /\ new_k = IF m = 0 THEN K - 1 ELSE m - 1
        /\ Increasing(new_set, m)
        /\ \A s \in 0 .. m - 1 : \E j \in 0 .. k : new_set[s] = centre_set[j]
        /\ \A j \in 0 .. k :
             \/ TooFar(centre_set[j], Position(tmp_final_idx))
             \/ \E s \in 0 .. m - 1 : new_set[s] = centre_set[j]
  BY <1>1 DEF PruneInv, Indices
<1>8. PICK t \in 0 .. m - 1 : new_set[t] = tmp_final_idx
  BY <1>2, <1>6, <1>7
<1>9. m > 0 /\ new_k = m - 1 /\ new_k + 1 = m /\ new_k \in 0 .. k
  BY <1>1, <1>7, <1>8 DEF Indices
<1>10. KeptBy(new_set, new_k, u, depth * PruneSlack)
  <2> SUFFICES ASSUME NEW c \in 0 .. k0
               PROVE  \E j \in 0 .. new_k : \A p \in Point :
                        InBox(p, u) => Dist2(p, Position(new_set[j]))
                                         <= Dist2(p, Position(c)) + depth * PruneSlack
    BY DEF KeptBy
  <2>1. PICK j \in 0 .. k : \A p \in Point :
          InBox(p, u) => Dist2(p, Position(centre_set[j]))
                           <= Dist2(p, Position(c)) + (depth - 1) * PruneSlack
    BY <1>1 DEF Kept, KeptBy
  <2>2. /\ PruneSlack \in Nat /\ depth * PruneSlack \in Nat
        /\ (depth - 1) * PruneSlack \in Nat
        /\ (depth - 1) * PruneSlack + PruneSlack = depth * PruneSlack
    BY <1>1, SlackFacts DEF TypeOK
  <2>3. Position(c) \in Point
    BY <1>1 DEF TypeOK, Position
  <2>4. CASE TooFar(centre_set[j], Position(tmp_final_idx))
    <3>1. \A p \in Point : InBox(p, u) =>
            Dist2(p, Position(tmp_final_idx))
              <= Dist2(p, Position(centre_set[j])) + PruneSlack
      BY <1>3, <1>4, <1>5, <2>4, PruneLosesLittle DEF TooFar, InBox
    <3>2. \A p \in Point : InBox(p, u) =>
            Dist2(p, Position(tmp_final_idx))
              <= Dist2(p, Position(c)) + depth * PruneSlack
      <4> TAKE p \in Point
      <4> HAVE InBox(p, u)
      <4>1. /\ Dist2(p, Position(tmp_final_idx)) \in Nat /\ Dist2(p, Position(c)) \in Nat
            /\ Dist2(p, Position(centre_set[j])) \in Nat
        BY <1>3, <1>4, <2>3, Dist2Facts
      <4>2. QED
        BY <2>1, <2>2, <3>1, <4>1
    <3>3. QED
      BY <1>8, <1>9, <3>2
  <2>5. CASE \E s \in 0 .. m - 1 : new_set[s] = centre_set[j]
    <3>1. PICK s \in 0 .. m - 1 : new_set[s] = centre_set[j]
      BY <2>5
    <3>2. \A p \in Point : InBox(p, u) =>
            Dist2(p, Position(new_set[s])) <= Dist2(p, Position(c)) + depth * PruneSlack
      <4> TAKE p \in Point
      <4> HAVE InBox(p, u)
      <4>1. /\ Dist2(p, Position(centre_set[j])) \in Nat /\ Dist2(p, Position(c)) \in Nat
        BY <1>3, <2>3, Dist2Facts
      <4>2. QED
        BY <2>1, <2>2, <3>1, <4>1
    <3>3. QED
      BY <1>9, <3>1, <3>2
  <2>6. QED
    BY <1>7, <2>4, <2>5
<1>11. QED
  BY <1>4, <1>7, <1>8, <1>9, <1>10

(* Both properties follow from the invariant.                              *)
LEMMA InvariantImpliesClosestSurvives ==
  ASSUME IInv
  PROVE  ClosestSurvives
<1>1. ASSUME pc \in {"tooFar", "visited"}
      PROVE  tmp_final_idx \in {centre_set[j] : j \in 0 .. k}
  <2>1. Visiting /\ Searched = k + 1 /\ k \in Nat
    BY <1>1, CentreAssumption DEF Visiting, Searched, IInv, TypeOK, Indices
  <2>2. QED
    BY <2>1 DEF IInv, SearchInv
<1>2. ASSUME pc = "visited"
      PROVE  /\ new_k <= k
             /\ tmp_final_idx \in {new_set[j] : j \in 0 .. new_k}
             /\ \A j \in 1 .. new_k : new_set[j - 1] < new_set[j]
  <2>1. k \in Nat
    BY <1>2, CentreAssumption DEF Visiting, IInv, TypeOK, Indices
  <2>2. QED
    BY <1>2, <2>1, Survivors DEF Increasing
<1>3. QED
  BY <1>1, <1>2 DEF ClosestSurvives

LEMMA InvariantImpliesNearestWithinSlack ==
  ASSUME IInv
  PROVE  NearestWithinSlack
<1> SUFFICES ASSUME pc = "visited", DeadEnd, NEW p \in PointsOf(u), NEW c \in 0 .. k0
             PROVE  Dist2(p, Position(tmp_final_idx)) <= Dist2(p, Position(c)) + Slack
  BY DEF NearestWithinSlack
<1> DEFINE z == Position(tmp_final_idx)
<1>1. /\ Visiting /\ TypeOK /\ NestedBoxes /\ u \in Nodes /\ depth \in Nat \ {0}
      /\ k \in Nat /\ Searched = k + 1
  BY CentreAssumption DEF IInv, TypeOK, Visiting, Searched, Indices
<1>2. p \in Point /\ InBox(p, u)
  BY <1>1, PointsInBox
<1>3. tmp_final_idx \in 0 .. k0 /\ z \in Point /\ Position(c) \in Point
  BY <1>1, Survivors DEF TypeOK, Position
<1>4. CASE IsLeaf(u)
  <2>1. p = comp_point
    BY <1>4 DEF PointsOf, comp_point
  <2>2. PICK j \in 0 .. k :
          Dist2(p, Position(centre_set[j])) <= Dist2(p, Position(c)) + (depth - 1) * PruneSlack
    BY <1>1, <1>2 DEF IInv, Kept, KeptBy
  <2>3. centre_set[j] \in 0 .. k0
    BY <1>1, CentreAssumption DEF TypeOK, Indices
  <2> DEFINE q == Position(centre_set[j])
             dz == Distance(tmp_final_idx)
             dq == Distance(centre_set[j])
  <2>4. q \in Point /\ dz \in Int /\ dq \in Int
    BY <1>1, <1>3, <2>3, DistanceFacts
  <2>5. dz <= dq
    BY <1>1 DEF IInv, SearchInv
  <2>6. Dist2(z, p) <= SCALE * dz + SearchSlack
    BY <1>2, <1>3, <2>1, DistanceBounds DEF Distance
  <2>7. SCALE * dq <= Dist2(q, p)
    BY <1>2, <2>1, <2>4, DistanceBounds DEF Distance
  <2>8. /\ Dist2(z, p) = Dist2(p, z) /\ Dist2(q, p) = Dist2(p, q)
        /\ Dist2(p, z) \in Nat /\ Dist2(p, q) \in Nat /\ Dist2(p, Position(c)) \in Nat
    BY <1>2, <1>3, <2>4, Dist2Facts
  <2>9. SCALE \in Nat /\ SearchSlack \in Nat /\ (depth - 1) * PruneSlack \in Nat
    BY <1>1, WidthAssumption, SlackFacts
  <2>10. Slack = (depth - 1) * PruneSlack + SearchSlack
    BY <1>4 DEF Slack
  <2>11. Dist2(p, q) <= Dist2(p, Position(c)) + (depth - 1) * PruneSlack
    BY <2>2
  <2> HIDE DEF q, dz, dq, z
  <2>12. SCALE * dz <= SCALE * dq
    BY <2>4, <2>5, <2>9, SMT
  <2>13. Dist2(p, z) <= Dist2(p, Position(c)) + Slack
    <3> DEFINE a == (depth - 1) * PruneSlack
               s == SCALE * dz
               t == SCALE * dq
    <3>1. a \in Nat /\ s \in Int /\ t \in Int
      BY <2>4, <2>9
    <3>2. /\ Dist2(p, z) <= s + SearchSlack /\ s <= t /\ t <= Dist2(p, q)
          /\ Dist2(p, q) <= Dist2(p, Position(c)) + a
      BY <2>6, <2>7, <2>8, <2>11, <2>12
    <3>3. Slack = a + SearchSlack
      BY <2>10
    <3> HIDE DEF a, s, t
    <3>4. QED
      BY <2>8, <2>9, <3>1, <3>2, <3>3
  <2>14. QED
    BY <2>13 DEF z
<1>5. CASE ~IsLeaf(u)
  <2>1. new_k = 0 /\ new_set[0] = tmp_final_idx
    BY <1>5, Survivors DEF DeadEnd
  <2>2. Slack = depth * PruneSlack
    BY <1>5 DEF Slack
  <2>3. KeptBy(new_set, 0, u, depth * PruneSlack)
    BY <2>1, Survivors
  <2>4. QED
    BY <1>2, <2>1, <2>2, <2>3 DEF KeptBy
<1>6. QED
  BY <1>4, <1>5

------------------------------------------------------------------------------
(* A visit that begins with a good list keeps the invariant.               *)
LEMMA VisitBegins ==
  ASSUME NestedBoxes, k0 \in Indices, new_k \in Indices, depth \in Nat,
         UNCHANGED <<tree, k0>>,
         NEW n \in Nodes, NEW list \in [Indices -> 0 .. k0], NEW last \in Indices,
         Visit(n, list, last),
         centre_positions' \in [0 .. k0 -> Point],
         Increasing(list, last + 1),
         \A c \in 0 .. k0 : \E j \in 0 .. last : \A p \in Point :
           InBox(p, n) => Dist2(p, centre_positions'[list[j]])
                            <= Dist2(p, centre_positions'[c]) + depth * PruneSlack
  PROVE  IInv'
<1> USE DEF Visit
<1>0. K \in Nat /\ K - 1 \in Indices /\ 0 \in Indices /\ 0 \in 0 .. k0 /\ Largest \in Int
      /\ last \in Nat /\ 0 \in 0 .. last
  BY CentreAssumption, WidthAssumption DEF Indices, Largest
<1>1. TypeOK'
  <2>1. NestedBoxes'
    BY DEF NestedBoxes, IsLeaf, Children, InBox
  <2>2. [j \in Indices |-> 0] \in [Indices -> 0 .. k0]
    BY <1>0
  <2>3. K - 1 \in Indices /\ depth + 1 \in Nat /\ depth + 1 > 0
    BY <1>0
  <2>4. Visiting'
    BY DEF Visiting
  <2>5. QED
    BY <1>0, <2>1, <2>2, <2>3, <2>4 DEF TypeOK, Indices
<1>2. SearchInv'
  <2>1. Searched' = 0
    BY DEF Searched
  <2>2. 0 .. 0 - 1 = {}
    OBVIOUS
  <2>3. QED
    BY <2>1, <2>2 DEF SearchInv
<1>3. ListsSorted'
  BY DEF ListsSorted, Increasing
<1>4. PruneInv'
  <2>1. Tested' = 0
    BY DEF Tested
  <2>2. 0 .. 0 - 1 = {} /\ 0 \in 0 .. 0
    OBVIOUS
  <2>3. new_k' = K - 1
    OBVIOUS
  <2>4. /\ Increasing(new_set, 0)'
        /\ \A s \in 0 .. 0 - 1 : \E j \in 0 .. Tested' - 1 : new_set'[s] = centre_set'[j]
        /\ \A j \in 0 .. Tested' - 1 :
             \/ TooFar(centre_set[j], Position(tmp_final_idx))'
             \/ \E s \in 0 .. 0 - 1 : new_set'[s] = centre_set'[j]
    BY <2>1, <2>2 DEF Increasing
  <2>5. QED
    BY <2>1, <2>2, <2>3, <2>4 DEF PruneInv
<1>5. Kept'
  <2>1. (depth' - 1) * PruneSlack = depth * PruneSlack
    <3>1. depth' - 1 = depth
      OBVIOUS
    <3>2. QED
      BY <3>1
  <2>2. \A p : InBox(p, u)' <=> InBox(p, n)
    BY DEF InBox
  <2>3. QED
    BY <2>1, <2>2 DEF Kept, KeptBy, Position
<1>6. QED
  BY <1>1, <1>2, <1>3, <1>4, <1>5 DEF IInv

(* A walk starts with every centre as a candidate: nothing is lost yet.    *)
LEMMA StartKeepsInvariant ==
  ASSUME IInv, NEW root \in Nodes, Start(root)
  PROVE  IInv'
<1> DEFINE list == [j \in Indices |-> IF j <= k0 THEN j ELSE 0]
<1>1. pc = "idle" /\ UNCHANGED <<tree, k0>> /\ Visit(root, list, k0)
  BY DEF Start
<1>2. /\ NestedBoxes /\ k0 \in Indices /\ new_k \in Indices /\ depth \in Nat /\ depth = 0
      /\ K \in Nat
  BY <1>1, CentreAssumption DEF IInv, TypeOK, Visiting
<1>3. list \in [Indices -> 0 .. k0]
  BY <1>2 DEF Indices
<1>4. centre_positions' \in [0 .. k0 -> Point]
  BY CentreAssumption DEF Start
<1>5. \A j \in 0 .. k0 : list[j] = j
  BY <1>2 DEF Indices
<1>6. Increasing(list, k0 + 1)
  BY <1>2, <1>5 DEF Increasing, Indices
<1>7. \A c \in 0 .. k0 : \E j \in 0 .. k0 : \A p \in Point :
        InBox(p, root) => Dist2(p, centre_positions'[list[j]])
                            <= Dist2(p, centre_positions'[c]) + depth * PruneSlack
  <2>1. depth * PruneSlack = 0
    BY <1>2, SlackFacts
  <2>2. \A c \in 0 .. k0, p \in Point : Dist2(p, centre_positions'[c]) \in Nat
    BY <1>4, Dist2Facts
  <2>3. \A c \in 0 .. k0, p \in Point :
          Dist2(p, centre_positions'[list[c]])
            <= Dist2(p, centre_positions'[c]) + depth * PruneSlack
    BY <1>5, <2>1, <2>2
  <2>4. QED
    BY <2>3
<1> HIDE DEF list
<1>8. QED
  BY <1>1, <1>2, <1>3, <1>4, <1>6, <1>7, VisitBegins

(* A child's visit begins with the survivors; its box is inside its        *)
(* parent's.                                                               *)
LEMMA VisitChildKeepsInvariant ==
  ASSUME IInv, VisitChild
  PROVE  IInv'
<1>1. PICK n \in Children(u) : Visit(n, new_set, new_k)
  BY DEF VisitChild
<1>2. /\ pc = "visited" /\ ~IsLeaf(u) /\ UNCHANGED <<tree, k0>>
      /\ centre_positions' = centre_positions
  BY DEF VisitChild, DeadEnd
<1>3. /\ Visiting /\ NestedBoxes /\ k0 \in Indices /\ new_k \in Indices /\ depth \in Nat
      /\ u \in Nodes /\ new_set \in [Indices -> 0 .. k0]
      /\ centre_positions \in [0 .. k0 -> Point]
  BY <1>2 DEF IInv, TypeOK, Visiting
<1>4. n \in Nodes /\ \A p \in Point : InBox(p, n) => InBox(p, u)
  BY <1>2, <1>3, ChildInBox
<1>5. Increasing(new_set, new_k + 1) /\ KeptBy(new_set, new_k, u, depth * PruneSlack)
  BY <1>2, Survivors
<1>6. \A c \in 0 .. k0 : \E j \in 0 .. new_k : \A p \in Point :
        InBox(p, n) => Dist2(p, centre_positions'[new_set[j]])
                         <= Dist2(p, centre_positions'[c]) + depth * PruneSlack
  BY <1>2, <1>4, <1>5 DEF KeptBy, Position
<1>7. QED
  BY <1>1, <1>2, <1>3, <1>4, <1>5, <1>6, VisitBegins

(* The parts of the invariant that a turn of a loop leaves alone.          *)
LEMMA TreeStays ==
  ASSUME UNCHANGED <<tree, centre_positions, k0, u, centre_set, k, depth>>,
         Visiting, Visiting', NestedBoxes
  PROVE  /\ NestedBoxes'
         /\ ListsSorted => ListsSorted'
         /\ Kept => Kept'
         /\ \A c : Position(c)' = Position(c) /\ Distance(c)' = Distance(c)
         /\ \A c, z : TooFar(c, z)' <=> TooFar(c, z)
<1>1. NestedBoxes'
  BY DEF NestedBoxes, IsLeaf, Children, InBox
<1>2. ListsSorted => ListsSorted'
  BY DEF ListsSorted, Increasing
<1>3. \A c : Position(c)' = Position(c)
  BY DEF Position
<1>4. \A c : Distance(c)' = Distance(c)
  BY <1>3 DEF Distance, comp_point, IsLeaf
<1>5. \A c, z : TooFar(c, z)' <=> TooFar(c, z)
  BY <1>3 DEF TooFar
<1>6. Kept => Kept'
  BY <1>3 DEF Kept, KeptBy, InBox, Position
<1>7. QED
  BY <1>1, <1>2, <1>3, <1>4, <1>5, <1>6

(* A turn of minsearch_loop: the smallest distance so far, found at its    *)
(* index.  The first turn always writes, for no distance is the largest.   *)
LEMMA MinSearchKeepsInvariant ==
  ASSUME IInv, MinSearch
  PROVE  IInv'
<1> USE DEF MinSearch
<1>1. /\ Visiting /\ Visiting' /\ TypeOK /\ NestedBoxes
      /\ Searched = i /\ Tested = 0 /\ Tested' = 0
      /\ k \in Nat /\ k \in Indices /\ i \in 0 .. k /\ K \in Nat
  BY CentreAssumption DEF IInv, TypeOK, Visiting, Searched, Tested, Indices
<1>2. Searched' = i + 1 /\ i + 1 > 0
  BY <1>1 DEF Searched
<1>3. /\ NestedBoxes' /\ ListsSorted' /\ Kept'
      /\ \A c : Distance(c)' = Distance(c)
  BY <1>1, TreeStays DEF IInv
<1>4. Candidate \in 0 .. k0 /\ Distance(Candidate) \in Int /\ Distance(Candidate) < Largest
  <2>1. Candidate \in 0 .. k0
    BY <1>1 DEF Candidate, TypeOK, Indices
  <2>2. QED
    BY <1>1, <2>1, DistanceFacts
<1>5. TypeOK'
  <2>1. /\ tmp_min_dist' \in Int /\ tmp_final_idx' \in (0 .. k0) \cup {NoIndex}
    BY <1>1, <1>4 DEF TypeOK, search
  <2>2. i' \in 0 .. k /\ pc' \in {"minsearch", "tooFar"}
    BY <1>1
  <2>3. QED
    BY <1>1, <1>3, <2>1, <2>2 DEF TypeOK, prune, Visiting
<1>6. SearchInv'
  <2>1. /\ \E j \in 0 .. i : tmp_final_idx' = centre_set[j]
        /\ tmp_min_dist' = Distance(tmp_final_idx')
        /\ \A j \in 0 .. i : tmp_min_dist' <= Distance(centre_set[j])
    <3>1. \A j \in 0 .. i : centre_set[j] \in 0 .. k0 /\ Distance(centre_set[j]) \in Int
      <4>1. \A c \in 0 .. k0 : Distance(c) \in Int
        BY <1>1, DistanceFacts
      <4>2. \A j \in 0 .. i : centre_set[j] \in 0 .. k0
        BY <1>1 DEF TypeOK, Indices
      <4>3. QED
        BY <4>1, <4>2
    <3>2. \A j \in 0 .. i : j = i \/ j \in 0 .. i - 1
      BY <1>1
    <3>3. /\ tmp_min_dist \in Int
          /\ \A j \in 0 .. i - 1 : tmp_min_dist <= Distance(centre_set[j])
      BY <1>1 DEF TypeOK, IInv, SearchInv
    <3>4. CASE Distance(Candidate) < tmp_min_dist
      <4>1. tmp_min_dist' = Distance(Candidate) /\ tmp_final_idx' = Candidate
        BY <3>4
      <4>2. i \in 0 .. i /\ Candidate = centre_set[i]
        BY <1>1 DEF Candidate
      <4>3. \A j \in 0 .. i : Distance(Candidate) <= Distance(centre_set[j])
        BY <1>4, <3>1, <3>2, <3>3, <3>4, <4>2
      <4>4. QED
        BY <4>1, <4>2, <4>3
    <3>5. CASE ~(Distance(Candidate) < tmp_min_dist)
      <4>1. tmp_min_dist' = tmp_min_dist /\ tmp_final_idx' = tmp_final_idx
        BY <3>5 DEF search
      <4>2. i > 0
        BY <1>1, <1>4, <3>5 DEF IInv, SearchInv
      <4>3. /\ \E j \in 0 .. i - 1 : tmp_final_idx = centre_set[j]
            /\ tmp_min_dist = Distance(tmp_final_idx)
        BY <1>1, <4>2 DEF IInv, SearchInv
      <4>4. \A j \in 0 .. i : tmp_min_dist <= Distance(centre_set[j])
        BY <1>4, <3>2, <3>3, <3>5 DEF Candidate
      <4>5. QED
        BY <1>1, <4>1, <4>3, <4>4
    <3>6. QED
      BY <3>4, <3>5
  <2>2. Searched' - 1 = i
    BY <1>1, <1>2
  <2>3. Distance(tmp_final_idx)' = Distance(tmp_final_idx')
    BY DEF Distance, Position, comp_point, IsLeaf
  <2>4. QED
    BY <1>2, <1>3, <2>1, <2>2, <2>3 DEF SearchInv
<1>7. PruneInv'
  <2>1. PICK m \in 0 .. 0 : /\ new_k = IF m = 0 THEN K - 1 ELSE m - 1
    BY <1>1 DEF IInv, PruneInv
  <2>2. m = 0 /\ new_k' = K - 1 /\ 0 .. 0 - 1 = {} /\ 0 \in 0 .. 0
    BY <2>1 DEF prune
  <2>3. /\ Increasing(new_set, 0)'
        /\ \A s \in 0 .. 0 - 1 : \E j \in 0 .. Tested' - 1 : new_set'[s] = centre_set'[j]
        /\ \A j \in 0 .. Tested' - 1 :
             \/ TooFar(centre_set[j], Position(tmp_final_idx))'
             \/ \E s \in 0 .. 0 - 1 : new_set'[s] = centre_set'[j]
    BY <1>1, <2>2 DEF Increasing
  <2>4. QED
    BY <1>1, <2>2, <2>3 DEF PruneInv
<1>8. QED
  BY <1>3, <1>5, <1>6, <1>7 DEF IInv

(* A turn of tooFar_loop: the candidate goes to the place after the last   *)
(* survivor, unless it is too far.                                         *)
LEMMA PruneKeepsInvariant ==
  ASSUME IInv, Prune
  PROVE  IInv'
<1> USE DEF Prune
<1> DEFINE z == Position(tmp_final_idx)
<1>1. /\ Visiting /\ Visiting' /\ TypeOK /\ NestedBoxes
      /\ Searched = k + 1 /\ Searched' = k + 1 /\ Tested = i /\ Tested' = i + 1
      /\ k \in Nat /\ k \in Indices /\ i \in 0 .. k /\ i \in Nat /\ K \in Nat \ {0}
      /\ k <= K - 1
  BY CentreAssumption, SMTT(20) DEF IInv, TypeOK, Visiting, Searched, Tested, Indices
<1>2. /\ NestedBoxes' /\ ListsSorted' /\ Kept'
      /\ \A c : Position(c)' = Position(c) /\ Distance(c)' = Distance(c)
      /\ \A c, y : TooFar(c, y)' <=> TooFar(c, y)
  BY <1>1, TreeStays DEF IInv
<1>3. tmp_final_idx' = tmp_final_idx /\ tmp_min_dist' = tmp_min_dist
  BY DEF search
<1>4. Candidate = centre_set[i] /\ Candidate \in 0 .. k0
  BY <1>1 DEF Candidate, TypeOK, Indices
<1>5. tmp_final_idx \in 0 .. k0 /\ z_star = {z}
  <2>1. tmp_final_idx \in 0 .. k0
    BY <1>1 DEF IInv, SearchInv, TypeOK, Indices
  <2>2. tmp_final_idx # NoIndex
    BY <1>1, <2>1 DEF NoIndex, TypeOK, Indices
  <2>3. QED
    BY <2>1, <2>2 DEF z_star
<1>6. PICK m \in 0 .. i :
        /\ new_k = IF m = 0 THEN K - 1 ELSE m - 1
        /\ Increasing(new_set, m)
        /\ \A s \in 0 .. m - 1 : \E j \in 0 .. i - 1 : new_set[s] = centre_set[j]
        /\ \A j \in 0 .. i - 1 :
             \/ TooFar(centre_set[j], z)
             \/ \E s \in 0 .. m - 1 : new_set[s] = centre_set[j]
  BY <1>1 DEF IInv, PruneInv
<1>7. (new_k + 1) % K = m /\ m \in Indices /\ m \in Nat
  <2>1. m \in Nat /\ m <= K - 1
    BY <1>1
  <2>2. CASE m = 0
    BY <1>1, <1>6, <2>1, <2>2, SMT DEF Indices
  <2>3. CASE m # 0
    <3>1. new_k + 1 = m
      BY <1>6, <2>1, <2>3
    <3>2. m % K = m
      BY <1>1, <2>1, SMT
    <3>3. QED
      BY <2>1, <3>1, <3>2, <1>1 DEF Indices
  <2>4. QED
    BY <2>2, <2>3
<1>8. new_set \in [Indices -> 0 .. k0] /\ new_k \in Indices
  BY <1>1 DEF TypeOK
<1>9. \/ TooFar(Candidate, z) /\ new_k' = new_k /\ new_set' = new_set
      \/ ~TooFar(Candidate, z) /\ new_k' = m /\ new_set' = [new_set EXCEPT ![m] = Candidate]
  BY <1>5, <1>7 DEF prune
<1>10. TypeOK'
  <2>1. new_k' \in Indices /\ new_set' \in [Indices -> 0 .. k0]
    BY <1>4, <1>7, <1>8, <1>9
  <2>2. i' \in 0 .. k /\ pc' \in {"tooFar", "visited"}
    BY <1>1
  <2>3. QED
    BY <1>1, <1>2, <1>3, <2>1, <2>2 DEF TypeOK, Visiting
<1>11. SearchInv'
  BY <1>1, <1>2, <1>3 DEF IInv, SearchInv
<1>12. PruneInv'
  <2>1. (Position(tmp_final_idx))' = z
    BY <1>2, <1>3
  <2>2. SUFFICES
          \E n \in 0 .. i + 1 :
            /\ new_k' = IF n = 0 THEN K - 1 ELSE n - 1
            /\ Increasing(new_set', n)
            /\ \A s \in 0 .. n - 1 : \E j \in 0 .. i : new_set'[s] = centre_set[j]
            /\ \A j \in 0 .. i :
                 \/ TooFar(centre_set[j], z)
                 \/ \E s \in 0 .. n - 1 : new_set'[s] = centre_set[j]
    <3>1. Tested' - 1 = i
      BY <1>1
    <3>2. QED
      BY <1>1, <1>2, <2>1, <3>1 DEF PruneInv, Increasing
  <2>3. \A j \in 0 .. i : j \in 0 .. i - 1 \/ j = i
    BY <1>1
  <2>4. CASE TooFar(Candidate, z) /\ new_k' = new_k /\ new_set' = new_set
    <3>1. m \in 0 .. i + 1
      BY <1>1
    <3>2. \A s \in 0 .. m - 1 : \E j \in 0 .. i : new_set[s] = centre_set[j]
      BY <1>1, <1>6
    <3>3. \A j \in 0 .. i :
            \/ TooFar(centre_set[j], z)
            \/ \E s \in 0 .. m - 1 : new_set[s] = centre_set[j]
      BY <1>4, <1>6, <2>3, <2>4
    <3>4. QED
      BY <1>6, <2>4, <3>1, <3>2, <3>3
  <2>5. CASE ~TooFar(Candidate, z) /\ new_k' = m
             /\ new_set' = [new_set EXCEPT ![m] = Candidate]
    <3>1. m + 1 \in 0 .. i + 1 /\ m + 1 # 0 /\ (m + 1) - 1 = m
      BY <1>1, <1>7
    <3>2. new_set'[m] = centre_set[i] /\ \A s \in 0 .. m - 1 : new_set'[s] = new_set[s]
      <4>1. \A s \in 0 .. m - 1 : s \in Indices /\ s # m
        BY <1>1, <1>7 DEF Indices
      <4>2. QED
        BY <1>4, <1>7, <1>8, <2>5, <4>1
    <3>3. \A s \in 0 .. m : s \in 0 .. m - 1 \/ s = m
      BY <1>7
    <3>4. \A s \in 0 .. m : \E j \in 0 .. i : new_set'[s] = centre_set[j]
      BY <1>1, <1>6, <3>2, <3>3
    <3>5. Increasing(new_set', m + 1)
      <4>1. \A s \in 0 .. m - 1 : new_set[s] < centre_set[i]
        BY <1>1, <1>6 DEF IInv, ListsSorted, Increasing
      <4>2. SUFFICES ASSUME NEW a \in 0 .. m, NEW b \in 0 .. m, a < b
                     PROVE  new_set'[a] < new_set'[b]
        BY <3>1 DEF Increasing
      <4>3. a \in 0 .. m - 1
        BY <1>7, <4>2
      <4>4. CASE b = m
        BY <3>2, <4>1, <4>3, <4>4
      <4>5. CASE b \in 0 .. m - 1
        BY <1>6, <3>2, <4>2, <4>3, <4>5 DEF Increasing
      <4>6. QED
        BY <3>3, <4>4, <4>5
    <3>6. \A j \in 0 .. i :
            \/ TooFar(centre_set[j], z)
            \/ \E s \in 0 .. m : new_set'[s] = centre_set[j]
      <4>1. m \in 0 .. m /\ \A s \in 0 .. m - 1 : s \in 0 .. m
        BY <1>7
      <4>2. QED
        BY <1>6, <2>3, <3>2, <4>1
    <3>7. QED
      BY <2>5, <3>1, <3>4, <3>5, <3>6
  <2>6. QED
    BY <1>9, <2>4, <2>5
<1>13. QED
  BY <1>2, <1>10, <1>11, <1>12 DEF IInv

(* A step that changes nothing of the walk keeps the invariant.            *)
LEMMA VisitStutters ==
  ASSUME IInv, UNCHANGED vars
  PROVE  IInv'
<1>1. CASE Visiting
  <2>1. Visiting' /\ NestedBoxes
    BY <1>1 DEF vars, visit, Visiting, IInv, TypeOK
  <2>2. NestedBoxes' /\ ListsSorted' /\ Kept'
        /\ (\A c : Position(c)' = Position(c) /\ Distance(c)' = Distance(c))
        /\ (\A c, z : TooFar(c, z)' <=> TooFar(c, z))
    BY <1>1, <2>1, TreeStays DEF vars, visit, IInv
  <2>3. TypeOK'
    BY <2>1, <2>2
    DEF vars, visit, search, prune, IInv, TypeOK, Visiting
  <2>4. Searched' = Searched /\ Tested' = Tested
    BY DEF vars, visit, Searched, Tested
  <2>5. SearchInv'
    BY <1>1, <2>2, <2>4 DEF vars, visit, search, IInv, SearchInv
  <2>6. PruneInv'
    BY <1>1, <2>2, <2>4
    DEF vars, visit, search, prune, IInv, PruneInv, Increasing
  <2>7. QED
    BY <2>2, <2>3, <2>5, <2>6 DEF IInv
<1>2. CASE ~Visiting
  <2>1. ~Visiting' /\ NestedBoxes'
    BY <1>2
    DEF vars, visit, Visiting, IInv, TypeOK, NestedBoxes, IsLeaf, Children, InBox
  <2>2. QED
    BY <1>2, <2>1
    DEF vars, visit, search, prune, IInv, TypeOK, SearchInv, ListsSorted,
        PruneInv, Kept
<1>3. QED
  BY <1>1, <1>2

------------------------------------------------------------------------------
(* The invariant of the walk: what the searches and pruning tests of all   *)
(* visits so far have established.                                         *)
THEOREM VisitInvariant == Spec => []IInv
<1>1. Init => IInv
  <2> SUFFICES ASSUME Init
               PROVE  IInv
    OBVIOUS
  <2>1. k0 \in Indices /\ K - 1 \in Indices
    BY CentreAssumption DEF Init, VisitInit, Indices
  <2>2. ~Visiting
    BY DEF Init, VisitInit, Visiting
  <2>3. QED
    BY <2>1, <2>2
    DEF Init, VisitInit, IInv, TypeOK, SearchInv, ListsSorted, PruneInv, Kept
<1>2. IInv /\ [Next]_vars => IInv'
  <2> SUFFICES ASSUME IInv, [Next]_vars
               PROVE  IInv'
    OBVIOUS
  <2>1. ASSUME NEW root \in Nodes, Start(root)
        PROVE  IInv'
    BY <2>1, StartKeepsInvariant
  <2>2. CASE MinSearch
    BY <2>2, MinSearchKeepsInvariant
  <2>3. CASE Prune
    BY <2>3, PruneKeepsInvariant
  <2>4. CASE VisitChild
    BY <2>4, VisitChildKeepsInvariant
  <2>5. CASE UNCHANGED vars
    BY <2>5, VisitStutters
  <2>6. QED
    BY <2>1, <2>2, <2>3, <2>4, <2>5 DEF Next, Walk
<1>3. QED
  BY <1>1, <1>2, PTL DEF Spec

(* minsearch always finds a candidate and the pruning test keeps it, so    *)
(* new_k is neither the value it starts from nor past the list.            *)
THEOREM ClosestAlwaysSurvives == Spec => []ClosestSurvives
BY VisitInvariant, InvariantImpliesClosestSurvives, PTL

(* Whatever the depth of the walk, the centre a node's points go to is the *)
(* nearest of all centres up to the slack of the visits made.              *)
THEOREM PointsGoToNearest == Spec => []NearestWithinSlack
BY VisitInvariant, InvariantImpliesNearestWithinSlack, PTL

==============================================================================
