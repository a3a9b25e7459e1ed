--------------------------- MODULE ClusteringProofs ---------------------------
(***************************************************************************)
(* Proofs about tree construction and about the walk down the trees it     *)
(* builds, for every set of points, every size and number of parts, every  *)
(* width of the numbers and every placement of the centres.                *)
(*                                                                         *)
(* A tree is written h, or m for a kernel's memory, with t nodes; pts and  *)
(* ix, x, y stand for the points and for the orders of their places.       *)
(***************************************************************************)
EXTENDS Clustering, NodeVisitProofs, FiniteSetTheorems, SequenceTheorems,
        WellFoundedInduction, TLAPS

------------------------------------------------------------------------------
(* Least and greatest elements.                                            *)

(* The natural numbers are well founded.                                   *)
LEMMA NatOrder ==
  \E R : IsWellFoundedOn(R, Nat) /\ \A x, y \in Nat : <<y, x>> \in R <=> y < x
<1> DEFINE R == OpToRel(<, Nat)
<1>1. IsWellFoundedOn(R, Nat)
  BY NatLessThanWellFounded
<1>2. \A x, y \in Nat : <<y, x>> \in R <=> y < x
  BY DEF OpToRel
<1> HIDE DEF R
<1>3. QED
  BY <1>1, <1>2, Zenon

(* A set of natural numbers that is not empty has a least one.             *)
LEMMA LeastNat ==
  ASSUME NEW T \in SUBSET Nat, T # {}
  PROVE  \E x \in T : \A y \in T : x <= y
<1>1. PICK R : IsWellFoundedOn(R, Nat) /\ \A x, y \in Nat : <<y, x>> \in R <=> y < x
  BY NatOrder
<1>2. PICK x \in T : \A y \in T : ~ (<<y, x>> \in R)
  BY <1>1, WFMin
<1>3. ASSUME NEW y \in T
      PROVE  x <= y
  <2>1. x \in Nat /\ y \in Nat
    OBVIOUS
  <2>2. ~ (y < x)
    BY <1>1, <1>2, <2>1, Zenon
  <2>3. QED
    BY <2>1, <2>2
<1>4. QED
  BY <1>3

(* Max is what its name says, on an interval's subsets.                    *)
LEMMA MaxOf ==
  ASSUME NEW a \in Int, NEW b \in Int, NEW S \in SUBSET (a .. b), S # {}
  PROVE  Max(S) \in S /\ \A x \in S : x <= Max(S)
<1> DEFINE T == {n \in Nat : b - n \in S}
<1>1. T # {}
  <2>1. PICK x \in S : TRUE
    OBVIOUS
  <2>2. b - x \in Nat /\ b - (b - x) = x
    OBVIOUS
  <2>3. QED
    BY <2>1, <2>2
<1>2. PICK n \in T : \A y \in T : n <= y
  BY <1>1, LeastNat
<1>3. \A x \in S : x <= b - n
  <2> TAKE x \in S
  <2>1. b - x \in Nat /\ b - (b - x) = x /\ x \in Int
    OBVIOUS
  <2>2. b - x \in T
    BY <2>1
  <2>3. n \in Int
    OBVIOUS
  <2>4. n <= b - x
    BY <1>2, <2>2, Zenon
  <2>5. QED
    BY <2>1, <2>3, <2>4
<1>4. \E m \in S : \A x \in S : m >= x
  BY <1>2, <1>3
<1>5. Max(S) \in S /\ \A x \in S : Max(S) >= x
  BY <1>4 DEF Max
<1>6. QED
  BY <1>5

(* And so is Min.                                                          *)
LEMMA MinOf ==
  ASSUME NEW a \in Int, NEW b \in Int, NEW S \in SUBSET (a .. b), S # {}
  PROVE  Min(S) \in S /\ \A x \in S : Min(S) <= x
<1> DEFINE T == {n \in Nat : a + n \in S}
<1>1. T # {}
  <2>1. PICK x \in S : TRUE
    OBVIOUS
  <2>2. x - a \in Nat /\ a + (x - a) = x
    OBVIOUS
  <2>3. QED
    BY <2>1, <2>2
<1>2. PICK n \in T : \A y \in T : n <= y
  BY <1>1, LeastNat
<1>3. \A x \in S : a + n <= x
  <2> TAKE x \in S
  <2>1. x - a \in Nat /\ a + (x - a) = x
    OBVIOUS
  <2>2. x - a \in T
    BY <2>1
  <2>3. QED
    BY <1>2, <2>1, <2>2
<1>4. \E m \in S : \A x \in S : m <= x
  BY <1>2, <1>3
<1>5. Min(S) \in S /\ \A x \in S : Min(S) <= x
  BY <1>4 DEF Min
<1>6. QED
  BY <1>5

------------------------------------------------------------------------------
(* Partition's loop. A function defined by recursion exists when something *)
(* grows smaller on every turn; what holds at the end of the loop then     *)
(* holds of its result. Of the order of the places only the part between   *)
(* the two ends changes.                                                   *)

(* f repeats step on the way from s to a state in Z, where base is its     *)
(* value.                                                                  *)
Loop(f, S, Z, base, step, next) ==
  \A s \in S : f[s] = IF s \in Z THEN base[s] ELSE step[<<s, f[next[s]]>>]

(* Such an f exists if a number falls from turn to turn.                   *)
LEMMA LoopExists ==
  ASSUME NEW S, NEW V, NEW B \in Nat, NEW m \in [S -> 0 .. B], NEW Z,
         NEW base \in [S -> V], NEW next, NEW step \in [S \X V -> V],
         \A s \in S \ Z : next[s] \in S /\ m[next[s]] < m[s]
  PROVE  \E f \in [S -> V] : Loop(f, S, Z, base, step, next)
<1> DEFINE Good(n) == \E f \in [S -> V] : \A s \in S :
                        m[s] < n => f[s] = IF s \in Z THEN base[s] ELSE step[<<s, f[next[s]]>>]
           T == {n \in Nat : ~Good(n)}
<1>1. Good(0)
  <2>1. \A s \in S : ~ (m[s] < 0)
    OBVIOUS
  <2>2. QED
    BY <2>1
<1>2. ASSUME NEW n \in Nat, Good(n)
      PROVE  Good(n + 1)
  <2>1. PICK f \in [S -> V] : \A s \in S :
               m[s] < n => f[s] = IF s \in Z THEN base[s] ELSE step[<<s, f[next[s]]>>]
    BY <1>2
  <2> DEFINE g == [s \in S |-> IF m[s] < n THEN f[s]
                               ELSE IF s \in Z THEN base[s] ELSE step[<<s, f[next[s]]>>]]
  <2>2. g \in [S -> V]
    <3>1. ASSUME NEW s \in S, ~ (m[s] < n), s \notin Z
          PROVE  step[<<s, f[next[s]]>>] \in V
      <4>1. next[s] \in S
        BY <3>1
      <4>2. QED
        BY <4>1
    <3>2. QED
      BY <3>1
  <2>3. ASSUME NEW s \in S, m[s] < n + 1
        PROVE  g[s] = IF s \in Z THEN base[s] ELSE step[<<s, g[next[s]]>>]
    <3>1. CASE s \in Z
      BY <2>1, <3>1
    <3>2. CASE s \notin Z
      <4>1. next[s] \in S /\ m[next[s]] < n
        BY <2>3, <3>2
      <4>2. g[next[s]] = f[next[s]]
        BY <4>1
      <4>3. g[s] = step[<<s, f[next[s]]>>]
        BY <2>1, <3>2
      <4>4. QED
        BY <3>2, <4>2, <4>3
    <3>3. QED
      BY <3>1, <3>2
  <2> HIDE DEF g
  <2>4. QED
    BY <2>2, <2>3
<1>3. \A n \in Nat : Good(n)
  <2> SUFFICES ASSUME T # {}
               PROVE  FALSE
    OBVIOUS
  <2>1. PICK n \in T : \A y \in T : n <= y
    BY LeastNat
  <2> HIDE DEF Good
  <2>2. n # 0 /\ n \in Nat
    BY <1>1
  <2>3. n - 1 \in Nat /\ n - 1 \notin T
    BY <2>1, <2>2
  <2>4. Good((n - 1) + 1)
    BY <1>2, <2>3
  <2>5. QED
    BY <2>2, <2>4
<1>4. PICK f \in [S -> V] : \A s \in S :
             m[s] < B + 1 => f[s] = IF s \in Z THEN base[s] ELSE step[<<s, f[next[s]]>>]
  BY <1>3
<1>5. \A s \in S : m[s] < B + 1
  OBVIOUS
<1>6. QED
  BY <1>4, <1>5 DEF Loop

(* The places of the order idx, and the points.                            *)
All == 0 .. N - 1

(* The turns of Wirth's loop: the two searches, and what the recursive     *)
(* function of Partition computes from their results.                      *)
FromBelow(s, index, n, low) ==
  Min({j \in s[2] .. n : j = n \/ s[1][index + j] \notin low})
FromTop(s, index, first, low) ==
  Max({j \in first - 1 .. s[3] : j = first - 1 \/ s[1][index + j] \in low})
Sweeps(f, index, n, first, low) ==
  \A s \in [All -> All] \X (first .. n) \X (first - 1 .. n - 1) :
    LET nl == FromBelow(s, index, n, low)
        nr == FromTop(s, index, first, low)
    IN  f[s] = IF nl > nr THEN [idx |-> s[1], br |-> nl]
               ELSE f[<<Exchange(s[1], index + nl, index + nr), nl + 1, nr - 1>>]

(* Partition's recursive function exists, so Partition is its value.       *)
LEMMA PartitionIs ==
  ASSUME NEW ix \in [All -> All], NEW index \in Nat, NEW n \in Nat, index + n <= N,
         NEW first \in 0 .. n, NEW low
  PROVE  \E f : /\ Sweeps(f, index, n, first, low)
                /\ Partition(ix, index, n, first, low) = f[<<ix, first, n - 1>>]
<1> DEFINE S == [All -> All] \X (first .. n) \X (first - 1 .. n - 1)
           nl(s) == Min({j \in s[2] .. n : j = n \/ s[1][index + j] \notin low})
           nr(s) == Max({j \in first - 1 .. s[3] : j = first - 1 \/ s[1][index + j] \in low})
           to(s) == <<Exchange(s[1], index + nl(s), index + nr(s)), nl(s) + 1, nr(s) - 1>>
           V == [idx : [All -> All], br : Int]
           base == [s \in S |-> [idx |-> s[1], br |-> nl(s)]]
           Z == {s \in S : nl(s) > nr(s)}
           next == [s \in S |-> to(s)]
           step == [x \in S \X V |-> x[2]]
           m == [s \in S |-> (s[3] - s[2]) + n + 1]
           B == n + n
<1>1. \A s \in S : /\ s[1] \in [All -> All] /\ s[2] \in first .. n /\ s[3] \in first - 1 .. n - 1
                   /\ nl(s) \in s[2] .. n /\ nr(s) \in first - 1 .. s[3]
  <2> TAKE s \in S
  <2>1. s[1] \in [All -> All] /\ s[2] \in first .. n /\ s[3] \in first - 1 .. n - 1
    OBVIOUS
  <2>2. nl(s) \in s[2] .. n
    <3> DEFINE X == {j \in s[2] .. n : j = n \/ s[1][index + j] \notin low}
    <3>1. X \in SUBSET (s[2] .. n) /\ n \in X
      BY <2>1
    <3>2. s[2] \in Int /\ n \in Int
      BY <2>1
    <3> HIDE DEF X
    <3>3. Min(X) \in X
      BY <3>1, <3>2, MinOf
    <3>4. QED
      BY <3>1, <3>3 DEF X
  <2>3. nr(s) \in first - 1 .. s[3]
    <3> DEFINE X == {j \in first - 1 .. s[3] : j = first - 1 \/ s[1][index + j] \in low}
    <3>1. X \in SUBSET (first - 1 .. s[3]) /\ first - 1 \in X
      BY <2>1
    <3>2. s[3] \in Int /\ first - 1 \in Int
      BY <2>1
    <3> HIDE DEF X
    <3>3. Max(X) \in X
      BY <3>1, <3>2, MaxOf
    <3>4. QED
      BY <3>1, <3>3 DEF X
  <2>4. QED
    BY <2>1, <2>2, <2>3
<1> HIDE DEF nl, nr
<1>2. base \in [S -> V]
  BY <1>1
<1>3. m \in [S -> 0 .. B] /\ B \in Nat
  BY <1>1
<1>4. \A s \in S \ Z : next[s] \in S /\ m[next[s]] < m[s]
  <2> TAKE s \in S \ Z
  <2>1. nl(s) <= nr(s) /\ nl(s) \in first .. n - 1 /\ nr(s) \in first .. n - 1
        /\ nl(s) >= s[2] /\ nr(s) <= s[3] /\ s[2] \in Int /\ s[3] \in Int
    BY <1>1
  <2>2. index + nl(s) \in All /\ index + nr(s) \in All
    <3>1. N \in Nat /\ index \in Nat /\ n \in Nat /\ index + n <= N
      BY DataAssumption
    <3>2. first \in Nat /\ n - 1 \in Int
      OBVIOUS
    <3>3. nl(s) \in Int /\ first <= nl(s) /\ nl(s) <= n - 1
      BY <2>1, <3>2
    <3>4. nr(s) \in Int /\ first <= nr(s) /\ nr(s) <= n - 1
      BY <2>1, <3>2
    <3> HIDE DEF S, Z, to, V, base, next, step, m, B
    <3>5. QED
      BY <3>1, <3>2, <3>3, <3>4, SMTT(20) DEF All
  <2>3. Exchange(s[1], index + nl(s), index + nr(s)) \in [All -> All]
    BY <1>1, <2>2 DEF Exchange
  <2>4. to(s) \in S
    BY <2>1, <2>3
  <2>5. (to(s)[3] - to(s)[2]) + n + 1 < (s[3] - s[2]) + n + 1
    BY <2>1
  <2> HIDE DEF S, to, Z
  <2>6. QED
    BY <2>4, <2>5
<1>5. PICK f \in [S -> V] : \A s \in S : f[s] = IF s \in Z THEN base[s] ELSE f[next[s]]
  <2>1. step \in [S \X V -> V]
    <3> HIDE DEF S, V
    <3>1. QED
      OBVIOUS
  <2>2. \A s \in S : \A v \in V : step[<<s, v>>] = v
    <3> HIDE DEF S, V
    <3>1. QED
      OBVIOUS
  <2> HIDE DEF S, V, Z, base, next, step, m, B
  <2>4. \E f \in [S -> V] : Loop(f, S, Z, base, step, next)
    BY <1>2, <1>3, <1>4, <2>1, LoopExists
  <2>5. PICK f \in [S -> V] : Loop(f, S, Z, base, step, next)
    BY <2>4
  <2>6. \A s \in S : f[s] = IF s \in Z THEN base[s] ELSE f[next[s]]
    <3> TAKE s \in S
    <3>1. CASE s \in Z
      BY <2>5, <3>1 DEF Loop
    <3>2. CASE s \notin Z
      BY <1>4, <2>2, <2>5, <3>2 DEF Loop
    <3>3. QED
      BY <3>1, <3>2
  <2>7. QED
    BY <2>6, Zenon
<1>6. f = [s \in S |-> IF nl(s) > nr(s) THEN [idx |-> s[1], br |-> nl(s)] ELSE f[to(s)]]
  <2> SUFFICES ASSUME NEW s \in S
               PROVE  f[s] = IF nl(s) > nr(s) THEN [idx |-> s[1], br |-> nl(s)] ELSE f[to(s)]
    <3> HIDE DEF S, V, to, base, Z, next, step
    <3>1. f = [s \in S |-> f[s]]
      BY <1>5
    <3>2. QED
      BY <3>1, Zenon
  <2>1. next[s] = to(s)
    OBVIOUS
  <2>2. base[s] = [idx |-> s[1], br |-> nl(s)]
    OBVIOUS
  <2>3. s \in Z <=> nl(s) > nr(s)
    OBVIOUS
  <2> HIDE DEF S, V, to, base, Z, next, step
  <2>4. QED
    BY <1>5, <2>1, <2>2, <2>3
<1> DEFINE g == CHOOSE g : g = [s \in S |-> IF nl(s) > nr(s) THEN [idx |-> s[1], br |-> nl(s)]
                                            ELSE g[to(s)]]
<1>7. g = [s \in S |-> IF nl(s) > nr(s) THEN [idx |-> s[1], br |-> nl(s)] ELSE g[to(s)]]
  <2> HIDE DEF S, to
  <2>1. QED
    BY <1>6
<1>8. Partition(ix, index, n, first, low) = g[<<ix, first, n - 1>>]
  <2>1. DOMAIN ix = All
    OBVIOUS
  <2>2. QED
    BY <2>1, Zenon DEF Partition, nl, nr
<1> HIDE DEF g
<1>9. \A s \in S : g[s] = IF nl(s) > nr(s) THEN [idx |-> s[1], br |-> nl(s)] ELSE g[to(s)]
  <2> HIDE DEF S, to
  <2>1. QED
    BY <1>7
<1>10. Sweeps(g, index, n, first, low)
  BY <1>9 DEF Sweeps, FromBelow, FromTop, nl, nr
<1>11. QED
  BY <1>8, <1>10

(* y is the order x with the places in R rearranged among themselves.      *)
OneToOne(x) == \A a, b \in All : x[a] = x[b] => a = b

Rearranges(x, y, R) ==
  /\ y \in [All -> All]
  /\ \A a \in All : a \notin R => y[a] = x[a]
  /\ \A a \in R : \E b \in R : y[a] = x[b]
  /\ \A b \in R : \E a \in R : y[a] = x[b]
  /\ OneToOne(x) => OneToOne(y)

(* Leaving everything alone is a rearrangement.                            *)
LEMMA RearrangesNot ==
  ASSUME NEW x \in [All -> All], NEW R
  PROVE  Rearranges(x, x, R)
BY DEF Rearranges

(* Two rearrangements make one.                                            *)
LEMMA RearrangesTwice ==
  ASSUME NEW x, NEW y, NEW z, NEW R, Rearranges(x, y, R), Rearranges(y, z, R)
  PROVE  Rearranges(x, z, R)
<1>1. \A a \in R : \E b \in R : z[a] = x[b]
  BY DEF Rearranges
<1>2. \A b \in R : \E a \in R : z[a] = x[b]
  BY DEF Rearranges
<1>3. \A a \in All : a \notin R => z[a] = x[a]
  BY DEF Rearranges
<1>4. QED
  BY <1>1, <1>2, <1>3 DEF Rearranges

(* What rearranges a few places rearranges more.                           *)
LEMMA RearrangesMore ==
  ASSUME NEW x \in [All -> All], NEW y, NEW R, NEW Q \in SUBSET All,
         R \subseteq Q, Rearranges(x, y, R)
  PROVE  Rearranges(x, y, Q)
<1>1. \A a \in Q : \E b \in Q : y[a] = x[b]
  <2> TAKE a \in Q
  <2>1. CASE a \in R
    BY <2>1 DEF Rearranges
  <2>2. CASE a \notin R
    BY <2>2 DEF Rearranges
  <2>3. QED
    BY <2>1, <2>2
<1>2. \A b \in Q : \E a \in Q : y[a] = x[b]
  <2> TAKE b \in Q
  <2>1. CASE b \in R
    BY <2>1 DEF Rearranges
  <2>2. CASE b \notin R
    BY <2>2 DEF Rearranges
  <2>3. QED
    BY <2>1, <2>2
<1>3. QED
  BY <1>1, <1>2 DEF Rearranges

(* An exchange of two places is one.                                       *)
LEMMA ExchangeRearranges ==
  ASSUME NEW x \in [All -> All], NEW R \in SUBSET All, NEW a \in R, NEW b \in R
  PROVE  /\ Rearranges(x, Exchange(x, a, b), R)
         /\ Exchange(x, a, b)[a] = x[b]
         /\ Exchange(x, a, b)[b] = x[a]
         /\ \A c \in All : c # a /\ c # b => Exchange(x, a, b)[c] = x[c]
<1> DEFINE y == Exchange(x, a, b)
<1>1. /\ y \in [All -> All] /\ y[a] = x[b] /\ y[b] = x[a]
      /\ \A c \in All : c # a /\ c # b => y[c] = x[c]
  BY DEF Exchange
<1> HIDE DEF y
<1>2. \A c \in R : \E e \in R : y[c] = x[e]
  BY <1>1
<1>3. \A e \in R : \E c \in R : y[c] = x[e]
  BY <1>1
<1>4. OneToOne(x) => OneToOne(y)
  BY <1>1 DEF OneToOne
<1>5. QED
  BY <1>1, <1>2, <1>3, <1>4 DEF Rearranges, y

(* Wirth's partition rearranges the places it is given, and puts the       *)
(* points of `low' below br and the others from br on.                     *)
LEMMA PartitionFacts ==
  ASSUME NEW ix \in [All -> All], NEW index \in Nat, NEW n \in Nat, index + n <= N,
         NEW first \in 0 .. n, NEW low
  PROVE  LET r == Partition(ix, index, n, first, low)
         IN  /\ Rearranges(ix, r.idx, index + first .. index + n - 1)
             /\ r.br \in first .. n
             /\ \A j \in first .. r.br - 1 : r.idx[index + j] \in low
             /\ \A j \in r.br .. n - 1 : r.idx[index + j] \notin low
<1> DEFINE S == [All -> All] \X (first .. n) \X (first - 1 .. n - 1)
           nl(s) == FromBelow(s, index, n, low)
           nr(s) == FromTop(s, index, first, low)
           to(s) == <<Exchange(s[1], index + nl(s), index + nr(s)), nl(s) + 1, nr(s) - 1>>
           R == index + first .. index + n - 1
           Pre(s) == /\ \A j \in first .. s[2] - 1 : s[1][index + j] \in low
                     /\ \A j \in s[3] + 1 .. n - 1 : s[1][index + j] \notin low
           Post(s, r) == /\ Rearranges(s[1], r.idx, R)
                         /\ r.br \in first .. n
                         /\ \A j \in first .. r.br - 1 : r.idx[index + j] \in low
                         /\ \A j \in r.br .. n - 1 : r.idx[index + j] \notin low
           m(s) == (s[3] - s[2]) + n + 1
<1>1. PICK f : /\ \A s \in S : f[s] = IF nl(s) > nr(s) THEN [idx |-> s[1], br |-> nl(s)]
                                      ELSE f[to(s)]
               /\ Partition(ix, index, n, first, low) = f[<<ix, first, n - 1>>]
  <2>1. PICK f : /\ Sweeps(f, index, n, first, low)
                 /\ Partition(ix, index, n, first, low) = f[<<ix, first, n - 1>>]
    BY PartitionIs
  <2>2. \A s \in S : f[s] = IF nl(s) > nr(s) THEN [idx |-> s[1], br |-> nl(s)] ELSE f[to(s)]
    BY <2>1 DEF Sweeps
  <2>3. QED
    BY <2>1, <2>2
<1>2. N \in Nat /\ first \in Nat /\ R \in SUBSET All
  BY DataAssumption DEF All
<1>3. ASSUME NEW s \in S
      PROVE  /\ s[1] \in [All -> All] /\ s[2] \in first .. n /\ s[3] \in first - 1 .. n - 1
             /\ nl(s) \in s[2] .. n /\ nr(s) \in first - 1 .. s[3]
             /\ nl(s) = n \/ s[1][index + nl(s)] \notin low
             /\ nr(s) = first - 1 \/ s[1][index + nr(s)] \in low
             /\ \A j \in s[2] .. nl(s) - 1 : s[1][index + j] \in low
             /\ \A j \in nr(s) + 1 .. s[3] : s[1][index + j] \notin low
  <2>1. s[1] \in [All -> All] /\ s[2] \in first .. n /\ s[3] \in first - 1 .. n - 1
    OBVIOUS
  <2>2. /\ nl(s) \in s[2] .. n
        /\ nl(s) = n \/ s[1][index + nl(s)] \notin low
        /\ \A j \in s[2] .. nl(s) - 1 : s[1][index + j] \in low
    <3> DEFINE X == {j \in s[2] .. n : j = n \/ s[1][index + j] \notin low}
    <3>1. X \in SUBSET (s[2] .. n) /\ n \in X
      BY <2>1
    <3>2. s[2] \in Int /\ n \in Int
      BY <2>1
    <3> HIDE DEF X
    <3>3. Min(X) \in X /\ \A j \in X : Min(X) <= j
      BY <3>1, <3>2, MinOf
    <3>4. Min(X) \in s[2] .. n /\ (Min(X) = n \/ s[1][index + Min(X)] \notin low)
      BY <3>3 DEF X
    <3>5. ASSUME NEW j \in s[2] .. Min(X) - 1
          PROVE  s[1][index + j] \in low
      <4>1. j \in s[2] .. n /\ ~ (Min(X) <= j)
        BY <3>2, <3>4
      <4>2. j \notin X
        BY <3>3, <4>1
      <4>3. QED
        BY <4>1, <4>2 DEF X
    <3>6. QED
      BY <3>4, <3>5 DEF X, FromBelow, FromTop
  <2>3. /\ nr(s) \in first - 1 .. s[3]
        /\ nr(s) = first - 1 \/ s[1][index + nr(s)] \in low
        /\ \A j \in nr(s) + 1 .. s[3] : s[1][index + j] \notin low
    <3> DEFINE X == {j \in first - 1 .. s[3] : j = first - 1 \/ s[1][index + j] \in low}
    <3>1. X \in SUBSET (first - 1 .. s[3]) /\ first - 1 \in X
      BY <2>1
    <3>2. s[3] \in Int /\ first - 1 \in Int
      BY <2>1
    <3> HIDE DEF X
    <3>3. Max(X) \in X /\ \A j \in X : j <= Max(X)
      BY <3>1, <3>2, MaxOf
    <3>4. Max(X) \in first - 1 .. s[3] /\ (Max(X) = first - 1 \/ s[1][index + Max(X)] \in low)
      BY <3>3 DEF X
    <3>5. ASSUME NEW j \in Max(X) + 1 .. s[3]
          PROVE  s[1][index + j] \notin low
      <4>1. j \in first - 1 .. s[3] /\ ~ (j <= Max(X))
        BY <3>2, <3>4
      <4>2. j \notin X
        BY <3>3, <4>1
      <4>3. QED
        BY <4>1, <4>2 DEF X
    <3>6. QED
      BY <3>4, <3>5 DEF X, FromBelow, FromTop
  <2>4. QED
    BY <2>1, <2>2, <2>3
<1> HIDE DEF nl, nr
<1>4. ASSUME NEW s \in S, Pre(s), nl(s) > nr(s)
      PROVE  Post(s, [idx |-> s[1], br |-> nl(s)])
  <2>1. Rearranges(s[1], s[1], R)
    BY <1>3, RearrangesNot
  <2>2. nl(s) \in first .. n
    BY <1>2, <1>3
  <2>3. \A j \in first .. nl(s) - 1 : s[1][index + j] \in low
    <3> TAKE j \in first .. nl(s) - 1
    <3>1. j \in first .. s[2] - 1 \/ j \in s[2] .. nl(s) - 1
      BY <1>2, <1>3
    <3>2. QED
      BY <1>3, <1>4, <3>1
  <2>4. \A j \in nl(s) .. n - 1 : s[1][index + j] \notin low
    <3> TAKE j \in nl(s) .. n - 1
    <3>1. j \in nr(s) + 1 .. s[3] \/ j \in s[3] + 1 .. n - 1
      BY <1>2, <1>3, <1>4
    <3>2. QED
      BY <1>3, <1>4, <3>1
  <2> HIDE DEF R
  <2>5. QED
    BY <2>1, <2>2, <2>3, <2>4
<1>5. ASSUME NEW s \in S, Pre(s), ~ (nl(s) > nr(s))
      PROVE  /\ to(s) \in S /\ Pre(to(s)) /\ m(to(s)) \in Nat /\ m(to(s)) < m(s)
             /\ \A r : Post(to(s), r) => Post(s, r)
  <2>1. /\ nl(s) \in first .. n - 1 /\ nr(s) \in first .. n - 1
        /\ nl(s) >= s[2] /\ nr(s) <= s[3] /\ s[2] \in Int /\ s[3] \in Int
    BY <1>2, <1>3, <1>5
  <2>14. s[1][index + nl(s)] \notin low /\ s[1][index + nr(s)] \in low
    BY <1>2, <1>3, <1>5, <2>1
  <2>2. nl(s) \in Int /\ nr(s) \in Int /\ nl(s) < nr(s)
    <3>2. nl(s) # nr(s)
      BY <2>14
    <3>3. QED
      BY <1>2, <1>5, <2>1, <3>2
  <2> DEFINE y == Exchange(s[1], index + nl(s), index + nr(s))
  <2>3. index + nl(s) \in R /\ index + nr(s) \in R
    BY <1>2, <2>1
  <2>4. /\ Rearranges(s[1], y, R)
        /\ y[index + nl(s)] = s[1][index + nr(s)]
        /\ y[index + nr(s)] = s[1][index + nl(s)]
        /\ \A c \in All : c # index + nl(s) /\ c # index + nr(s) => y[c] = s[1][c]
    <3> HIDE DEF R, S, Pre, Post, m, to
    <3> DEFINE a == index + nl(s)
               b == index + nr(s)
               x == s[1]
    <3>1. x \in [All -> All] /\ R \in SUBSET All /\ a \in R /\ b \in R
      BY <1>2, <1>3, <2>3
    <3>2. y = Exchange(x, a, b)
      OBVIOUS
    <3> HIDE DEF a, b, x, y
    <3>3. /\ Rearranges(x, Exchange(x, a, b), R)
          /\ Exchange(x, a, b)[a] = x[b] /\ Exchange(x, a, b)[b] = x[a]
          /\ \A c \in All : c # a /\ c # b => Exchange(x, a, b)[c] = x[c]
      BY <3>1, ExchangeRearranges, ZenonT(40)
    <3>4. QED
      BY <3>2, <3>3 DEF a, b, x
  <2>5. to(s) = <<y, nl(s) + 1, nr(s) - 1>>
    OBVIOUS
  <2> HIDE DEF y, to
  <2>6. y \in [All -> All]
    BY <2>4 DEF Rearranges
  <2>7. to(s) \in S
    BY <1>2, <2>1, <2>5, <2>6
  <2>8. m(to(s)) \in Nat /\ m(to(s)) < m(s)
    BY <1>2, <2>1, <2>2, <2>5
  <2>9. \A j \in first .. nl(s) : y[index + j] \in low
    <3> TAKE j \in first .. nl(s)
    <3>1. CASE j = nl(s)
      BY <2>4, <2>14, <3>1
    <3>2. CASE j # nl(s)
      <4>1. j \in first .. s[2] - 1 \/ j \in s[2] .. nl(s) - 1
        BY <1>2, <2>1, <2>2, <3>2
      <4>2. s[1][index + j] \in low
        BY <1>3, <1>5, <4>1
      <4>3. index + j \in All /\ index + j # index + nl(s) /\ index + j # index + nr(s)
        <5>1. j \in Int /\ 0 <= j /\ j <= n - 1 /\ j # nl(s) /\ j # nr(s) /\ index + n <= N
          BY <1>2, <2>1, <2>2, <3>2
        <5>2. index + j \in All
          BY <1>2, <5>1 DEF All
        <5>3. nl(s) \in Int /\ nr(s) \in Int /\ index \in Int
          BY <2>2
        <5> HIDE DEF nl, nr
        <5>4. index + j # index + nl(s) /\ index + j # index + nr(s)
          BY <5>1, <5>3
        <5>5. QED
          BY <5>2, <5>4
      <4>4. QED
        BY <2>4, <4>2, <4>3
    <3>3. QED
      BY <3>1, <3>2
  <2>10. \A j \in nr(s) .. n - 1 : y[index + j] \notin low
    <3> TAKE j \in nr(s) .. n - 1
    <3>1. CASE j = nr(s)
      BY <2>4, <2>14, <3>1
    <3>2. CASE j # nr(s)
      <4>1. j \in nr(s) + 1 .. s[3] \/ j \in s[3] + 1 .. n - 1
        BY <1>2, <2>1, <2>2, <3>2
      <4>2. s[1][index + j] \notin low
        BY <1>3, <1>5, <4>1
      <4>3. index + j \in All /\ index + j # index + nl(s) /\ index + j # index + nr(s)
        <5>1. j \in Int /\ 0 <= j /\ j <= n - 1 /\ j # nl(s) /\ j # nr(s) /\ index + n <= N
          BY <1>2, <2>1, <2>2, <3>2
        <5>2. index + j \in All
          BY <1>2, <5>1 DEF All
        <5>3. nl(s) \in Int /\ nr(s) \in Int /\ index \in Int
          BY <2>2
        <5> HIDE DEF nl, nr
        <5>4. index + j # index + nl(s) /\ index + j # index + nr(s)
          BY <5>1, <5>3
        <5>5. QED
          BY <5>2, <5>4
      <4>4. QED
        BY <2>4, <4>2, <4>3
    <3>3. QED
      BY <3>1, <3>2
  <2>11. Pre(to(s))
    BY <2>1, <2>2, <2>5, <2>9, <2>10
  <2>12. \A r : Post(to(s), r) => Post(s, r)
    <3> TAKE r
    <3> HIDE DEF R
    <3>1. ASSUME Rearranges(to(s)[1], r.idx, R)
          PROVE  Rearranges(s[1], r.idx, R)
      <4>1. to(s)[1] = y
        BY <2>5
      <4>2. QED
        BY <2>4, <3>1, <4>1, RearrangesTwice
    <3>2. QED
      BY <3>1
  <2> HIDE DEF S, Pre, Post, m
  <2>13. QED
    BY <2>7, <2>8, <2>11, <2>12
<1>6. \A s \in S : m(s) \in Nat
  BY <1>2
<1> DEFINE Bad == {s \in S : Pre(s) /\ ~Post(s, f[s])}
<1>7. Bad = {}
  <2> SUFFICES ASSUME Bad # {}
               PROVE  FALSE
    OBVIOUS
  <2> DEFINE T == {x \in Nat : \E s \in Bad : m(s) = x}
  <2> HIDE DEF S, Pre, Post, m, to
  <2>1. T # {}
    BY <1>6
  <2>2. PICK x \in T : \A y \in T : x <= y
    BY <2>1, LeastNat
  <2>3. PICK s \in Bad : m(s) = x
    OBVIOUS
  <2>4. CASE nl(s) > nr(s)
    <3>1. f[s] = [idx |-> s[1], br |-> nl(s)]
      BY <1>1, <2>4
    <3>2. QED
      BY <1>4, <2>4, <3>1
  <2>5. CASE ~ (nl(s) > nr(s))
    <3>1. f[s] = f[to(s)]
      BY <1>1, <2>5
    <3>2. to(s) \in S /\ Pre(to(s)) /\ m(to(s)) \in Nat /\ m(to(s)) < m(s)
          /\ (Post(to(s), f[to(s)]) => Post(s, f[to(s)]))
      BY <1>5, <2>5
    <3>3. to(s) \in Bad
      BY <3>1, <3>2
    <3>4. m(to(s)) \in T
      BY <3>2, <3>3
    <3>5. x <= m(to(s)) /\ x \in Nat
      BY <2>2, <3>4
    <3>6. QED
      BY <2>3, <3>2, <3>5
  <2>6. QED
    BY <2>4, <2>5
<1> DEFINE s0 == <<ix, first, n - 1>>
<1>8. s0 \in S /\ Pre(s0)
  BY <1>2
<1>9. Post(s0, f[s0])
  <2> HIDE DEF S, Pre, Post, s0
  <2>1. QED
    BY <1>7, <1>8
<1>10. Post(s0, Partition(ix, index, n, first, low))
  <2>1. Partition(ix, index, n, first, low) = f[s0]
    BY <1>1
  <2> HIDE DEF Post, s0
  <2>2. QED
    BY <1>9, <2>1
<1>11. s0[1] = ix
  OBVIOUS
<1> HIDE DEF s0, R
<1>12. QED
  BY <1>10, <1>11 DEF R

------------------------------------------------------------------------------
(* One split.                                                              *)

(* The points at these places lie in the box.                              *)
PointsIn(pts, ix, from, to, lo, hi) ==
  \A j \in from .. to - 1, d \in Dims : lo[d] <= pts[ix[j]][d] /\ pts[ix[j]][d] <= hi[d]

(* What split_bounding_box promises: both parts get a point, and each      *)
(* part's points lie in its cell.                                          *)
Splits(x, y, index, n, lo, hi, s) ==
  /\ Rearranges(x, s.idx, index .. index + n - 1)
  /\ s.cdim \in Dims /\ s.cval \in Coord
  /\ lo[s.cdim] <= s.cval /\ s.cval <= hi[s.cdim]
  /\ s.n_lo \in 1 .. n - 1
  /\ LowerCell(hi, s) \in Point /\ UpperCell(lo, s) \in Point
  /\ PointsIn(y, s.idx, index, index + s.n_lo, lo, LowerCell(hi, s))
  /\ PointsIn(y, s.idx, index + s.n_lo, index + n, UpperCell(lo, s), hi)

(* A stored number is in the range of its type.                            *)
LEMMA WrapRange ==
  ASSUME NEW x \in Int, NEW m \in Nat, m > 0
  PROVE  Wrap(x, m) \in -m .. m - 1
<1>1. 2 * m \in Int /\ 2 * m > 0 /\ x + m \in Int
  OBVIOUS
<1>2. (x + m) % (2 * m) \in 0 .. 2 * m - 1
  BY <1>1
<1>3. QED
  BY <1>2 DEF Wrap

(* Half of an integer, rounded, is one.                                    *)
LEMMA QuotientInt ==
  ASSUME NEW x \in Int
  PROVE  Quotient(x, 2) \in Int
BY DEF Quotient

(* The dimensions.                                                         *)
LEMMA DimsAre == Dims = {0, 1, 2}
BY DEF Dims, D

(* split_bounding_box chooses a dimension.                                 *)
LEMMA LongestIs ==
  ASSUME NEW lo \in Point, NEW hi \in Point
  PROVE  Longest(lo, hi) \in Dims
<1> DEFINE edge(d) == Wrap(hi[d] - lo[d], COORD)
           X == {d \in Dims : \A e \in Dims : edge(e) <= edge(d)}
<1>1. COORD \in Nat /\ COORD > 0
  BY WidthAssumption
<1>2. \A d \in Dims : edge(d) \in Int
  <2> TAKE d \in Dims
  <2>1. hi[d] - lo[d] \in Int
    BY <1>1 DEF Point, Coord
  <2>2. QED
    BY <1>1, <2>1, WrapRange
<1> HIDE DEF edge
<1>3. X # {}
  BY <1>2, DimsAre
<1>4. X \in SUBSET (0 .. 2)
  BY DimsAre
<1>5. Min(X) \in X
  <2> HIDE DEF X
  <2>1. QED
    BY <1>3, <1>4, MinOf
<1>6. QED
  BY <1>5 DEF Longest, edge

(* The least and the greatest coordinate of some points are points'        *)
(* coordinates, and bound the others'.                                     *)
LEMMA CoordinateRange ==
  ASSUME NEW y \in [All -> Point], NEW x \in [All -> All], y = points,
         NEW index \in Nat, NEW n \in Nat, n > 0, index + n <= N, NEW d \in Dims
  PROVE  LET C == Coordinates(x, index, n, d)
         IN  /\ \A j \in index .. index + n - 1 :
                  y[x[j]][d] \in Coord /\ Min(C) <= y[x[j]][d] /\ y[x[j]][d] <= Max(C)
             /\ \E j \in index .. index + n - 1 : y[x[j]][d] = Min(C)
             /\ \E j \in index .. index + n - 1 : y[x[j]][d] = Max(C)
<1> DEFINE C == Coordinates(x, index, n, d)
<1>1. N \in Nat /\ COORD \in Nat
  BY DataAssumption, WidthAssumption
<1>2. \A j \in index .. index + n - 1 : j \in All /\ j - index \in 0 .. n - 1 /\ index + (j - index) = j
  BY <1>1 DEF All
<1>3. \A j \in index .. index + n - 1 : y[x[j]][d] \in C /\ y[x[j]][d] \in Coord
  <2> TAKE j \in index .. index + n - 1
  <2>1. y[x[j]][d] \in Coord
    BY <1>2 DEF Point
  <2>2. y[x[j]][d] \in C
    BY <1>2 DEF Coordinates
  <2>3. QED
    BY <2>1, <2>2
<1>4. \A c \in C : \E j \in index .. index + n - 1 : y[x[j]][d] = c
  <2> TAKE c \in C
  <2>1. PICK j \in 0 .. n - 1 : c = y[x[index + j]][d]
    BY DEF Coordinates
  <2>2. index + j \in index .. index + n - 1
    OBVIOUS
  <2>3. QED
    BY <2>1, <2>2
<1> HIDE DEF C
<1>5. C \in SUBSET (-COORD .. COORD - 1)
  BY <1>3, <1>4 DEF Coord
<1>6. C # {}
  <2>1. index \in index .. index + n - 1
    OBVIOUS
  <2>2. QED
    BY <1>3, <2>1
<1>7. -COORD \in Int /\ COORD - 1 \in Int
  BY <1>1
<1>8. Min(C) \in C /\ \A c \in C : Min(C) <= c
  BY <1>5, <1>6, <1>7, MinOf
<1>9. Max(C) \in C /\ \A c \in C : c <= Max(C)
  BY <1>5, <1>6, <1>7, MaxOf
<1>10. QED
  BY <1>3, <1>4, <1>8, <1>9 DEF C

(* split_bounding_box keeps its promise for two or more points, wherever   *)
(* the plane lies and however many points lie on it: the middle of the     *)
(* edge may even be off the points' range or have wrapped.                 *)
LEMMA SplitFacts ==
  ASSUME points \in [All -> Point], idx \in [All -> All],
         NEW index \in Nat, NEW n \in Nat, n >= 2, index + n <= N,
         NEW lo \in Point, NEW hi \in Point,
         PointsIn(points, idx, index, index + n, lo, hi)
  PROVE  Splits(idx, points, index, n, lo, hi, split_bounding_box(index, n, lo, hi))
<1> DEFINE dim == Longest(lo, hi)
           ideal == Wrap(Quotient(hi[dim] + lo[dim], 2), COORD)
           min == Min(Coordinates(idx, index, n, dim))
           max == Max(Coordinates(idx, index, n, dim))
           cval == IF ideal < min THEN min ELSE IF ideal > max THEN max ELSE ideal
           below == {x \in DOMAIN points : points[x][dim] < cval}
           upto == {x \in DOMAIN points : points[x][dim] <= cval}
           one == Partition(idx, index, n, 0, below)
           two == Partition(one.idx, index, n, one.br, upto)
           n_lo == LowerPartSize(n, one.br, two.br, ideal, min, max)
           s == [idx |-> two.idx, cdim |-> dim, cval |-> cval, n_lo |-> n_lo]
           R == index .. index + n - 1
           at(x, j) == points[x[index + j]][dim]
<1>1. N \in Nat /\ COORD \in Nat /\ COORD > 0 /\ R \in SUBSET All
  BY DataAssumption, WidthAssumption DEF All
<1>2. dim \in Dims
  BY LongestIs
<1>3. lo[dim] \in Coord /\ hi[dim] \in Coord /\ ideal \in Int
  <2>1. lo[dim] \in Coord /\ hi[dim] \in Coord
    BY <1>2 DEF Point
  <2> HIDE DEF dim
  <2>2. hi[dim] + lo[dim] \in Int
    BY <1>1, <2>1 DEF Coord
  <2>3. QED
    BY <1>1, <2>1, <2>2, QuotientInt, WrapRange
<1> HIDE DEF dim, ideal
<1>4. /\ \A j \in R : points[idx[j]][dim] \in Coord
                      /\ min <= points[idx[j]][dim] /\ points[idx[j]][dim] <= max
      /\ \E j \in R : points[idx[j]][dim] = min
      /\ \E j \in R : points[idx[j]][dim] = max
  BY <1>2, CoordinateRange
<1> HIDE DEF min, max
<1>5. min \in Coord /\ max \in Coord /\ cval \in Coord /\ min <= cval /\ cval <= max
  BY <1>1, <1>3, <1>4 DEF Coord
<1>6. lo[dim] <= min /\ max <= hi[dim]
  BY <1>1, <1>2, <1>4 DEF PointsIn
<1>7. lo[dim] <= cval /\ cval <= hi[dim]
  BY <1>1, <1>3, <1>5, <1>6 DEF Coord
<1>8. /\ Rearranges(idx, one.idx, R)
      /\ one.br \in 0 .. n
      /\ \A j \in 0 .. one.br - 1 : one.idx[index + j] \in below
      /\ \A j \in one.br .. n - 1 : one.idx[index + j] \notin below
  <2>1. index + 0 = index /\ 0 \in 0 .. n
    OBVIOUS
  <2> HIDE DEF below
  <2>2. QED
    BY <2>1, PartitionFacts
<1>9. one.idx \in [All -> All]
  BY <1>8 DEF Rearranges
<1>10. /\ Rearranges(one.idx, two.idx, index + one.br .. index + n - 1)
       /\ two.br \in one.br .. n
       /\ \A j \in one.br .. two.br - 1 : two.idx[index + j] \in upto
       /\ \A j \in two.br .. n - 1 : two.idx[index + j] \notin upto
  <2> DEFINE x == one.idx
             f == one.br
             r == Partition(x, index, n, f, upto)
  <2>1. x \in [All -> All] /\ f \in 0 .. n
    BY <1>8, <1>9
  <2> HIDE DEF upto, one, x, f
  <2>2. /\ Rearranges(x, r.idx, index + f .. index + n - 1)
        /\ r.br \in f .. n
        /\ \A j \in f .. r.br - 1 : r.idx[index + j] \in upto
        /\ \A j \in r.br .. n - 1 : r.idx[index + j] \notin upto
    BY <2>1, PartitionFacts
  <2>3. r = two
    BY DEF x, f
  <2> HIDE DEF two, r
  <2>4. QED
    BY <2>2, <2>3 DEF x, f
<1> HIDE DEF one, two, cval
<1>11. Rearranges(idx, two.idx, R) /\ Rearranges(one.idx, two.idx, R)
  <2>1. index + one.br .. index + n - 1 \subseteq R
    BY <1>8
  <2> HIDE DEF R
  <2>2. Rearranges(one.idx, two.idx, R)
    BY <1>1, <1>9, <1>10, <2>1, RearrangesMore
  <2>3. QED
    BY <1>8, <2>2, RearrangesTwice
<1>12. two.idx \in [All -> All]
  BY <1>11 DEF Rearranges
<1>13. \A j \in 0 .. n - 1 : at(two.idx, j) \in Coord /\ min <= at(two.idx, j) /\ at(two.idx, j) <= max
  <2> TAKE j \in 0 .. n - 1
  <2>1. index + j \in R
    OBVIOUS
  <2>2. PICK a \in R : two.idx[index + j] = idx[a]
    BY <1>11, <2>1 DEF Rearranges
  <2> HIDE DEF R
  <2>3. QED
    BY <1>4, <2>2
<1>14. \A j \in 0 .. one.br - 1 : at(two.idx, j) < cval
  <2> TAKE j \in 0 .. one.br - 1
  <2>1. index + j \in All /\ index + j \notin index + one.br .. index + n - 1
    <3>1. j \in Int /\ 0 <= j /\ j < one.br /\ one.br <= n /\ one.br \in Int
      BY <1>8
    <3> HIDE DEF R, s, at
    <3>2. QED
      BY <1>1, <3>1 DEF All
  <2>2. two.idx[index + j] = one.idx[index + j]
    BY <1>10, <2>1 DEF Rearranges
  <2>3. QED
    BY <1>8, <2>2
<1>15. \A j \in one.br .. n - 1 : at(two.idx, j) >= cval
  <2> TAKE j \in one.br .. n - 1
  <2>1. index + j \in index + one.br .. index + n - 1
    BY <1>8
  <2>2. PICK a \in index + one.br .. index + n - 1 : two.idx[index + j] = one.idx[a]
    BY <1>10, <2>1 DEF Rearranges
  <2>3. a - index \in one.br .. n - 1 /\ index + (a - index) = a /\ a \in All
    <3>1. one.br \in Int /\ 0 <= one.br /\ one.br <= n
      BY <1>8
    <3>2. a \in Int /\ index + one.br <= a /\ a <= index + n - 1
      BY <3>1
    <3> HIDE DEF R, s, at
    <3>3. QED
      BY <1>1, <3>1, <3>2 DEF All
  <2>4. one.idx[a] \notin below /\ one.idx[a] \in All
    BY <1>8, <1>9, <2>3
  <2>5. ~ (points[one.idx[a]][dim] < cval)
    BY <2>4
  <2>6. points[one.idx[a]][dim] \in Int /\ cval \in Int
    BY <1>1, <1>2, <1>5, <2>4 DEF Point, Coord
  <2>7. QED
    BY <2>2, <2>5, <2>6
<1>16. \A j \in 0 .. two.br - 1 : at(two.idx, j) <= cval
  <2> TAKE j \in 0 .. two.br - 1
  <2>1. CASE j < one.br
    <3>1. j \in 0 .. one.br - 1 /\ j \in 0 .. n - 1
      BY <1>8, <1>10, <2>1
    <3>2. at(two.idx, j) < cval /\ at(two.idx, j) \in Coord
      BY <1>13, <1>14, <3>1
    <3>3. QED
      BY <1>1, <1>5, <3>2 DEF Coord
  <2>2. CASE ~ (j < one.br)
    <3>1. j \in one.br .. two.br - 1
      BY <1>8, <1>10, <2>2
    <3>2. QED
      BY <1>10, <3>1
  <2>3. QED
    BY <2>1, <2>2
<1>17. one.br < n /\ (ideal < min => one.br = 0)
  <2>1. PICK j \in R : points[idx[j]][dim] = max
    BY <1>4
  <2>2. PICK a \in R : two.idx[a] = idx[j]
    BY <1>11 DEF Rearranges
  <2>3. a - index \in 0 .. n - 1 /\ index + (a - index) = a
    BY <2>2
  <2>4. ~ (at(two.idx, a - index) < cval)
    BY <1>1, <1>5, <2>1, <2>2, <2>3 DEF Coord
  <2>5. a - index \notin 0 .. one.br - 1
    BY <1>14, <2>4
  <2>6. one.br < n
    BY <1>8, <2>3, <2>5
  <2>7. ASSUME ideal < min, one.br > 0
        PROVE  FALSE
    <3>1. cval = min
      BY <2>7 DEF cval
    <3>2. at(two.idx, 0) < cval /\ min <= at(two.idx, 0) /\ at(two.idx, 0) \in Coord
      BY <1>8, <1>13, <1>14, <2>7
    <3>3. QED
      BY <1>1, <1>5, <3>1, <3>2 DEF Coord
  <2>8. QED
    BY <1>8, <2>6, <2>7
<1>18. two.br >= 1 /\ (ideal > max /\ ~ (ideal < min) => two.br = n)
  <2>1. PICK j \in R : points[idx[j]][dim] = min
    BY <1>4
  <2>2. PICK a \in R : two.idx[a] = idx[j]
    BY <1>11 DEF Rearranges
  <2>3. a - index \in 0 .. n - 1 /\ index + (a - index) = a
    BY <2>2
  <2>4. two.idx[a] \in upto
    <3>1. two.idx[a] \in All
      BY <1>1, <1>12, <2>2
    <3>2. QED
      BY <2>1, <2>2, <1>5, <3>1
  <2>5. a - index \notin two.br .. n - 1
    BY <1>10, <2>3, <2>4
  <2>6. two.br >= 1
    BY <1>8, <1>10, <2>3, <2>5
  <2>7. ASSUME ideal > max, ~ (ideal < min), two.br < n
        PROVE  FALSE
    <3>1. cval = max
      BY <2>7 DEF cval
    <3>2. n - 1 \in two.br .. n - 1 /\ n - 1 \in 0 .. n - 1 /\ index + (n - 1) \in All
      BY <1>1, <1>8, <1>10, <2>7 DEF All
    <3>3. two.idx[index + (n - 1)] \notin upto /\ two.idx[index + (n - 1)] \in All
      BY <1>10, <1>12, <3>2
    <3>4. ~ (at(two.idx, n - 1) <= cval)
      BY <3>3
    <3>5. QED
      BY <1>13, <3>1, <3>2, <3>4
  <2>8. QED
    BY <1>8, <1>10, <2>6, <2>7
<1>19. n_lo \in 1 .. n - 1 /\ one.br <= n_lo /\ n_lo <= two.br
  <2>1. n \div 2 \in 1 .. n - 1
    OBVIOUS
  <2>2. one.br \in Nat /\ two.br \in Nat /\ one.br <= two.br /\ two.br <= n
    BY <1>8, <1>10
  <2>3. min \in Int /\ max \in Int
    BY <1>1, <1>5 DEF Coord
  <2>4. CASE ideal < min
    <3>1. ~ (ideal > max)
      BY <1>1, <1>3, <1>5, <2>3, <2>4 DEF Coord
    <3>2. n_lo = 1
      BY <2>4, <3>1 DEF LowerPartSize
    <3> HIDE DEF n_lo
    <3>3. QED
      BY <1>17, <1>18, <2>2, <2>4, <3>2
  <2>5. CASE ~ (ideal < min) /\ ideal > max
    BY <1>17, <1>18, <2>2, <2>5 DEF LowerPartSize
  <2>6. CASE ~ (ideal < min) /\ ~ (ideal > max)
    BY <1>17, <1>18, <2>1, <2>2, <2>6 DEF LowerPartSize
  <2>7. QED
    BY <2>4, <2>5, <2>6
<1> HIDE DEF n_lo
<1>20. LowerCell(hi, s) \in Point /\ UpperCell(lo, s) \in Point
  BY <1>2, <1>5 DEF LowerCell, UpperCell, Point
<1>21. \A j \in 0 .. n - 1, d \in Dims : lo[d] <= points[two.idx[index + j]][d]
                                         /\ points[two.idx[index + j]][d] <= hi[d]
  <2> TAKE j \in 0 .. n - 1, d \in Dims
  <2>1. index + j \in R
    OBVIOUS
  <2>2. PICK a \in R : two.idx[index + j] = idx[a]
    BY <1>11, <2>1 DEF Rearranges
  <2>3. QED
    BY <2>2 DEF PointsIn
<1>22. PointsIn(points, two.idx, index, index + n_lo, lo, LowerCell(hi, s))
  <2> HIDE DEF s
  <2> SUFFICES ASSUME NEW j \in index .. index + n_lo - 1, NEW d \in Dims
               PROVE  /\ lo[d] <= points[two.idx[j]][d]
                      /\ points[two.idx[j]][d] <= LowerCell(hi, s)[d]
    BY <1>19 DEF PointsIn
  <2>1. j - index \in 0 .. n_lo - 1 /\ index + (j - index) = j
    BY <1>19
  <2>2. j - index \in 0 .. n - 1 /\ j - index \in 0 .. two.br - 1
    BY <1>8, <1>10, <1>19, <2>1
  <2>3. LowerCell(hi, s)[d] = IF d = dim THEN cval ELSE hi[d]
    BY <1>2 DEF LowerCell, Point, s
  <2>4. QED
    BY <1>16, <1>21, <2>1, <2>2, <2>3
<1>23. PointsIn(points, two.idx, index + n_lo, index + n, UpperCell(lo, s), hi)
  <2> HIDE DEF s
  <2> SUFFICES ASSUME NEW j \in index + n_lo .. index + n - 1, NEW d \in Dims
               PROVE  /\ UpperCell(lo, s)[d] <= points[two.idx[j]][d]
                      /\ points[two.idx[j]][d] <= hi[d]
    BY DEF PointsIn
  <2>1. j - index \in n_lo .. n - 1 /\ index + (j - index) = j
    BY <1>19
  <2>2. j - index \in 0 .. n - 1 /\ j - index \in one.br .. n - 1
    BY <1>8, <1>10, <1>19, <2>1
  <2>3. UpperCell(lo, s)[d] = IF d = dim THEN cval ELSE lo[d]
    BY <1>2 DEF UpperCell, Point, s
  <2>4. d = dim => cval <= points[two.idx[j]][d]
    <3>1. at(two.idx, j - index) >= cval /\ at(two.idx, j - index) \in Coord
      BY <1>13, <1>15, <2>2
    <3>2. QED
      BY <1>1, <1>5, <2>1, <3>1 DEF Coord
  <2>5. QED
    BY <1>21, <2>1, <2>2, <2>3, <2>4
<1>24. Splits(idx, points, index, n, lo, hi, s)
  <2>1. s.idx = two.idx /\ s.cdim = dim /\ s.cval = cval /\ s.n_lo = n_lo
    OBVIOUS
  <2> HIDE DEF s
  <2>2. QED
    BY <1>2, <1>5, <1>7, <1>11, <1>19, <1>20, <1>22, <1>23, <2>1 DEF Splits
<1>25. s = split_bounding_box(index, n, lo, hi)
  BY DEF split_bounding_box, dim, ideal, min, max, cval, one, two, n_lo
<1>26. QED
  BY <1>24, <1>25

------------------------------------------------------------------------------
(* Sums over a set of places.                                              *)

(* The sum of a coordinate of the points at the places in R.               *)
Total(pts, ix, d, R) == MapThenSumSet(LAMBDA j : pts[ix[j]][d], R)

(* F gives every subset of R the sum of the values v of its elements.      *)
Adds(F, v, R) ==
  /\ F \in [SUBSET R -> Int]
  /\ F[{}] = 0
  /\ \A s \in SUBSET R : \A x \in s : F[s] = v[x] + F[s \ {x}]

(* A set of finite sets has a smallest member: the induction over sets.    *)
LEMMA LeastCounterexample ==
  ASSUME NEW R, IsFiniteSet(R), NEW Bad \in SUBSET (SUBSET R), Bad # {}
  PROVE  \E s \in Bad : \A t \in Bad : ~ (Cardinality(t) < Cardinality(s))
<1> DEFINE T == {x \in Nat : \E s \in Bad : Cardinality(s) = x}
<1>1. \A s \in Bad : Cardinality(s) \in Nat
  <2> TAKE s \in Bad
  <2>1. IsFiniteSet(s)
    BY FS_Subset
  <2>2. QED
    BY <2>1, FS_CardinalityType
<1>2. T # {}
  BY <1>1
<1>3. PICK x \in T : \A y \in T : x <= y
  BY <1>2, LeastNat
<1>4. PICK s \in Bad : Cardinality(s) = x
  OBVIOUS
<1>5. ASSUME NEW t \in Bad, Cardinality(t) < Cardinality(s)
      PROVE  FALSE
  <2>1. Cardinality(t) \in T /\ Cardinality(t) \in Nat /\ x \in Nat
    BY <1>1
  <2>2. x <= Cardinality(t)
    BY <1>3, <2>1
  <2>3. QED
    BY <1>4, <1>5, <2>1, <2>2
<1>6. QED
  BY <1>5

(* A set without one of its elements is smaller.                           *)
LEMMA OneLess ==
  ASSUME NEW R, IsFiniteSet(R), NEW s \in SUBSET R, NEW x \in s
  PROVE  /\ s \ {x} \in SUBSET R
         /\ Cardinality(s \ {x}) < Cardinality(s)
         /\ Cardinality(s) \in Nat /\ Cardinality(s \ {x}) \in Nat
<1>1. IsFiniteSet(s)
  BY FS_Subset
<1>2. Cardinality(s) \in Nat
  BY <1>1, FS_CardinalityType
<1>3. IsFiniteSet(s \ {x}) /\ Cardinality(s \ {x}) = Cardinality(s) - 1
  BY <1>1, FS_RemoveElement
<1>4. Cardinality(s \ {x}) \in Nat
  BY <1>3, FS_CardinalityType
<1>5. QED
  BY <1>2, <1>3, <1>4

(* A sum that takes away some element takes away any: the order of         *)
(* addition does not matter.                                               *)
LEMMA AnyElement ==
  ASSUME NEW R, IsFiniteSet(R), NEW v \in [R -> Int], NEW F \in [SUBSET R -> Int],
         \A s \in SUBSET R : s # {} => \E y \in s : F[s] = v[y] + F[s \ {y}],
         F[{}] = 0
  PROVE  Adds(F, v, R)
<1> DEFINE Fails(s) == \E x \in s : F[s] # v[x] + F[s \ {x}]
           Bad == {s \in SUBSET R : Fails(s)}
<1>1. Bad = {}
  <2> SUFFICES ASSUME Bad # {}
               PROVE  FALSE
    OBVIOUS
  <2>1. PICK s \in Bad : \A t \in Bad : ~ (Cardinality(t) < Cardinality(s))
    <3>1. Bad \in SUBSET (SUBSET R)
      OBVIOUS
    <3> HIDE DEF Bad
    <3>2. QED
      BY <3>1, LeastCounterexample
  <2>2. PICK x \in s : F[s] # v[x] + F[s \ {x}]
    OBVIOUS
  <2>3. PICK y \in s : F[s] = v[y] + F[s \ {y}]
    OBVIOUS
  <2>4. s \ {x} \notin Bad /\ s \ {y} \notin Bad
    BY <2>1, OneLess
  <2>5. x # y
    BY <2>2, <2>3
  <2>6. F[s \ {y}] = v[x] + F[(s \ {y}) \ {x}]
    BY <2>4, <2>5
  <2>7. F[s \ {x}] = v[y] + F[(s \ {x}) \ {y}]
    BY <2>4, <2>5
  <2>8. (s \ {x}) \ {y} = (s \ {y}) \ {x}
    OBVIOUS
  <2>9. v[x] \in Int /\ v[y] \in Int /\ F[(s \ {y}) \ {x}] \in Int
    <3>1. (s \ {y}) \ {x} \in SUBSET R /\ x \in R /\ y \in R
      OBVIOUS
    <3>2. QED
      BY <3>1
  <2>10. F[s \ {x}] = v[y] + F[(s \ {y}) \ {x}]
    BY <2>7, <2>8, Zenon
  <2> DEFINE a == F[(s \ {y}) \ {x}]
             b == F[s \ {x}]
             c == F[s \ {y}]
  <2>11. F[s] = v[y] + c /\ c = v[x] + a /\ b = v[y] + a /\ F[s] # v[x] + b
    BY <2>2, <2>3, <2>6, <2>10
  <2>12. a \in Int /\ v[x] \in Int /\ v[y] \in Int
    BY <2>9
  <2> HIDE DEF a, b, c, Bad
  <2>13. QED
    BY <2>11, <2>12
<1>2. QED
  BY <1>1 DEF Adds

(* MapThenSumSet's recursive function exists, so it is a sum.              *)
LEMMA SumExists ==
  ASSUME NEW pts \in [All -> Point], NEW ix \in [All -> All], NEW d \in Dims,
         NEW R \in SUBSET All
  PROVE  \E F : /\ Adds(F, [j \in R |-> pts[ix[j]][d]], R)
                /\ Total(pts, ix, d, R) = F[R]
<1> DEFINE one(s) == CHOOSE x \in s : TRUE
           X == SUBSET R
           v == [j \in R |-> pts[ix[j]][d]]
           next == [s \in X |-> s \ {one(s)}]
           step == [t \in X \X Int |-> IF t[1] = {} THEN 0 ELSE v[one(t[1])] + t[2]]
           base == [s \in X |-> 0]
           m == [s \in X |-> Cardinality(s)]
           B == Cardinality(R)
<1>1. IsFiniteSet(R) /\ v \in [R -> Int]
  <2>1. IsFiniteSet(All)
    BY DataAssumption, FS_Interval DEF All
  <2>2. IsFiniteSet(R)
    BY <2>1, FS_Subset
  <2>3. \A j \in R : pts[ix[j]][d] \in Int
    BY WidthAssumption DEF Point, Coord
  <2>4. QED
    BY <2>2, <2>3
<1>2. \A s \in X : s # {} => one(s) \in s /\ s \ {one(s)} \in X
  OBVIOUS
<1>3. B \in Nat /\ m \in [X -> 0 .. B]
  <2>1. B \in Nat
    BY <1>1, FS_CardinalityType
  <2>2. ASSUME NEW s \in X
        PROVE  Cardinality(s) \in 0 .. B
    <3>1. IsFiniteSet(s) /\ Cardinality(s) <= B
      BY <1>1, FS_Subset
    <3>2. Cardinality(s) \in Nat
      BY <3>1, FS_CardinalityType
    <3>3. QED
      BY <2>1, <3>1, <3>2
  <2>3. QED
    BY <2>1, <2>2
<1>4. base \in [X -> Int]
  OBVIOUS
<1> HIDE DEF v
<1>5. step \in [X \X Int -> Int]
  <2>1. \A t \in X \X Int : t[1] \in X /\ t[2] \in Int
    <3> HIDE DEF X
    <3>1. QED
      OBVIOUS
  <2>2. \A s \in X, e \in Int : s # {} => v[one(s)] + e \in Int
    BY <1>1, <1>2
  <2> HIDE DEF X
  <2>3. QED
    BY <2>1, <2>2
<1>6. \A s \in X \ {{}} : next[s] \in X /\ m[next[s]] < m[s]
  <2> TAKE s \in X \ {{}}
  <2>1. next[s] = s \ {one(s)} /\ one(s) \in s /\ next[s] \in X
    BY <1>2
  <2>2. Cardinality(s \ {one(s)}) < Cardinality(s)
    BY <1>1, <2>1, OneLess
  <2>3. QED
    BY <2>1, <2>2
<1>7. PICK f \in [X -> Int] : Loop(f, X, {{}}, base, step, next)
  <2> HIDE DEF X, base, step, next, m, B
  <2>1. QED
    BY <1>3, <1>4, <1>5, <1>6, LoopExists
<1>8. f = [s \in X |-> IF s = {} THEN 0 ELSE v[one(s)] + f[s \ {one(s)}]]
  <2> SUFFICES ASSUME NEW s \in X
               PROVE  f[s] = IF s = {} THEN 0 ELSE v[one(s)] + f[s \ {one(s)}]
    OBVIOUS
  <2>1. CASE s = {}
    BY <1>7, <2>1 DEF Loop
  <2>2. CASE s # {}
    <3>1. next[s] = s \ {one(s)} /\ f[next[s]] \in Int
      BY <1>2, <2>2
    <3>2. f[s] = step[<<s, f[next[s]]>>]
      BY <1>7, <2>2 DEF Loop
    <3> HIDE DEF next, X
    <3>3. QED
      BY <2>2, <3>1, <3>2
  <2>3. QED
    BY <2>1, <2>2
<1>9. f = [s \in X |-> IF s = {} THEN 0 ELSE pts[ix[one(s)]][d] + f[s \ {one(s)}]]
  <2>1. \A s \in X : s # {} => v[one(s)] = pts[ix[one(s)]][d]
    BY <1>2 DEF v
  <2> HIDE DEF X
  <2>2. QED
    BY <1>8, <2>1
<1> DEFINE iter == CHOOSE iter :
             iter = [s \in X |-> IF s = {} THEN 0
                                 ELSE pts[ix[one(s)]][d] + iter[s \ {one(s)}]]
<1>10. Total(pts, ix, d, R) = iter[R]
  BY DEF MapThenSumSet, MapThenFoldSet, Total
<1>11. iter = [s \in X |-> IF s = {} THEN 0 ELSE pts[ix[one(s)]][d] + iter[s \ {one(s)}]]
  BY <1>9
<1> HIDE DEF iter
<1>12. \A s \in X : iter[s] = IF s = {} THEN 0 ELSE v[one(s)] + iter[s \ {one(s)}]
  <2>1. \A s \in X : s # {} => v[one(s)] = pts[ix[one(s)]][d]
    BY <1>2 DEF v
  <2> TAKE s \in X
  <2> HIDE DEF X, one
  <2>2. iter[s] = IF s = {} THEN 0 ELSE pts[ix[one(s)]][d] + iter[s \ {one(s)}]
    BY <1>11
  <2>3. QED
    BY <2>1, <2>2
<1>13. iter \in [X -> Int]
  <2> DEFINE Bad == {s \in X : iter[s] \notin Int}
  <2>1. Bad = {}
    <3> SUFFICES ASSUME Bad # {}
                 PROVE  FALSE
      OBVIOUS
    <3>1. PICK s \in Bad : \A t \in Bad : ~ (Cardinality(t) < Cardinality(s))
      BY <1>1, LeastCounterexample
    <3>2. s # {}
      BY <1>12
    <3>3. one(s) \in s /\ s \ {one(s)} \notin Bad
      BY <1>1, <1>2, <3>1, <3>2, OneLess
    <3>4. iter[s \ {one(s)}] \in Int /\ v[one(s)] \in Int
      BY <1>1, <3>3
    <3>5. iter[s] = v[one(s)] + iter[s \ {one(s)}]
      BY <1>12, <3>2
    <3>6. QED
      BY <3>4, <3>5
  <2>2. iter = [s \in X |-> iter[s]]
    <3> HIDE DEF X
    <3>1. QED
      BY <1>11
  <2>3. QED
    BY <2>1, <2>2
<1>14. \A s \in X : s # {} => \E y \in s : iter[s] = v[y] + iter[s \ {y}]
  BY <1>2, <1>12
<1>15. iter[{}] = 0
  BY <1>12
<1>16. Adds(iter, v, R)
  BY <1>1, <1>13, <1>14, <1>15, AnyElement
<1>17. QED
  BY <1>10, <1>16 DEF v

(* Two sums of the same values are the same.                               *)
LEMMA AddsAgree ==
  ASSUME NEW R, IsFiniteSet(R), NEW v \in [R -> Int], NEW F, Adds(F, v, R),
         NEW Q \in SUBSET R, NEW w, NEW G, Adds(G, w, Q),
         \A j \in Q : v[j] = w[j]
  PROVE  F[Q] = G[Q]
<1> DEFINE Bad == {s \in SUBSET Q : F[s] # G[s]}
<1>1. IsFiniteSet(Q)
  BY FS_Subset
<1>2. Bad = {}
  <2> SUFFICES ASSUME Bad # {}
               PROVE  FALSE
    OBVIOUS
  <2>1. PICK s \in Bad : \A t \in Bad : ~ (Cardinality(t) < Cardinality(s))
    <3>1. Bad \in SUBSET (SUBSET Q)
      OBVIOUS
    <3> HIDE DEF Bad
    <3>2. QED
      BY <1>1, <3>1, LeastCounterexample
  <2>2. s # {}
    BY DEF Adds
  <2>3. PICK x \in s : TRUE
    BY <2>2
  <2>4. s \ {x} \notin Bad /\ s \ {x} \in SUBSET Q
    BY <1>1, <2>1, OneLess
  <2>5. F[s] = v[x] + F[s \ {x}] /\ G[s] = w[x] + G[s \ {x}]
    <3>1. s \in SUBSET R /\ s \in SUBSET Q
      OBVIOUS
    <3>2. QED
      BY <3>1 DEF Adds
  <2>6. F[s \ {x}] = G[s \ {x}] /\ v[x] = w[x]
    BY <2>4
  <2>7. F[s] = G[s]
    BY <2>5, <2>6
  <2>8. QED
    BY <2>7
<1>3. QED
  BY <1>2

(* The sum over two disjoint sets is that of their sums.                   *)
LEMMA AddsUnion ==
  ASSUME NEW R, IsFiniteSet(R), NEW v \in [R -> Int], NEW F, Adds(F, v, R),
         NEW Q \in SUBSET R, NEW S \in SUBSET R, Q \cap S = {}
  PROVE  F[Q \cup S] = F[Q] + F[S]
<1> DEFINE Bad == {s \in SUBSET S : F[Q \cup s] # F[Q] + F[s]}
<1>1. IsFiniteSet(S)
  BY FS_Subset
<1>2. Bad = {}
  <2> SUFFICES ASSUME Bad # {}
               PROVE  FALSE
    OBVIOUS
  <2>1. PICK s \in Bad : \A t \in Bad : ~ (Cardinality(t) < Cardinality(s))
    <3>1. Bad \in SUBSET (SUBSET S)
      OBVIOUS
    <3> HIDE DEF Bad
    <3>2. QED
      BY <1>1, <3>1, LeastCounterexample
  <2>2. s # {}
    <3>1. F[Q] \in Int /\ F[{}] = 0
      BY DEF Adds
    <3>2. ASSUME s = {}
          PROVE  FALSE
      <4>1. Q \cup s = Q
        BY <3>2
      <4>2. F[Q \cup s] = F[Q] /\ F[s] = 0
        BY <3>1, <3>2, <4>1
      <4>3. QED
        BY <3>1, <4>2
    <3>3. QED
      BY <3>2
  <2>3. PICK x \in s : TRUE
    BY <2>2
  <2>4. s \ {x} \notin Bad /\ s \ {x} \in SUBSET S
    BY <1>1, <2>1, OneLess, ZenonT(30)
  <2>5. F[Q \cup s] = v[x] + F[(Q \cup s) \ {x}] /\ F[s] = v[x] + F[s \ {x}]
    <3>1. s \in SUBSET R /\ Q \cup s \in SUBSET R /\ x \in Q \cup s
      OBVIOUS
    <3>2. QED
      BY <3>1 DEF Adds
  <2>6. (Q \cup s) \ {x} = Q \cup (s \ {x})
    OBVIOUS
  <2>7. F[Q \cup (s \ {x})] = F[Q] + F[s \ {x}]
    BY <2>4
  <2>8. F[Q \cup s] = v[x] + F[Q \cup (s \ {x})]
    BY <2>5, <2>6, Zenon
  <2>9. F[Q] \in Int /\ F[s \ {x}] \in Int /\ v[x] \in Int
    <3>1. s \ {x} \in SUBSET R /\ x \in R
      OBVIOUS
    <3>2. QED
      BY <3>1 DEF Adds
  <2> DEFINE a == F[Q]
             b == F[s \ {x}]
             c == F[Q \cup s]
  <2>10. c = v[x] + (a + b) /\ F[s] = v[x] + b /\ a \in Int /\ b \in Int
    BY <2>5, <2>7, <2>8, <2>9
  <2>11. c # a + F[s]
    OBVIOUS
  <2> HIDE DEF a, b, c, Bad
  <2>12. QED
    BY <2>9, <2>10, <2>11
<1>3. QED
  BY <1>2

(* A sum of bounded numbers is bounded.                                    *)
LEMMA AddsBound ==
  ASSUME NEW R, IsFiniteSet(R), NEW v \in [R -> Int], NEW F, Adds(F, v, R),
         NEW c \in Nat, \A j \in R : -c <= v[j] /\ v[j] <= c - 1
  PROVE  /\ F[R] \in Int
         /\ -(c * Cardinality(R)) <= F[R] /\ F[R] <= c * Cardinality(R) - Cardinality(R)
<1> DEFINE Fits(s) == /\ -(c * Cardinality(s)) <= F[s]
                      /\ F[s] <= c * Cardinality(s) - Cardinality(s)
           Bad == {s \in SUBSET R : ~Fits(s)}
<1>1. Bad = {}
  <2> SUFFICES ASSUME Bad # {}
               PROVE  FALSE
    OBVIOUS
  <2>1. PICK s \in Bad : \A t \in Bad : ~ (Cardinality(t) < Cardinality(s))
    <3>1. Bad \in SUBSET (SUBSET R)
      OBVIOUS
    <3> HIDE DEF Bad
    <3>2. QED
      BY <3>1, LeastCounterexample
  <2>2. s # {}
    <3>1. ASSUME s = {}
          PROVE  FALSE
      <4>1. Cardinality(s) = 0 /\ F[s] = 0
        BY <3>1, FS_EmptySet DEF Adds
      <4>2. c * Cardinality(s) = 0
        BY <4>1
      <4>3. QED
        BY <4>1, <4>2
    <3>2. QED
      BY <3>1
  <2>3. PICK x \in s : TRUE
    BY <2>2
  <2>4. s \ {x} \notin Bad /\ s \ {x} \in SUBSET R
    BY <2>1, OneLess
  <2>5. F[s] = v[x] + F[s \ {x}] /\ F[s \ {x}] \in Int
    BY <2>4 DEF Adds
  <2>6. IsFiniteSet(s) /\ Cardinality(s) \in Nat
    BY FS_Subset, FS_CardinalityType
  <2>7. Cardinality(s \ {x}) = Cardinality(s) - 1
    BY <2>6, FS_RemoveElement
  <2> DEFINE a == F[s \ {x}]
             b == Cardinality(s)
  <2>8. /\ -(c * (b - 1)) <= a /\ a <= c * (b - 1) - (b - 1)
        /\ ~ (-(c * b) <= F[s] /\ F[s] <= c * b - b)
        /\ F[s] = v[x] + a /\ a \in Int /\ b \in Nat
    BY <2>4, <2>5, <2>6, <2>7
  <2>9. -c <= v[x] /\ v[x] <= c - 1 /\ v[x] \in Int
    OBVIOUS
  <2> HIDE DEF a, b, Bad
  <2>10. c * (b - 1) = c * b - c /\ c * b \in Int
    BY <2>8
  <2>11. QED
    BY <2>8, <2>9, <2>10
<1>2. F[R] \in Int
  BY DEF Adds
<1>3. QED
  BY <1>1, <1>2

(* There are N places.                                                     *)
LEMMA AllFinite ==
  /\ IsFiniteSet(All) /\ Cardinality(All) = N
  /\ \A R \in SUBSET All : IsFiniteSet(R) /\ Cardinality(R) \in Nat /\ Cardinality(R) <= N
<1>1. IsFiniteSet(All) /\ Cardinality(All) = N
  BY DataAssumption, FS_Interval DEF All
<1>2. QED
  BY <1>1, FS_Subset, FS_CardinalityType

(* The numbers that are summed.                                            *)
LEMMA CoordinateInt ==
  ASSUME NEW pts \in [All -> Point], NEW ix \in [All -> All], NEW d \in Dims, NEW j \in All
  PROVE  pts[ix[j]][d] \in Int /\ -COORD <= pts[ix[j]][d] /\ pts[ix[j]][d] <= COORD - 1
BY WidthAssumption DEF Point, Coord

(* The sum of one coordinate,                                              *)
LEMMA TotalOne ==
  ASSUME NEW pts \in [All -> Point], NEW ix \in [All -> All], NEW d \in Dims, NEW j \in All
  PROVE  Total(pts, ix, d, {j}) = pts[ix[j]][d]
<1>1. PICK F : /\ Adds(F, [a \in {j} |-> pts[ix[a]][d]], {j})
               /\ Total(pts, ix, d, {j}) = F[{j}]
  BY SumExists
<1>2. F[{j}] = pts[ix[j]][d] + F[{j} \ {j}] /\ F[{}] = 0
  BY <1>1 DEF Adds
<1>3. {j} \ {j} = {}
  OBVIOUS
<1>4. F[{j}] = pts[ix[j]][d] + 0
  BY <1>2, <1>3, Zenon
<1>5. QED
  BY <1>1, <1>4, CoordinateInt

(* the sum over two sets of places that have nothing in common,            *)
LEMMA TotalUnion ==
  ASSUME NEW pts \in [All -> Point], NEW ix \in [All -> All], NEW d \in Dims,
         NEW Q \in SUBSET All, NEW S \in SUBSET All, Q \cap S = {}
  PROVE  Total(pts, ix, d, Q \cup S) = Total(pts, ix, d, Q) + Total(pts, ix, d, S)
<1> DEFINE v(R) == [j \in R |-> pts[ix[j]][d]]
           R == Q \cup S
<1>1. \A X \in SUBSET All : v(X) \in [X -> Int] /\ IsFiniteSet(X)
  BY CoordinateInt, AllFinite
<1>2. PICK F : Adds(F, v(R), R) /\ Total(pts, ix, d, R) = F[R]
  BY SumExists
<1>3. PICK G : Adds(G, v(Q), Q) /\ Total(pts, ix, d, Q) = G[Q]
  BY SumExists
<1>4. PICK H : Adds(H, v(S), S) /\ Total(pts, ix, d, S) = H[S]
  BY SumExists
<1>5. R \in SUBSET All /\ Q \in SUBSET R /\ S \in SUBSET R
  OBVIOUS
<1>6. (\A j \in Q : v(R)[j] = v(Q)[j]) /\ (\A j \in S : v(R)[j] = v(S)[j])
  OBVIOUS
<1>7. v(R) \in [R -> Int] /\ IsFiniteSet(R)
  BY <1>1, <1>5, Zenon
<1> HIDE DEF v
<1>8. F[R] = F[Q] + F[S]
  <2> DEFINE w == v(R)
  <2>1. w \in [R -> Int] /\ Adds(F, w, R)
    BY <1>2, <1>7
  <2>2. R = Q \cup S
    OBVIOUS
  <2> HIDE DEF w, R
  <2>3. F[Q \cup S] = F[Q] + F[S]
    BY <1>5, <1>7, <2>1, AddsUnion
  <2>4. QED
    BY <2>2, <2>3
<1> HIDE DEF R
<1>9. F[Q] = G[Q]
  BY <1>2, <1>3, <1>5, <1>6, <1>7, AddsAgree
<1>10. F[S] = H[S]
  BY <1>2, <1>4, <1>5, <1>6, <1>7, AddsAgree
<1>11. QED
  BY <1>2, <1>3, <1>4, <1>8, <1>9, <1>10 DEF R

(* and the sum of the same points in another order of the other places.    *)
LEMMA TotalSame ==
  ASSUME NEW pts \in [All -> Point], NEW ix \in [All -> All], NEW iy \in [All -> All],
         NEW d \in Dims, NEW R \in SUBSET All, \A j \in R : ix[j] = iy[j]
  PROVE  Total(pts, ix, d, R) = Total(pts, iy, d, R)
<1> DEFINE v == [j \in R |-> pts[ix[j]][d]]
           w == [j \in R |-> pts[iy[j]][d]]
<1>1. PICK F : Adds(F, v, R) /\ Total(pts, ix, d, R) = F[R]
  BY SumExists
<1>2. PICK G : Adds(G, w, R) /\ Total(pts, iy, d, R) = G[R]
  BY SumExists
<1>3. v \in [R -> Int] /\ IsFiniteSet(R) /\ R \in SUBSET R
  BY CoordinateInt, AllFinite
<1>4. \A j \in R : v[j] = w[j]
  OBVIOUS
<1> HIDE DEF v, w
<1>5. QED
  BY <1>1, <1>2, <1>3, <1>4, AddsAgree

(* Then every sum is stored as it is.                                      *)
LEMMA TotalFits ==
  ASSUME NEW pts \in [All -> Point], NEW ix \in [All -> All], NEW d \in Dims,
         NEW R \in SUBSET All
  PROVE  /\ Total(pts, ix, d, R) \in Int
         /\ SumsFit => -EXT <= Total(pts, ix, d, R) /\ Total(pts, ix, d, R) < EXT
<1> DEFINE v == [j \in R |-> pts[ix[j]][d]]
           e == Cardinality(R)
<1>1. PICK F : Adds(F, v, R) /\ Total(pts, ix, d, R) = F[R]
  BY SumExists
<1>2. v \in [R -> Int] /\ IsFiniteSet(R) /\ e \in Nat /\ e <= N
  BY CoordinateInt, AllFinite
<1>3. \A j \in R : -COORD <= v[j] /\ v[j] <= COORD - 1
  BY CoordinateInt
<1>4. COORD \in Nat /\ COORD > 0 /\ N \in Nat /\ EXT \in Nat /\ EXT > 0
  <2>1. (4 * COORD * COORD) \div SCALE \in Int /\ (4 * COORD * COORD) \div SCALE >= 0
    BY QuotaFacts DEF Quota
  <2>2. QED
    BY <2>1, WidthAssumption, DataAssumption
<1> HIDE DEF v
<1>5. F[R] \in Int /\ -(COORD * e) <= F[R] /\ F[R] <= COORD * e - e
  BY <1>1, <1>2, <1>3, <1>4, AddsBound
<1>6. COORD * e <= COORD * N
  BY <1>2, <1>4
<1>7. QED
  <2> DEFINE x == COORD * e
             y == COORD * N
  <2>1. x \in Int /\ y \in Int /\ y = N * COORD /\ x <= y
    BY <1>2, <1>4, <1>6
  <2>2. e = 0 => x = 0
    BY <1>4
  <2>3. -x <= F[R] /\ F[R] <= x - e
    BY <1>5
  <2> HIDE DEF x, y, e
  <2>4. QED
    BY <1>1, <1>2, <1>4, <1>5, <2>1, <2>2, <2>3 DEF SumsFit

------------------------------------------------------------------------------
(* The tree in the heap, of t nodes at addresses 1 .. t.                   *)

(* A node, the heap, and the end of a node's places. End is exclusive.     *)
TreeNode == [idx : Nat, count : Nat, lo : Point, hi : Point, mid : Point,
             wgtCent : [Dims -> Int], sum_sq : Int, left : Nat, right : Nat]
Heaps == [{NoNode} \cup Addresses -> TreeNode]
End(n) == n.idx + n.count

(* A cell inside another; places with nothing in common.                   *)
InsideBox(c, n) == \A d \in Dims : n.lo[d] <= c.lo[d] /\ c.hi[d] <= n.hi[d]
Apart(m, n) == End(m) <= n.idx \/ End(n) <= m.idx

(* A tree's shape. Children come after their parent, in its cell, and      *)
(* share its places out; every node but the root is a child; the nodes'    *)
(* places are the root's, every one in a leaf, and a leaf's are apart from *)
(* all nodes' but those above it.                                          *)
Child(h, t, n, c) == c \in 1 .. t /\ InsideBox(h[c], n)
Linked(h, t) ==
  \A a \in 1 .. t :
    /\ h[a] \in TreeNode /\ h[a].count > 0
    /\ ~Leaf(h[a]) =>
         /\ a < h[a].left /\ Child(h, t, h[a], h[a].left)
         /\ a < h[a].right /\ Child(h, t, h[a], h[a].right)
         /\ h[a].left # h[a].right
         /\ SharedOut(h[a], h[h[a].left], h[h[a].right])
Rooted(h, t) == \A a \in 2 .. t : \E b \in 1 .. a - 1 : a \in {h[b].left, h[b].right}
Within(h, t) == \A a \in 1 .. t : h[1].idx <= h[a].idx /\ End(h[a]) <= End(h[1])
Covered(h, t) == \A j \in Places(h[1]) : \E a \in 1 .. t : Leaf(h[a]) /\ j \in Places(h[a])
Laminar(h, t) ==
  \A a, b \in 1 .. t : Leaf(h[b]) /\ a # b =>
     \/ Apart(h[a], h[b])
     \/ ~Leaf(h[a]) /\ h[a].idx <= h[b].idx /\ End(h[b]) <= End(h[a])
Shape(h, t) ==
  t \in Addresses /\ Linked(h, t) /\ Rooted(h, t) /\ Within(h, t) /\ Covered(h, t) /\ Laminar(h, t)

(* The points of a node lie in its cell.                                   *)
Boxes(pts, ix, h, t) ==
  \A a \in 1 .. t : PointsIn(pts, ix, h[a].idx, End(h[a]), h[a].lo, h[a].hi)

(* g is h with leaf b given two children, as buildkdTree does.             *)
Grows(h, g, t, b, s) ==
  /\ \A a \in 1 .. t : a # b => g[a] = h[a]
  /\ \A a \in {b, t + 1, t + 2} : g[a] \in TreeNode
  /\ g[b].idx = h[b].idx /\ g[b].count = h[b].count /\ g[b].lo = h[b].lo /\ g[b].hi = h[b].hi
  /\ g[b].left = t + 1 /\ g[b].right = t + 2
  /\ Leaf(g[t + 1]) /\ Leaf(g[t + 2])
  /\ g[t + 1].idx = h[b].idx /\ g[t + 1].count = s.n_lo
  /\ g[t + 1].lo = h[b].lo /\ g[t + 1].hi = LowerCell(h[b].hi, s)
  /\ g[t + 2].idx = h[b].idx + s.n_lo /\ g[t + 2].count = h[b].count - s.n_lo
  /\ g[t + 2].lo = UpperCell(h[b].lo, s) /\ g[t + 2].hi = h[b].hi

(* A cell keeps its points when its own places, or places that are not its *)
(* own, are rearranged.                                                    *)
LEMMA PointsInKept ==
  ASSUME NEW x, NEW y, NEW pts, NEW from \in Nat, NEW to \in Nat, NEW lo, NEW hi,
         to <= N,
         PointsIn(pts, x, from, to, lo, hi),
         NEW f \in Nat, NEW e \in Nat, Rearranges(x, y, f .. e - 1),
         (from <= f /\ e <= to) \/ to <= f \/ e <= from
  PROVE  PointsIn(pts, y, from, to, lo, hi)
<1> SUFFICES ASSUME NEW j \in from .. to - 1, NEW d \in Dims
             PROVE  lo[d] <= pts[y[j]][d] /\ pts[y[j]][d] <= hi[d]
  BY DEF PointsIn
<1>1. j \in All
  BY DataAssumption DEF All
<1>2. CASE j \in f .. e - 1
  <2>1. PICK a \in f .. e - 1 : y[j] = x[a]
    BY <1>2 DEF Rearranges
  <2>2. a \in from .. to - 1
    BY <1>2
  <2>3. QED
    BY <2>1, <2>2 DEF PointsIn
<1>3. CASE j \notin f .. e - 1
  <2>1. y[j] = x[j]
    BY <1>1, <1>3 DEF Rearranges
  <2>2. QED
    BY <2>1 DEF PointsIn
<1>4. QED
  BY <1>2, <1>3

(* The fields of a node.                                                   *)
LEMMA NodeRange ==
  ASSUME NEW n \in TreeNode
  PROVE  /\ n.idx \in Nat /\ n.count \in Nat /\ End(n) \in Nat
         /\ n.left \in Nat /\ n.right \in Nat
         /\ n.lo \in Point /\ n.hi \in Point /\ n.mid \in Point
         /\ \A j : j \in Places(n) <=> j \in Int /\ n.idx <= j /\ j < End(n)
BY DEF TreeNode, End, Places

(* A tree that grows keeps its shape,                                      *)
LEMMA GrowsShape ==
  ASSUME NEW h, NEW t \in Nat, Shape(h, t), t + 2 \in Addresses,
         NEW b \in 1 .. t, Leaf(h[b]), NEW s, NEW g, Grows(h, g, t, b, s),
         s.n_lo \in 1 .. h[b].count - 1,
         s.cdim \in Dims, s.cval \in Coord,
         h[b].lo[s.cdim] <= s.cval, s.cval <= h[b].hi[s.cdim]
  PROVE  Shape(g, t + 2)
<1> DEFINE l == t + 1
           r == t + 2
<1>1. /\ h[b] \in TreeNode
      /\ \A a \in 1 .. t : a # b => g[a] = h[a]
      /\ g[b] \in TreeNode /\ g[l] \in TreeNode /\ g[r] \in TreeNode
      /\ g[b].idx = h[b].idx /\ g[b].count = h[b].count /\ End(g[b]) = End(h[b])
      /\ g[b].lo = h[b].lo /\ g[b].hi = h[b].hi
      /\ g[b].left = l /\ g[b].right = r
      /\ Leaf(g[l]) /\ Leaf(g[r]) /\ ~Leaf(g[b])
      /\ g[l].idx = h[b].idx /\ g[l].count = s.n_lo /\ End(g[l]) = h[b].idx + s.n_lo
      /\ g[r].idx = h[b].idx + s.n_lo /\ g[r].count = h[b].count - s.n_lo
      /\ End(g[r]) = End(h[b])
  <2>1. h[b] \in TreeNode
    BY DEF Shape, Linked
  <2>2. h[b].idx \in Nat /\ h[b].count \in Nat /\ s.n_lo \in Int
    BY <2>1, NodeRange
  <2>3. g[b].left # 0
    BY DEF Grows
  <2>4. QED
    BY <2>1, <2>2, <2>3 DEF Grows, End, Leaf, NoNode
<1>2. h[b].idx \in Nat /\ h[b].count \in Nat /\ End(h[b]) = h[b].idx + h[b].count
      /\ s.n_lo \in Nat /\ s.n_lo >= 1 /\ s.n_lo < h[b].count
  BY <1>1, NodeRange DEF End
<1>3. l \in Nat /\ r \in Nat /\ 1 .. r = (1 .. t) \cup {l, r} /\ l # r /\ b # l /\ b # r
      /\ l \notin 1 .. t /\ r \notin 1 .. t
  OBVIOUS
<1>4. InsideBox(g[l], g[b]) /\ InsideBox(g[r], g[b])
  <2>1. h[b].lo \in Point /\ h[b].hi \in Point /\ COORD \in Nat
    BY <1>1, NodeRange, WidthAssumption
  <2>2. \A d \in Dims : h[b].lo[d] \in Int /\ h[b].hi[d] \in Int
    BY <2>1 DEF Point, Coord
  <2>3. \A d \in Dims : LowerCell(h[b].hi, s)[d] = IF d = s.cdim THEN s.cval ELSE h[b].hi[d]
    BY <2>1 DEF LowerCell, Point
  <2>4. \A d \in Dims : UpperCell(h[b].lo, s)[d] = IF d = s.cdim THEN s.cval ELSE h[b].lo[d]
    BY <2>1 DEF UpperCell, Point
  <2>5. /\ g[l].lo = h[b].lo /\ g[l].hi = LowerCell(h[b].hi, s)
        /\ g[r].lo = UpperCell(h[b].lo, s) /\ g[r].hi = h[b].hi
    BY DEF Grows
  <2>6. QED
    BY <1>1, <2>2, <2>3, <2>4, <2>5 DEF InsideBox
<1>5. \A a \in 1 .. t : /\ g[a].idx = h[a].idx /\ g[a].count = h[a].count /\ End(g[a]) = End(h[a])
                        /\ g[a].lo = h[a].lo /\ g[a].hi = h[a].hi /\ Places(g[a]) = Places(h[a])
                        /\ (Leaf(g[a]) <=> Leaf(h[a]) /\ a # b)
  <2> TAKE a \in 1 .. t
  <2>1. CASE a = b
    BY <1>1, <2>1 DEF Places
  <2>2. CASE a # b
    BY <1>1, <2>2 DEF Places
  <2>3. QED
    BY <2>1, <2>2
<1>6. Linked(g, r)
  <2> SUFFICES ASSUME NEW a \in 1 .. r
               PROVE  /\ g[a] \in TreeNode /\ g[a].count > 0
                      /\ ~Leaf(g[a]) =>
                           /\ a < g[a].left /\ Child(g, r, g[a], g[a].left)
                           /\ a < g[a].right /\ Child(g, r, g[a], g[a].right)
                           /\ g[a].left # g[a].right
                           /\ SharedOut(g[a], g[g[a].left], g[g[a].right])
    BY DEF Linked
  <2>1. CASE a \in {l, r}
    BY <1>1, <1>2, <2>1
  <2>2. CASE a = b
    <3>1. SharedOut(g[b], g[l], g[r])
      BY <1>1, <1>2 DEF SharedOut
    <3>2. QED
      BY <1>1, <1>2, <1>3, <1>4, <2>2, <3>1 DEF Child
  <2>3. CASE a \in 1 .. t /\ a # b
    <3>1. /\ h[a] \in TreeNode /\ h[a].count > 0
          /\ ~Leaf(h[a]) =>
                           /\ a < h[a].left /\ Child(h, t, h[a], h[a].left)
                           /\ a < h[a].right /\ Child(h, t, h[a], h[a].right)
                           /\ h[a].left # h[a].right
                           /\ SharedOut(h[a], h[h[a].left], h[h[a].right])
      BY <2>3 DEF Shape, Linked
    <3>2. \A c \in 1 .. t : /\ g[c].idx = h[c].idx /\ g[c].count = h[c].count
                            /\ g[c].lo = h[c].lo /\ g[c].hi = h[c].hi
      BY <1>5
    <3>3. g[a] = h[a]
      BY <1>1, <2>3
    <3>4. ASSUME NEW c, Child(h, t, h[a], c)
          PROVE  Child(g, r, h[a], c)
      BY <1>3, <3>2, <3>4 DEF Child, InsideBox
    <3>5. ASSUME ~Leaf(h[a])
          PROVE  SharedOut(h[a], g[h[a].left], g[h[a].right])
      <4>1. h[a].left \in 1 .. t /\ h[a].right \in 1 .. t
        BY <3>1, <3>5 DEF Child
      <4>2. QED
        BY <3>1, <3>2, <3>5, <4>1 DEF SharedOut
    <3>6. QED
      BY <3>1, <3>3, <3>4, <3>5
  <2>4. QED
    BY <1>3, <2>1, <2>2, <2>3
<1>7. Rooted(g, r)
  <2> SUFFICES ASSUME NEW a \in 2 .. r
               PROVE  \E c \in 1 .. a - 1 : a \in {g[c].left, g[c].right}
    BY DEF Rooted
  <2>1. CASE a \in {l, r}
    BY <1>1, <2>1
  <2>2. CASE a \in 2 .. t
    <3>1. PICK c \in 1 .. a - 1 : a \in {h[c].left, h[c].right}
      BY <2>2 DEF Shape, Rooted
    <3>2. c # b
      <4>1. h[b].left = 0 /\ h[b].right = 0 /\ a # 0
        BY <2>2 DEF Leaf, NoNode
      <4>2. QED
        BY <3>1, <4>1
    <3>3. QED
      BY <1>1, <2>2, <3>1, <3>2
  <2>3. QED
    BY <1>3, <2>1, <2>2
<1>8. 1 \in 1 .. t
  OBVIOUS
<1>9. g[1].idx = h[1].idx /\ End(g[1]) = End(h[1]) /\ Places(g[1]) = Places(h[1])
      /\ h[1].idx \in Nat /\ End(h[1]) \in Nat
  <2>1. h[1] \in TreeNode
    BY <1>8 DEF Shape, Linked
  <2>2. QED
    BY <1>5, <1>8, <2>1, NodeRange
<1>10. Within(g, r)
  <2> SUFFICES ASSUME NEW a \in 1 .. r
               PROVE  g[1].idx <= g[a].idx /\ End(g[a]) <= End(g[1])
    BY DEF Within
  <2>1. h[1].idx <= h[b].idx /\ End(h[b]) <= End(h[1])
    BY DEF Shape, Within
  <2>2. CASE a \in 1 .. t
    BY <1>5, <1>9, <2>2 DEF Shape, Within
  <2>3. CASE a = l
    BY <1>1, <1>2, <1>9, <2>1, <2>3
  <2>4. CASE a = r
    BY <1>1, <1>2, <1>9, <2>1, <2>4
  <2>5. QED
    BY <1>3, <2>2, <2>3, <2>4
<1>11. Covered(g, r)
  <2> SUFFICES ASSUME NEW j \in Places(h[1])
               PROVE  \E a \in 1 .. r : Leaf(g[a]) /\ j \in Places(g[a])
    BY <1>9 DEF Covered
  <2>1. PICK a \in 1 .. t : Leaf(h[a]) /\ j \in Places(h[a])
    BY DEF Shape, Covered
  <2>2. CASE a # b
    BY <1>3, <1>5, <2>1, <2>2
  <2>3. CASE a = b
    <3>1. j \in Int /\ h[b].idx <= j /\ j < End(h[b])
      BY <1>1, <2>1, <2>3, NodeRange
    <3>2. j \in Places(g[l]) \/ j \in Places(g[r])
      BY <1>1, <1>2, <3>1, NodeRange
    <3>3. QED
      BY <1>1, <1>3, <3>2
  <2>4. QED
    BY <2>2, <2>3
<1>12. Laminar(g, r)
  <2> SUFFICES ASSUME NEW a \in 1 .. r, NEW c \in 1 .. r, Leaf(g[c]), a # c
               PROVE  \/ Apart(g[a], g[c])
                      \/ ~Leaf(g[a]) /\ g[a].idx <= g[c].idx /\ End(g[c]) <= End(g[a])
    BY DEF Laminar
  <2>1. \A e \in 1 .. t : /\ h[e].idx \in Nat /\ End(h[e]) \in Nat
    <3> TAKE e \in 1 .. t
    <3>1. h[e] \in TreeNode
      BY DEF Shape, Linked
    <3>2. QED
      BY <3>1, NodeRange
  <2>2. CASE a \in 1 .. t /\ c \in 1 .. t
    <3>1. Leaf(h[c]) /\ c # b
      BY <1>5, <2>2
    <3>2. \/ Apart(h[a], h[c])
          \/ ~Leaf(h[a]) /\ h[a].idx <= h[c].idx /\ End(h[c]) <= End(h[a])
      BY <2>2, <3>1 DEF Shape, Laminar
    <3>3. QED
      BY <1>5, <2>2, <3>2 DEF Apart
  <2>3. CASE a \in 1 .. t /\ a # b /\ c \in {l, r}
    <3>1. \/ Apart(h[a], h[b])
          \/ ~Leaf(h[a]) /\ h[a].idx <= h[b].idx /\ End(h[b]) <= End(h[a])
      BY <2>3 DEF Shape, Laminar
    <3>2. QED
      BY <1>1, <1>2, <1>5, <2>1, <2>3, <3>1 DEF Apart
  <2>4. CASE a = b /\ c \in {l, r}
    BY <1>1, <1>2, <2>4
  <2>5. CASE a \in {l, r} /\ c \in 1 .. t
    <3>1. Leaf(h[c]) /\ c # b
      BY <1>5, <2>5
    <3>2. Apart(h[b], h[c])
      BY <2>5, <3>1 DEF Shape, Laminar
    <3>3. QED
      BY <1>1, <1>2, <1>5, <2>1, <2>5, <3>2 DEF Apart
  <2>6. CASE a \in {l, r} /\ c \in {l, r}
    BY <1>1, <1>2, <2>6 DEF Apart
  <2>7. QED
    BY <1>3, <2>2, <2>3, <2>4, <2>5, <2>6
<1>13. QED
  BY <1>6, <1>7, <1>10, <1>11, <1>12 DEF Shape

(* and its cells their points: the split moves points within the places of *)
(* the leaf that grows.                                                    *)
LEMMA GrowsBoxes ==
  ASSUME NEW h, NEW t \in Nat, Shape(h, t), End(h[1]) <= N,
         NEW pts, NEW x, Boxes(pts, x, h, t),
         NEW b \in 1 .. t, Leaf(h[b]), NEW s, NEW g, Grows(h, g, t, b, s),
         s.n_lo \in 1 .. h[b].count - 1,
         Splits(x, pts, h[b].idx, h[b].count, h[b].lo, h[b].hi, s)
  PROVE  Boxes(pts, s.idx, g, t + 2)
<1> SUFFICES ASSUME NEW a \in 1 .. t + 2
             PROVE  PointsIn(pts, s.idx, g[a].idx, End(g[a]), g[a].lo, g[a].hi)
  BY DEF Boxes
<1>1. h[b] \in TreeNode
  BY DEF Shape, Linked
<1>2. h[b].idx \in Nat /\ h[b].count \in Nat /\ End(h[b]) = h[b].idx + h[b].count
      /\ s.n_lo \in Nat /\ s.n_lo < h[b].count
  BY <1>1, NodeRange DEF End
<1>3. CASE a = t + 1
  <2>1. g[a].idx = h[b].idx /\ End(g[a]) = h[b].idx + s.n_lo
        /\ g[a].lo = h[b].lo /\ g[a].hi = LowerCell(h[b].hi, s)
    BY <1>3 DEF Grows, End
  <2>2. QED
    BY <2>1 DEF Splits
<1>4. CASE a = t + 2
  <2>1. g[a].idx = h[b].idx + s.n_lo /\ g[a].count = h[b].count - s.n_lo
        /\ g[a].lo = UpperCell(h[b].lo, s) /\ g[a].hi = h[b].hi
    BY <1>4 DEF Grows
  <2>2. End(g[a]) = h[b].idx + h[b].count
    BY <1>2, <2>1 DEF End
  <2>3. QED
    BY <2>1, <2>2 DEF Splits
<1>5. CASE a \in 1 .. t
  <2>1. g[a].idx = h[a].idx /\ End(g[a]) = End(h[a]) /\ g[a].lo = h[a].lo /\ g[a].hi = h[a].hi
    BY <1>5 DEF Grows, End
  <2>2. h[a].idx \in Nat /\ End(h[a]) \in Nat /\ End(h[a]) <= N
    <3>1. h[a] \in TreeNode /\ h[1] \in TreeNode /\ End(h[a]) <= End(h[1])
      BY <1>5 DEF Shape, Linked, Within
    <3>2. End(h[a]) \in Nat /\ End(h[1]) \in Nat /\ h[a].idx \in Nat
      BY <3>1, NodeRange
    <3>3. QED
      BY <3>1, <3>2, DataAssumption
  <2>3. (h[a].idx <= h[b].idx /\ End(h[b]) <= End(h[a])) \/ End(h[a]) <= h[b].idx \/ End(h[b]) <= h[a].idx
    <3>1. CASE a = b
      BY <1>2, <3>1
    <3>2. CASE a # b
      BY <1>5, <3>2 DEF Shape, Laminar, Apart
    <3>3. QED
      BY <3>1, <3>2
  <2>4. PointsIn(pts, x, h[a].idx, End(h[a]), h[a].lo, h[a].hi)
    BY <1>5 DEF Boxes
  <2>5. Rearranges(x, s.idx, h[b].idx .. End(h[b]) - 1)
    <3>1. h[b].idx + h[b].count - 1 = End(h[b]) - 1
      BY <1>2
    <3>2. QED
      BY <3>1 DEF Splits
  <2>6. End(h[b]) \in Nat
    BY <1>2
  <2>7. PointsIn(pts, s.idx, h[a].idx, End(h[a]), h[a].lo, h[a].hi)
    BY <1>2, <2>2, <2>3, <2>4, <2>5, <2>6, PointsInKept
  <2>8. QED
    BY <2>1, <2>7
<1>6. QED
  BY <1>3, <1>4, <1>5

------------------------------------------------------------------------------
(* Sums of the nodes, and trees that agree.                                *)

(* wgtCent is the sum of the node's points. An inner node's may have       *)
(* wrapped unless all sums fit; a leaf's cannot.                           *)
SumOK(pts, ix, n) ==
  SumsFit \/ Leaf(n) => \A d \in Dims : n.wgtCent[d] = Total(pts, ix, d, Places(n))

(* A tree that is finished: its leaves have one point.                     *)
Grown(h, t) == \A a \in 1 .. t : Leaf(h[a]) => h[a].count = 1

(* What a part's tree is when it is read out.                              *)
Good(pts, ix, h, t) ==
  /\ Shape(h, t) /\ Boxes(pts, ix, h, t) /\ Grown(h, t)
  /\ \A a \in 1 .. t : SumOK(pts, ix, h[a])

(* A node with other sums.                                                 *)
SameCell(m, n) ==
  /\ n \in TreeNode
  /\ n.idx = m.idx /\ n.count = m.count /\ n.lo = m.lo /\ n.hi = m.hi
  /\ n.left = m.left /\ n.right = m.right

(* Sums play no part in the shape.                                         *)
LEMMA SameCells ==
  ASSUME NEW h, NEW t \in Nat, NEW g, \A a \in 1 .. t : SameCell(h[a], g[a]), Shape(h, t)
  PROVE  /\ Shape(g, t)
         /\ \A pts, ix : Boxes(pts, ix, h, t) => Boxes(pts, ix, g, t)
         /\ Grown(h, t) => Grown(g, t)
<1>1. \A a \in 1 .. t : /\ g[a] \in TreeNode
                        /\ g[a].idx = h[a].idx /\ g[a].count = h[a].count /\ End(g[a]) = End(h[a])
                        /\ g[a].lo = h[a].lo /\ g[a].hi = h[a].hi
                        /\ g[a].left = h[a].left /\ g[a].right = h[a].right
                        /\ Places(g[a]) = Places(h[a]) /\ (Leaf(g[a]) <=> Leaf(h[a]))
  BY DEF SameCell, Places, End, Leaf
<1>2. 1 \in 1 .. t
  BY DEF Shape, Addresses
<1>3. Linked(g, t)
  <2> SUFFICES ASSUME NEW a \in 1 .. t
               PROVE  /\ g[a] \in TreeNode /\ g[a].count > 0
                      /\ ~Leaf(g[a]) =>
                           /\ a < g[a].left /\ Child(g, t, g[a], g[a].left)
                           /\ a < g[a].right /\ Child(g, t, g[a], g[a].right)
                           /\ g[a].left # g[a].right
                           /\ SharedOut(g[a], g[g[a].left], g[g[a].right])
    BY DEF Linked
  <2>1. /\ h[a] \in TreeNode /\ h[a].count > 0
        /\ ~Leaf(h[a]) =>
                           /\ a < h[a].left /\ Child(h, t, h[a], h[a].left)
                           /\ a < h[a].right /\ Child(h, t, h[a], h[a].right)
                           /\ h[a].left # h[a].right
                           /\ SharedOut(h[a], h[h[a].left], h[h[a].right])
    BY DEF Shape, Linked
  <2>2. ASSUME NEW c, Child(h, t, h[a], c)
        PROVE  Child(g, t, g[a], c)
    BY <1>1, <2>2 DEF Child, InsideBox
  <2>3. ASSUME ~Leaf(g[a])
        PROVE  SharedOut(g[a], g[g[a].left], g[g[a].right])
    <3>1. h[a].left \in 1 .. t /\ h[a].right \in 1 .. t
      BY <1>1, <2>1, <2>3 DEF Child
    <3>2. QED
      BY <1>1, <2>1, <2>3, <3>1 DEF SharedOut
  <2>4. QED
    BY <1>1, <2>1, <2>2, <2>3
<1>4. Rooted(g, t)
  <2> SUFFICES ASSUME NEW a \in 2 .. t
               PROVE  \E c \in 1 .. a - 1 : a \in {g[c].left, g[c].right}
    BY DEF Rooted
  <2>1. PICK c \in 1 .. a - 1 : a \in {h[c].left, h[c].right}
    BY DEF Shape, Rooted
  <2>2. c \in 1 .. t
    OBVIOUS
  <2>3. QED
    BY <1>1, <2>1, <2>2
<1>5. Within(g, t)
  BY <1>1, <1>2 DEF Shape, Within
<1>6. Covered(g, t)
  BY <1>1, <1>2 DEF Shape, Covered
<1>7. Laminar(g, t)
  BY <1>1 DEF Shape, Laminar, Apart
<1>8. Shape(g, t)
  BY <1>3, <1>4, <1>5, <1>6, <1>7 DEF Shape
<1>9. ASSUME NEW pts, NEW ix, Boxes(pts, ix, h, t)
      PROVE  Boxes(pts, ix, g, t)
  BY <1>1, <1>9 DEF Boxes
<1>10. ASSUME Grown(h, t)
       PROVE  Grown(g, t)
  BY <1>1, <1>10 DEF Grown
<1>11. QED
  BY <1>8, <1>9, <1>10

(* A tree is as good as an equal one,                                      *)
LEMMA GoodSame ==
  ASSUME NEW h, NEW t \in Nat, NEW g, \A a \in 1 .. t : g[a] = h[a],
         NEW pts, NEW ix, Good(pts, ix, h, t)
  PROVE  Good(pts, ix, g, t)
<1>1. Shape(h, t)
  BY DEF Good
<1>2. \A a \in 1 .. t : SameCell(h[a], g[a])
  BY <1>1 DEF Shape, Linked, SameCell
<1>3. Shape(g, t) /\ Boxes(pts, ix, g, t) /\ Grown(g, t)
  BY <1>1, <1>2, SameCells DEF Good
<1>4. \A a \in 1 .. t : SumOK(pts, ix, g[a])
  BY DEF Good
<1>5. QED
  BY <1>3, <1>4 DEF Good

(* A node of a tree, and its children.                                     *)
LEMMA NodeOf ==
  ASSUME NEW h, NEW t \in Nat, Shape(h, t), NEW a \in 1 .. t
  PROVE  /\ h[a] \in TreeNode /\ h[a].count > 0 /\ h[a].idx \in Nat /\ h[a].count \in Nat
         /\ End(h[a]) = h[a].idx + h[a].count /\ End(h[a]) \in Nat
         /\ h[1].idx <= h[a].idx /\ End(h[a]) <= End(h[1])
         /\ h[1].idx \in Nat /\ End(h[1]) \in Nat
         /\ Places(h[a]) \subseteq Places(h[1])
         /\ Leaf(h[a]) \/ (h[a].left \in a + 1 .. t /\ h[a].right \in a + 1 .. t /\ h[a].left # h[a].right)
<1>1. h[a] \in TreeNode /\ h[a].count > 0 /\ h[1].idx <= h[a].idx /\ End(h[a]) <= End(h[1])
  BY DEF Shape, Linked, Within
<1>2. h[1] \in TreeNode
  BY DEF Shape, Linked, Addresses
<1>3. Leaf(h[a]) \/ (h[a].left \in a + 1 .. t /\ h[a].right \in a + 1 .. t /\ h[a].left # h[a].right)
  <2>1. CASE ~Leaf(h[a])
    <3>1. a < h[a].left /\ h[a].left \in 1 .. t /\ a < h[a].right /\ h[a].right \in 1 .. t
          /\ h[a].left # h[a].right
      BY <2>1 DEF Shape, Linked, Child
    <3>2. QED
      BY <3>1
  <2>2. QED
    BY <2>1
<1>4. h[a].idx \in Nat /\ End(h[a]) \in Nat /\ h[a].count \in Nat /\ h[1].idx \in Nat /\ End(h[1]) \in Nat
  BY <1>1, <1>2, NodeRange
<1>5. \A j \in Places(h[a]) : j \in Places(h[1])
  BY <1>1, <1>2, <1>4, NodeRange
<1>6. QED
  BY <1>1, <1>3, <1>4, <1>5 DEF End

(* A node's places are places.                                             *)
LEMMA PlacesAreAll ==
  ASSUME NEW n \in TreeNode, End(n) <= N
  PROVE  Places(n) \in SUBSET All
BY NodeRange, DataAssumption DEF All

(* A tree stays good when the points of other places are moved.            *)
LEMMA GoodKept ==
  ASSUME NEW h, NEW t \in Nat, NEW pts \in [All -> Point], NEW x \in [All -> All],
         NEW y \in [All -> All], Good(pts, x, h, t), End(h[1]) <= N,
         \A j \in Places(h[1]) : y[j] = x[j]
  PROVE  Good(pts, y, h, t)
<1>1. Shape(h, t)
  BY DEF Good
<1>2. \A a \in 1 .. t : Places(h[a]) \in SUBSET All /\ \A j \in Places(h[a]) : y[j] = x[j]
  <2> TAKE a \in 1 .. t
  <2>1. h[a] \in TreeNode /\ End(h[a]) <= N /\ Places(h[a]) \subseteq Places(h[1])
    <3>1. /\ h[a] \in TreeNode /\ Places(h[a]) \subseteq Places(h[1])
          /\ End(h[a]) \in Nat /\ End(h[1]) \in Nat /\ End(h[a]) <= End(h[1])
      BY <1>1, NodeOf
    <3>2. QED
      BY <3>1, DataAssumption
  <2>2. QED
    BY <2>1, PlacesAreAll
<1>3. Boxes(pts, y, h, t)
  <2> SUFFICES ASSUME NEW a \in 1 .. t, NEW j \in h[a].idx .. End(h[a]) - 1, NEW d \in Dims
               PROVE  h[a].lo[d] <= pts[y[j]][d] /\ pts[y[j]][d] <= h[a].hi[d]
    BY DEF Boxes, PointsIn
  <2>1. PointsIn(pts, x, h[a].idx, End(h[a]), h[a].lo, h[a].hi)
    BY DEF Good, Boxes
  <2>2. j \in Places(h[a])
    BY <1>1, NodeOf, NodeRange
  <2>3. y[j] = x[j]
    BY <1>2, <2>2
  <2>4. QED
    BY <2>1, <2>3 DEF PointsIn
<1>4. ASSUME NEW a \in 1 .. t
      PROVE  SumOK(pts, y, h[a])
  <2>1. \A d \in Dims : Total(pts, x, d, Places(h[a])) = Total(pts, y, d, Places(h[a]))
    <3> TAKE d \in Dims
    <3>1. \A j \in Places(h[a]) : x[j] = y[j]
      BY <1>2
    <3>2. QED
      BY <1>2, <3>1, TotalSame
  <2>2. SumOK(pts, x, h[a])
    BY DEF Good
  <2>3. QED
    BY <2>1, <2>2 DEF SumOK
<1>5. QED
  BY <1>1, <1>3, <1>4 DEF Good

(* What update_sums computes for a node, from its point or from the sums   *)
(* of its children, is its sum.                                            *)
LEMMA SumsOfNode ==
  ASSUME NEW h, NEW t \in Nat, Shape(h, t), Grown(h, t), End(h[1]) <= N,
         NEW pts \in [All -> Point], NEW x \in [All -> All],
         NEW a \in 1 .. t, NEW w, NEW n, n.idx = h[a].idx, n.count = h[a].count,
         n.left = h[a].left, n.right = h[a].right, n.wgtCent = w,
         IF Leaf(h[a]) THEN w = pts[x[h[a].idx]]
         ELSE /\ SumOK(pts, x, h[h[a].left]) /\ SumOK(pts, x, h[h[a].right])
              /\ w = [d \in Dims |-> Ext(h[h[a].left].wgtCent[d] + h[h[a].right].wgtCent[d])]
  PROVE  SumOK(pts, x, n)
<1> DEFINE m == h[a]
<1>1. m \in TreeNode /\ m.idx \in Nat /\ End(m) \in Nat /\ End(m) <= N /\ Places(m) \in SUBSET All
      /\ m.count \in Nat /\ End(m) = m.idx + m.count
  <2>1. m \in TreeNode /\ m.idx \in Nat /\ End(m) \in Nat /\ End(m) <= N
        /\ m.count \in Nat /\ End(m) = m.idx + m.count
    BY NodeOf, DataAssumption
  <2>2. QED
    BY <2>1, PlacesAreAll
<1>2. Places(n) = Places(m) /\ (Leaf(n) <=> Leaf(m))
  BY DEF Places, Leaf
<1>3. CASE Leaf(m)
  <2>1. m.count = 1
    BY <1>3 DEF Grown
  <2>2. Places(m) = {m.idx} /\ m.idx \in All
    BY <1>1, <2>1 DEF Places
  <2>3. \A d \in Dims : Total(pts, x, d, Places(m)) = pts[x[m.idx]][d]
    BY <2>2, TotalOne
  <2>4. QED
    BY <1>2, <1>3, <2>3 DEF SumOK
<1>4. CASE ~Leaf(m)
  <2> DEFINE l == h[m.left]
             r == h[m.right]
  <2>1. m.left \in 1 .. t /\ m.right \in 1 .. t /\ SharedOut(m, l, r)
    BY <1>4 DEF Shape, Linked, Child
  <2>2. /\ l \in TreeNode /\ l.idx \in Nat /\ End(l) \in Nat /\ End(l) <= N
        /\ r \in TreeNode /\ r.idx \in Nat /\ End(r) \in Nat /\ End(r) <= N
        /\ l.count \in Nat /\ End(l) = l.idx + l.count /\ r.count \in Nat /\ End(r) = r.idx + r.count
    BY <2>1, NodeOf, DataAssumption
  <2>3. Places(l) \in SUBSET All /\ Places(r) \in SUBSET All
    BY <2>2, PlacesAreAll
  <2>4. Places(m) = Places(l) \cup Places(r) /\ Places(l) \cap Places(r) = {}
    <3>1. m.idx = l.idx /\ End(l) = r.idx /\ End(r) = End(m)
      BY <1>1, <2>1, <2>2 DEF SharedOut
    <3> HIDE DEF m, l, r
    <3>2. \A j : j \in Places(m) <=> j \in Places(l) \/ j \in Places(r)
      BY <1>1, <2>2, <3>1, NodeRange
    <3>3. \A j : ~ (j \in Places(l) /\ j \in Places(r))
      BY <1>1, <2>2, <3>1, NodeRange
    <3>4. QED
      BY <3>2, <3>3
  <2>5. ASSUME SumsFit, NEW d \in Dims
        PROVE  w[d] = Total(pts, x, d, Places(m))
    <3>1. l.wgtCent[d] = Total(pts, x, d, Places(l)) /\ r.wgtCent[d] = Total(pts, x, d, Places(r))
      BY <1>4, <2>5 DEF SumOK
    <3> HIDE DEF m, l, r
    <3>2. Total(pts, x, d, Places(m)) = Total(pts, x, d, Places(l)) + Total(pts, x, d, Places(r))
      BY <2>3, <2>4, TotalUnion
    <3>3. Total(pts, x, d, Places(m)) \in Int /\ -EXT <= Total(pts, x, d, Places(m))
          /\ Total(pts, x, d, Places(m)) < EXT
      BY <1>1, <2>5, TotalFits
    <3>4. Ext(Total(pts, x, d, Places(m))) = Total(pts, x, d, Places(m))
      BY <3>3, ExtKeeps
    <3>5. w[d] = Ext(l.wgtCent[d] + r.wgtCent[d])
      BY <1>4 DEF m, l, r
    <3>6. QED
      BY <3>1, <3>2, <3>4, <3>5
  <2>6. QED
    BY <1>2, <1>4, <2>5 DEF SumOK
<1>5. QED
  BY <1>3, <1>4

------------------------------------------------------------------------------
(* The two stacks. The calls still to make, like the nodes on the stack of *)
(* a pre-order traversal, are a row: from the last one to the first their  *)
(* places follow each other without a gap, up to the end of the first.     *)

(* A sequence without its last element.                                    *)
LEMMA FrontIs ==
  ASSUME NEW S, NEW st \in Seq(S), st # <<>>
  PROVE  /\ Len(st) \in Nat \ {0}
         /\ Front(st) \in Seq(S) /\ Len(Front(st)) = Len(st) - 1
         /\ \A j \in 1 .. Len(st) - 1 : Front(st)[j] = st[j]
         /\ Last(st) = st[Len(st)] /\ Last(st) \in S
         /\ \A j \in 1 .. Len(st) : st[j] \in S
<1>1. Len(st) \in Nat \ {0} /\ \A j \in 1 .. Len(st) : st[j] \in S
  OBVIOUS
<1> DEFINE m == Len(st) - 1
<1>2. m \in Nat /\ 1 \in Int /\ (m - 1) + 1 = m /\ \A j \in 1 .. m : (1 + j) - 1 = j
  BY <1>1
<1>3. /\ SubSeq(st, 1, m) \in Seq(S)
      /\ Len(SubSeq(st, 1, m)) = IF 1 <= m THEN m - 1 + 1 ELSE 0
      /\ \A j \in 1 .. m - 1 + 1 : SubSeq(st, 1, m)[j] = st[1 + j - 1]
  BY <1>1, <1>2, SubSeqProperties
<1>4. Front(st) = SubSeq(st, 1, m) /\ Last(st) = st[Len(st)]
  BY DEF Front, Last
<1> HIDE DEF m
<1>5. Len(SubSeq(st, 1, m)) = m /\ \A j \in 1 .. m : SubSeq(st, 1, m)[j] = st[j]
  BY <1>2, <1>3
<1>6. QED
  BY <1>1, <1>3, <1>4, <1>5 DEF m

(* s is st with its last element replaced by a and b.                      *)
Replaces(S, st, a, b, s) ==
  /\ s \in Seq(S) /\ Len(s) = Len(st) + 1
  /\ \A j \in 1 .. Len(st) - 1 : s[j] = st[j]
  /\ s[Len(st)] = a /\ s[Len(st) + 1] = b

(* What split, buildkdTree and the traversals do to their stacks.          *)
LEMMA Replaced ==
  ASSUME NEW S, NEW st \in Seq(S), st # <<>>, NEW a \in S, NEW b \in S
  PROVE  Replaces(S, st, a, b, Front(st) \o <<a, b>>)
<1> DEFINE q == Front(st)
<1>1. /\ q \in Seq(S) /\ Len(q) = Len(st) - 1 /\ Len(st) \in Nat \ {0}
      /\ \A j \in 1 .. Len(st) - 1 : q[j] = st[j]
  BY FrontIs
<1> HIDE DEF q
<1>2. /\ q \o <<a, b>> \in Seq(S) /\ Len(q) \in Nat /\ Len(q \o <<a, b>>) = Len(q) + 2
      /\ \A j \in 1 .. Len(q) : (q \o <<a, b>>)[j] = q[j]
      /\ (q \o <<a, b>>)[Len(q) + 1] = a /\ (q \o <<a, b>>)[Len(q) + 2] = b
  <2>1. q \in Seq(S)
    BY <1>1
  <2>2. QED
    BY <2>1
<1> DEFINE s == q \o <<a, b>>
<1>3. /\ s \in Seq(S) /\ Len(q) \in Nat /\ Len(s) = Len(q) + 2
      /\ \A j \in 1 .. Len(q) : s[j] = q[j]
      /\ s[Len(q) + 1] = a /\ s[Len(q) + 2] = b
  BY <1>2
<1> HIDE DEF s
<1>4. /\ s \in Seq(S) /\ Len(st) \in Nat \ {0} /\ Len(s) = Len(st) + 1
      /\ \A j \in 1 .. Len(st) - 1 : s[j] = st[j]
      /\ s[Len(st)] = a /\ s[Len(st) + 1] = b
  BY <1>1, <1>3
<1>5. Replaces(S, st, a, b, s)
  BY <1>4 DEF Replaces
<1>6. QED
  BY <1>5 DEF s, q

(* Places f[j] .. g[j] - 1 are a row up to e. As none is empty, place j is *)
(* at most e - j + 1: the stack is never deeper than there are places.     *)
Row(f, g, m, e) ==
  /\ \A j \in 1 .. m : f[j] \in Nat /\ g[j] \in Nat /\ f[j] < g[j] /\ g[j] + j - 1 <= e
  /\ m > 0 => g[1] = e
  /\ \A j \in 1 .. m - 1 : f[j] = g[j + 1]
  /\ \A a, b \in 1 .. m : a < b => g[b] <= f[a]

(* A shorter row,                                                          *)
LEMMA RowSame ==
  ASSUME NEW f, NEW g, NEW m \in Nat, NEW e, Row(f, g, m, e), NEW n \in 0 .. m, NEW F, NEW G,
         \A j \in 1 .. n : F[j] = f[j] /\ G[j] = g[j]
  PROVE  Row(F, G, n, e)
<1>1. \A j \in 1 .. n : j \in 1 .. m
  OBVIOUS
<1>2. \A j \in 1 .. n - 1 : j \in 1 .. m - 1 /\ j + 1 \in 1 .. n /\ j \in 1 .. n
  OBVIOUS
<1>3. n > 0 => m > 0 /\ 1 \in 1 .. n
  OBVIOUS
<1>4. \A j \in 1 .. n : F[j] \in Nat /\ G[j] \in Nat /\ F[j] < G[j] /\ G[j] + j - 1 <= e
  BY <1>1 DEF Row
<1>5. \A j \in 1 .. n - 1 : F[j] = G[j + 1]
  BY <1>2 DEF Row
<1>6. \A a, b \in 1 .. n : a < b => G[b] <= F[a]
  BY <1>1 DEF Row
<1>7. n > 0 => G[1] = e
  BY <1>3 DEF Row
<1>8. QED
  BY <1>4, <1>5, <1>6, <1>7 DEF Row

(* where its last element ends: where the one before it begins,            *)
RowEnds(f, g, m, e) == (m = 1 => g[m] = e) /\ (m # 1 => g[m] = f[m - 1])
LEMMA RowEnd ==
  ASSUME NEW f, NEW g, NEW m \in Nat \ {0}, NEW e \in Int, Row(f, g, m, e)
  PROVE  RowEnds(f, g, m, e)
<1>1. CASE m = 1
  BY <1>1 DEF Row, RowEnds
<1>2. CASE m # 1
  <2>1. m - 1 \in 1 .. m - 1 /\ (m - 1) + 1 = m
    BY <1>2
  <2>2. QED
    BY <1>2, <2>1 DEF Row, RowEnds
<1>3. QED
  BY <1>1, <1>2

(* how long it can be,                                                     *)
LEMMA RowBelow ==
  ASSUME NEW f, NEW g, NEW m \in Nat \ {0}, NEW e \in Int, Row(f, g, m, e)
  PROVE  /\ f[m] \in Nat /\ g[m] \in Nat /\ f[m] < g[m] /\ g[m] <= e
         /\ m <= e - f[m]
         /\ \A j \in 1 .. m - 1 : f[j] # f[m]
<1>1. f[m] \in Nat /\ g[m] \in Nat /\ f[m] < g[m] /\ g[m] + m - 1 <= e
  BY DEF Row
<1>3. \A j \in 1 .. m - 1 : f[j] # f[m]
  <2> TAKE j \in 1 .. m - 1
  <2>1. j \in 1 .. m /\ m \in 1 .. m /\ j < m
    OBVIOUS
  <2>2. g[m] <= f[j] /\ f[j] \in Nat
    BY <2>1 DEF Row
  <2>3. QED
    BY <1>1, <2>2
<1>4. QED
  BY <1>1, <1>3

(* and a row whose last element is split.                                  *)
LEMMA RowSplit ==
  ASSUME NEW f, NEW g, NEW m \in Nat \ {0}, NEW e \in Int, Row(f, g, m, e),
         NEW x \in Int, f[m] < x, x < g[m],
         NEW F, NEW G, \A j \in 1 .. m - 1 : F[j] = f[j] /\ G[j] = g[j],
         F[m] = x, G[m] = g[m], F[m + 1] = f[m], G[m + 1] = x
  PROVE  Row(F, G, m + 1, e)
<1>1. f[m] \in Nat /\ g[m] \in Nat /\ f[m] < g[m] /\ g[m] + m - 1 <= e
  BY DEF Row
<1>2. \A j \in 1 .. m + 1 : F[j] \in Nat /\ G[j] \in Nat /\ F[j] < G[j] /\ G[j] + j - 1 <= e
  <2> TAKE j \in 1 .. m + 1
  <2>1. CASE j \in 1 .. m - 1
    BY <2>1 DEF Row
  <2>2. CASE j = m
    BY <1>1, <2>2
  <2>3. CASE j = m + 1
    BY <1>1, <2>3
  <2>4. QED
    BY <2>1, <2>2, <2>3
<1>3. G[1] = e
  <2>1. g[1] = e
    BY DEF Row
  <2>2. CASE m = 1
    BY <2>1, <2>2
  <2>3. CASE m # 1
    BY <2>1, <2>3
  <2>4. QED
    BY <2>2, <2>3
<1>4. \A j \in 1 .. (m + 1) - 1 : F[j] = G[j + 1]
  <2> TAKE j \in 1 .. (m + 1) - 1
  <2>1. CASE j = m
    BY <2>1
  <2>2. CASE j < m - 1
    <3>1. j \in 1 .. m - 1 /\ j + 1 \in 1 .. m - 1
      BY <2>2
    <3>2. QED
      BY <3>1 DEF Row
  <2>3. CASE j = m - 1
    <3>1. j \in 1 .. m - 1 /\ j + 1 = m
      BY <2>3
    <3>2. f[j] = g[j + 1]
      BY <3>1 DEF Row
    <3>3. QED
      BY <3>1, <3>2
  <2>4. QED
    BY <2>1, <2>2, <2>3
<1>5. \A a, b \in 1 .. m + 1 : a < b => G[b] <= F[a]
  <2> SUFFICES ASSUME NEW a \in 1 .. m + 1, NEW b \in 1 .. m + 1, a < b
               PROVE  G[b] <= F[a]
    OBVIOUS
  <2>1. CASE b \in 1 .. m - 1
    <3>1. a \in 1 .. m - 1
      BY <2>1
    <3>2. QED
      BY <2>1, <3>1 DEF Row
  <2>2. CASE b = m
    <3>1. a \in 1 .. m - 1
      BY <2>2
    <3>2. QED
      BY <2>2, <3>1 DEF Row
  <2>3. CASE b = m + 1
    <3>1. CASE a = m
      BY <2>3, <3>1
    <3>2. CASE a \in 1 .. m - 1
      <4>1. g[m] <= f[a] /\ f[a] \in Nat
        BY <3>2 DEF Row
      <4>2. QED
        BY <1>1, <2>3, <3>2, <4>1
    <3>3. QED
      BY <2>3, <3>1, <3>2
  <2>4. QED
    BY <2>1, <2>2, <2>3
<1>6. QED
  BY <1>2, <1>3, <1>4, <1>5 DEF Row

(* The calls of recursive_split: a row up to N. They still give P - part   *)
(* parts: at[j] counts those of calls 1 .. j - 1 from the end.             *)
CallType == [p : {1, 2, 4}, index : Nat, n : Nat, lo : Point, hi : Point]
CallStart(cs) == [j \in DOMAIN cs |-> cs[j].index]
CallEnd(cs) == [j \in DOMAIN cs |-> cs[j].index + cs[j].n]
Frontier(cs) == IF cs = <<>> THEN N ELSE cs[Len(cs)].index
CallsOK(pts, ix, cs, w) ==
  /\ cs \in Seq(CallType)
  /\ \A j \in 1 .. Len(cs) :
       /\ cs[j].p <= P
       /\ PointsIn(pts, ix, cs[j].index, cs[j].index + cs[j].n, cs[j].lo, cs[j].hi)
  /\ Row(CallStart(cs), CallEnd(cs), Len(cs), N)
  /\ \E at \in [1 .. Len(cs) + 1 -> 0 .. P] :
       /\ at[1] = P /\ at[Len(cs) + 1] = w
       /\ \A j \in 1 .. Len(cs) : at[j] = at[j + 1] + P \div cs[j].p

(* A call with p gives P \div p parts, shared out by its two calls.        *)
LEMMA PartsOfCall ==
  /\ \A p \in {1, 2, 4} :
       /\ p <= P => P \div p \in Nat \ {0}
       /\ p < P => /\ 2 * p \in {1, 2, 4} /\ 2 * p <= P
                   /\ P \div (2 * p) \in Nat \ {0}
                   /\ P \div p = P \div (2 * p) + P \div (2 * p)
  /\ P \div P = 1
<1>1. 1 \div 1 = 1 /\ 2 \div 1 = 2 /\ 2 \div 2 = 1 /\ 4 \div 1 = 4 /\ 4 \div 2 = 2 /\ 4 \div 4 = 1
  OBVIOUS
<1>2. CASE P = 1
  BY <1>1, <1>2
<1>3. CASE P = 2
  BY <1>1, <1>3
<1>4. CASE P = 4
  BY <1>1, <1>4
<1>5. QED
  BY <1>2, <1>3, <1>4, DataAssumption

(* The call that is made next.                                             *)
LEMMA CallFacts ==
  ASSUME NEW pts, NEW ix, NEW cs, NEW w, CallsOK(pts, ix, cs, w), cs # <<>>
  PROVE  /\ Len(cs) \in Nat \ {0} /\ cs[Len(cs)] \in CallType
         /\ cs[Len(cs)].p \in {1, 2, 4} /\ cs[Len(cs)].p <= P
         /\ cs[Len(cs)].index \in Nat /\ cs[Len(cs)].n \in Nat \ {0}
         /\ cs[Len(cs)].lo \in Point /\ cs[Len(cs)].hi \in Point
         /\ cs[Len(cs)].index + cs[Len(cs)].n <= N
         /\ PointsIn(pts, ix, cs[Len(cs)].index, cs[Len(cs)].index + cs[Len(cs)].n,
                     cs[Len(cs)].lo, cs[Len(cs)].hi)
         /\ Frontier(cs) = cs[Len(cs)].index
<1>1. cs \in Seq(CallType) /\ Len(cs) \in Nat \ {0} /\ cs[Len(cs)] \in CallType /\ Len(cs) \in DOMAIN cs
      /\ Len(cs) \in 1 .. Len(cs)
  BY DEF CallsOK
<1>2. cs[Len(cs)].p \in {1, 2, 4} /\ cs[Len(cs)].index \in Nat /\ cs[Len(cs)].n \in Nat
      /\ cs[Len(cs)].lo \in Point /\ cs[Len(cs)].hi \in Point
  BY <1>1 DEF CallType
<1>3. CallStart(cs)[Len(cs)] = cs[Len(cs)].index
      /\ CallEnd(cs)[Len(cs)] = cs[Len(cs)].index + cs[Len(cs)].n
  BY <1>1 DEF CallStart, CallEnd
<1>4. CallStart(cs)[Len(cs)] < CallEnd(cs)[Len(cs)] /\ CallEnd(cs)[Len(cs)] <= N
  <2>1. Row(CallStart(cs), CallEnd(cs), Len(cs), N) /\ N \in Int
    BY DataAssumption DEF CallsOK
  <2>2. QED
    BY <1>1, <2>1, RowBelow
<1>5. cs[Len(cs)].n > 0 /\ cs[Len(cs)].index + cs[Len(cs)].n <= N
  BY <1>2, <1>3, <1>4
<1>6. cs[Len(cs)].p <= P
      /\ PointsIn(pts, ix, cs[Len(cs)].index, cs[Len(cs)].index + cs[Len(cs)].n,
                     cs[Len(cs)].lo, cs[Len(cs)].hi)
  BY <1>1 DEF CallsOK
<1>7. QED
  BY <1>1, <1>2, <1>5, <1>6 DEF Frontier

(* Where its places begin.                                                 *)
LEMMA FrontierRange ==
  ASSUME NEW pts, NEW ix, NEW cs, NEW w, CallsOK(pts, ix, cs, w)
  PROVE  Frontier(cs) \in 0 .. N
<1>1. CASE cs = <<>>
  BY <1>1, DataAssumption DEF Frontier
<1>2. CASE cs # <<>>
  <2>1. cs[Len(cs)].index \in Nat /\ cs[Len(cs)].n \in Nat /\ cs[Len(cs)].index + cs[Len(cs)].n <= N
        /\ Frontier(cs) = cs[Len(cs)].index
    BY <1>2, CallFacts
  <2>2. QED
    BY <2>1, DataAssumption
<1>3. QED
  BY <1>1, <1>2

(* Calls stay as they are when places before theirs are rearranged.        *)
LEMMA CallsKept ==
  ASSUME NEW pts, NEW x \in [All -> All], NEW y, NEW cs, NEW w, CallsOK(pts, x, cs, w),
         NEW f \in Nat, NEW e \in Nat, e <= Frontier(cs), Rearranges(x, y, f .. e - 1)
  PROVE  CallsOK(pts, y, cs, w)
<1> SUFFICES ASSUME NEW j \in 1 .. Len(cs)
             PROVE  PointsIn(pts, y, cs[j].index, cs[j].index + cs[j].n, cs[j].lo, cs[j].hi)
  BY DEF CallsOK
<1>1. cs \in Seq(CallType) /\ Len(cs) \in Nat \ {0} /\ cs # <<>> /\ Len(cs) \in 1 .. Len(cs)
      /\ Row(CallStart(cs), CallEnd(cs), Len(cs), N)
  BY DEF CallsOK
<1>2. \A a \in 1 .. Len(cs) : /\ cs[a].index \in Nat /\ cs[a].n \in Nat
                              /\ CallStart(cs)[a] = cs[a].index
                              /\ CallEnd(cs)[a] = cs[a].index + cs[a].n
  <2> TAKE a \in 1 .. Len(cs)
  <2>1. cs[a] \in CallType /\ a \in DOMAIN cs
    BY <1>1
  <2>2. QED
    BY <2>1 DEF CallType, CallStart, CallEnd
<1>3. e <= cs[j].index
  <2>1. e <= cs[Len(cs)].index
    BY <1>1 DEF Frontier
  <2>2. CASE j = Len(cs)
    BY <2>1, <2>2
  <2>3. CASE j < Len(cs)
    <3>1. CallEnd(cs)[Len(cs)] <= CallStart(cs)[j]
      BY <1>1, <2>3 DEF Row
    <3>2. QED
      BY <1>1, <1>2, <2>1, <3>1
  <2>4. QED
    BY <1>1, <2>2, <2>3
<1>4. cs[j].index + cs[j].n <= N
  <2>1. CallEnd(cs)[j] + j - 1 <= N
    BY <1>1 DEF Row
  <2>2. QED
    BY <1>1, <1>2, <2>1, DataAssumption
<1>5. PointsIn(pts, x, cs[j].index, cs[j].index + cs[j].n, cs[j].lo, cs[j].hi)
  BY DEF CallsOK
<1>6. cs[j].index + cs[j].n \in Nat /\ cs[j].index \in Nat
  BY <1>2
<1>7. QED
  BY <1>3, <1>4, <1>5, <1>6, PointsInKept

------------------------------------------------------------------------------
(* The nodes on a stack.                                                   *)

(* The nodes of a stack as a row; Begin is the first place of the nodes    *)
(* still to visit.                                                         *)
NodeStart(h, st) == [j \in DOMAIN st |-> h[st[j]].idx]
NodeEnd(h, st) == [j \in DOMAIN st |-> End(h[st[j]])]
StackRow(h, st) == Row(NodeStart(h, st), NodeEnd(h, st), Len(st), End(h[1]))
Begin(h, st) == IF st = <<>> THEN End(h[1]) ELSE h[st[Len(st)]].idx

(* The children of the node on top take its place.                         *)
LEMMA StackReplaced ==
  ASSUME NEW t \in Nat, NEW t2 \in Nat, t <= t2, NEW st \in Seq(1 .. t), st # <<>>,
         NEW l \in 1 .. t2, NEW r \in 1 .. t2
  PROVE  Replaces(1 .. t2, st, r, l, Front(st) \o <<r, l>>)
<1>1. st \in Seq(1 .. t2)
  <2>1. 1 .. t \subseteq 1 .. t2
    OBVIOUS
  <2>2. QED
    BY <2>1
<1> DEFINE S == 1 .. t2
<1>2. st \in Seq(S) /\ r \in S /\ l \in S
  BY <1>1
<1> HIDE DEF S
<1>3. Replaces(S, st, r, l, Front(st) \o <<r, l>>)
  BY <1>2, Replaced
<1>4. QED
  BY <1>3 DEF S

(* The node on top.                                                        *)
LEMMA StackTop ==
  ASSUME NEW h, NEW t \in Nat, Shape(h, t), NEW st \in Seq(1 .. t), st # <<>>,
         StackRow(h, st)
  PROVE  LET v == st[Len(st)]
         IN  /\ v \in 1 .. t /\ Len(st) \in Nat \ {0}
             /\ Begin(h, st) = h[v].idx
             /\ h[v].idx \in Nat /\ End(h[v]) \in Nat /\ h[v].idx < End(h[v])
             /\ End(h[v]) + Len(st) - 1 <= End(h[1])
             /\ \A j \in 1 .. Len(st) - 1 : st[j] \in 1 .. t /\ st[j] # v
<1> DEFINE m == Len(st)
           v == st[Len(st)]
           f == NodeStart(h, st)
           g == NodeEnd(h, st)
<1>1. m \in Nat \ {0} /\ \A j \in 1 .. m : j \in DOMAIN st /\ st[j] \in 1 .. t
  OBVIOUS
<1>2. m \in 1 .. m /\ \A j \in 1 .. m - 1 : j \in 1 .. m
  BY <1>1
<1>3. \A j \in 1 .. m : f[j] = h[st[j]].idx /\ g[j] = End(h[st[j]])
  BY <1>1 DEF NodeStart, NodeEnd
<1>4. Row(f, g, m, End(h[1]))
  BY DEF StackRow
<1>5. v \in 1 .. t
  BY <1>1, <1>2
<1>6. h[v].idx \in Nat /\ End(h[v]) \in Nat /\ End(h[1]) \in Nat
  BY <1>5, NodeOf
<1> HIDE DEF f, g
<1>7. f[m] \in Nat /\ g[m] \in Nat /\ f[m] < g[m] /\ g[m] + m - 1 <= End(h[1])
  BY <1>2, <1>4 DEF Row
<1>8. \A j \in 1 .. m - 1 : f[j] # f[m]
  <2> DEFINE e == End(h[1])
  <2>1. m \in Nat \ {0} /\ e \in Int /\ Row(f, g, m, e)
    BY <1>1, <1>4, <1>6
  <2> HIDE DEF m, e
  <2>2. QED
    BY <2>1, RowBelow
<1>9. \A j \in 1 .. m - 1 : st[j] # v
  BY <1>2, <1>3, <1>8
<1>10. f[m] = h[v].idx /\ g[m] = End(h[v])
  BY <1>2, <1>3
<1>11. Begin(h, st) = h[v].idx
  BY DEF Begin
<1>12. QED
  BY <1>1, <1>2, <1>5, <1>6, <1>7, <1>9, <1>10, <1>11

(* The stack without it.                                                   *)
LEMMA StackPopped ==
  ASSUME NEW h, NEW t \in Nat, Shape(h, t), NEW st \in Seq(1 .. t), st # <<>>,
         StackRow(h, st), NEW g, \A a \in 1 .. t : g[a].idx = h[a].idx /\ End(g[a]) = End(h[a])
  PROVE  /\ Front(st) \in Seq(1 .. t) /\ Len(Front(st)) = Len(st) - 1
         /\ StackRow(g, Front(st))
         /\ Begin(g, Front(st)) = End(h[st[Len(st)]])
         /\ \A j \in 1 .. Len(st) - 1 : Front(st)[j] = st[j]
<1> DEFINE m == Len(st)
           s == Front(st)
           f == NodeStart(h, st)
           e == NodeEnd(h, st)
           F == NodeStart(g, s)
           G == NodeEnd(g, s)
<1>1. /\ m \in Nat \ {0} /\ s \in Seq(1 .. t) /\ Len(s) = m - 1
      /\ \A j \in 1 .. m - 1 : s[j] = st[j]
      /\ \A j \in 1 .. m : st[j] \in 1 .. t
  BY FrontIs
<1>2. m \in 1 .. m /\ m - 1 \in 0 .. m /\ m - 1 \in Nat
      /\ \A j \in 1 .. m - 1 : j \in 1 .. m
  BY <1>1
<1>3. \A j \in 1 .. m : f[j] = h[st[j]].idx /\ e[j] = End(h[st[j]])
  BY <1>1 DEF NodeStart, NodeEnd
<1>4. \A j \in 1 .. m - 1 : F[j] = g[s[j]].idx /\ G[j] = End(g[s[j]])
  <2>1. DOMAIN s = 1 .. m - 1
    BY <1>1
  <2> HIDE DEF s
  <2>2. QED
    BY <2>1 DEF NodeStart, NodeEnd
<1>5. Row(f, e, m, End(h[1]))
  BY DEF StackRow
<1>6. End(h[1]) \in Nat /\ 1 \in 1 .. t /\ End(g[1]) = End(h[1])
  <2>1. st[m] \in 1 .. t
    BY <1>1, <1>2
  <2>2. 1 \in 1 .. t
    BY <2>1
  <2>3. QED
    BY <2>2, NodeOf
<1> HIDE DEF s, f, e, F, G
<1>7. \A j \in 1 .. m - 1 : F[j] = f[j] /\ G[j] = e[j]
  <2> TAKE j \in 1 .. m - 1
  <2>1. j \in 1 .. m /\ s[j] = st[j] /\ st[j] \in 1 .. t
    BY <1>1, <1>2
  <2>2. f[j] = h[st[j]].idx /\ e[j] = End(h[st[j]]) /\ F[j] = g[s[j]].idx /\ G[j] = End(g[s[j]])
    BY <1>3, <1>4, <2>1
  <2>3. g[st[j]].idx = h[st[j]].idx /\ End(g[st[j]]) = End(h[st[j]])
    BY <2>1
  <2>4. QED
    BY <2>1, <2>2, <2>3
<1>8. Row(F, G, m - 1, End(h[1]))
  <2> DEFINE n == m - 1
             k1 == End(h[1])
  <2>1. n \in 0 .. m /\ \A j \in 1 .. n : F[j] = f[j] /\ G[j] = e[j]
    BY <1>2, <1>7
  <2>2. m \in Nat /\ Row(f, e, m, k1)
    BY <1>1, <1>5
  <2> HIDE DEF n, k1, m
  <2>3. Row(F, G, n, k1)
    BY <2>1, <2>2, RowSame
  <2>4. QED
    BY <2>3 DEF n, k1
<1>9. StackRow(g, s)
  BY <1>1, <1>6, <1>8 DEF StackRow, F, G
<1>10. e[m] = IF m = 1 THEN End(h[1]) ELSE f[m - 1]
  <2> DEFINE k1 == End(h[1])
  <2>1. m \in Nat \ {0} /\ k1 \in Int /\ Row(f, e, m, k1)
    BY <1>1, <1>5, <1>6
  <2> HIDE DEF m, k1
  <2>2. RowEnds(f, e, m, k1)
    BY <2>1, RowEnd
  <2>3. QED
    BY <2>2 DEF k1, RowEnds
<1>11. Begin(g, s) = End(h[st[m]])
  <2>1. CASE m = 1
    <3>1. s = <<>>
      BY <1>1, <2>1
    <3>2. QED
      BY <1>2, <1>3, <1>6, <1>10, <2>1, <3>1 DEF Begin
  <2>2. CASE m # 1
    <3>1. s # <<>> /\ Len(s) = m - 1 /\ m - 1 \in 1 .. m - 1
      BY <1>1, <2>2
    <3>2. Begin(g, s) = g[s[m - 1]].idx
      BY <3>1 DEF Begin
    <3>3. g[s[m - 1]].idx = F[m - 1]
      BY <1>4, <3>1
    <3>4. F[m - 1] = f[m - 1]
      BY <1>7, <3>1
    <3>5. f[m - 1] = End(h[st[m]])
      BY <1>2, <1>3, <1>10, <2>2
    <3>6. QED
      BY <3>2, <3>3, <3>4, <3>5
  <2>3. QED
    BY <2>1, <2>2
<1>12. QED
  BY <1>1, <1>9, <1>11 DEF s

(* The stack s is st with its last node replaced by r and l.               *)
Opened(h, st, g, t2, r, l, s) ==
  /\ s \in Seq(1 .. t2) /\ Len(s) = Len(st) + 1
  /\ StackRow(g, s)
  /\ Begin(g, s) = Begin(h, st)
  /\ \A j \in 1 .. Len(st) - 1 : s[j] = st[j]
  /\ s[Len(st)] = r /\ s[Len(st) + 1] = l

(* A node's children follow on its stack like the node did.                *)
LEMMA StackSplit ==
  ASSUME NEW h, NEW t \in Nat, Shape(h, t), NEW st \in Seq(1 .. t), st # <<>>,
         StackRow(h, st), NEW g, NEW t2 \in Nat, t <= t2,
         \A a \in 1 .. t : g[a].idx = h[a].idx /\ End(g[a]) = End(h[a]),
         NEW l \in 1 .. t2, NEW r \in 1 .. t2,
         g[l].idx = h[st[Len(st)]].idx, End(g[l]) = g[r].idx,
         End(g[r]) = End(h[st[Len(st)]]),
         g[r].idx \in Int, h[st[Len(st)]].idx < g[r].idx, g[r].idx < End(h[st[Len(st)]])
  PROVE  Opened(h, st, g, t2, r, l, Front(st) \o <<r, l>>)
<1> DEFINE m == Len(st)
           s == Front(st) \o <<r, l>>
           f == NodeStart(h, st)
           e == NodeEnd(h, st)
           F == NodeStart(g, s)
           G == NodeEnd(g, s)
           x == g[r].idx
<1>1. m \in Nat \ {0} /\ \A j \in 1 .. m : st[j] \in 1 .. t
  OBVIOUS
<1>2. /\ s \in Seq(1 .. t2) /\ Len(s) = m + 1
      /\ \A j \in 1 .. m - 1 : s[j] = st[j]
      /\ s[m] = r /\ s[m + 1] = l
  <2>1. Replaces(1 .. t2, st, r, l, s)
    BY StackReplaced
  <2> HIDE DEF s
  <2>2. QED
    BY <2>1 DEF Replaces
<1>3. m \in 1 .. m /\ \A j \in 1 .. m - 1 : j \in 1 .. m
  BY <1>1
<1>4. \A j \in 1 .. m : f[j] = h[st[j]].idx /\ e[j] = End(h[st[j]])
  BY <1>1 DEF NodeStart, NodeEnd
<1>5. \A j \in 1 .. m + 1 : F[j] = g[s[j]].idx /\ G[j] = End(g[s[j]])
  <2>1. DOMAIN s = 1 .. m + 1
    BY <1>2
  <2> HIDE DEF s
  <2>2. QED
    BY <2>1 DEF NodeStart, NodeEnd
<1>6. Row(f, e, m, End(h[1]))
  BY DEF StackRow
<1>7. End(h[1]) \in Nat /\ 1 \in 1 .. t /\ End(g[1]) = End(h[1])
  <2>1. st[m] \in 1 .. t
    BY <1>1, <1>3
  <2>2. 1 \in 1 .. t
    BY <2>1
  <2>3. QED
    BY <2>2, NodeOf
<1> HIDE DEF s, f, e, F, G
<1>8. \A j \in 1 .. m - 1 : F[j] = f[j] /\ G[j] = e[j]
  <2> TAKE j \in 1 .. m - 1
  <2>0. j \in 1 .. m + 1 /\ j \in 1 .. m
    BY <1>1
  <2>1. j \in 1 .. m + 1 /\ j \in 1 .. m /\ st[j] \in 1 .. t /\ s[j] = st[j]
    BY <1>1, <1>2, <2>0
  <2>2. f[j] = h[st[j]].idx /\ e[j] = End(h[st[j]])
    BY <1>4, <2>1
  <2>3. F[j] = g[s[j]].idx /\ G[j] = End(g[s[j]])
    BY <1>5, <2>1
  <2>4. g[st[j]].idx = h[st[j]].idx /\ End(g[st[j]]) = End(h[st[j]])
    BY <2>1
  <2>5. QED
    BY <2>1, <2>2, <2>3, <2>4
<1>9. m \in 1 .. m + 1 /\ m + 1 \in 1 .. m + 1
  BY <1>1
<1>10. F[m] = x /\ G[m] = e[m] /\ F[m + 1] = f[m] /\ G[m + 1] = x /\ x \in Int
       /\ f[m] < x /\ x < e[m]
  BY <1>2, <1>3, <1>4, <1>5, <1>9
<1>11. Row(F, G, m + 1, End(h[1]))
  <2> DEFINE k1 == End(h[1])
  <2>1. m \in Nat \ {0} /\ k1 \in Int /\ Row(f, e, m, k1)
    BY <1>1, <1>6, <1>7
  <2> HIDE DEF k1, m, x
  <2>2. Row(F, G, m + 1, k1)
    BY <1>8, <1>10, <2>1, RowSplit
  <2>3. QED
    BY <2>2 DEF k1
<1>12. StackRow(g, s)
  BY <1>2, <1>7, <1>11 DEF StackRow, F, G
<1>13. Begin(g, s) = Begin(h, st)
  <2>1. s # <<>>
    BY <1>1, <1>2
  <2>2. QED
    BY <1>1, <1>2, <2>1 DEF Begin
<1>14. Opened(h, st, g, t2, r, l, s)
  BY <1>2, <1>12, <1>13 DEF Opened
<1>15. QED
  BY <1>14 DEF s

(* The children of the nodes of S are in S or on the stack.                *)
Follows(h, S, Q) == \A a \in S : ~Leaf(h[a]) => h[a].left \in S \cup Q /\ h[a].right \in S \cup Q

(* Who follows the children from the root meets all nodes.                 *)
LEMMA FollowsAll ==
  ASSUME NEW h, NEW t \in Nat, Shape(h, t), NEW S \in SUBSET (1 .. t), 1 \in S,
         Follows(h, S, {})
  PROVE  S = 1 .. t
<1> SUFFICES ASSUME S # 1 .. t PROVE FALSE
  OBVIOUS
<1> DEFINE T == (1 .. t) \ S
<1>1. T \in SUBSET Nat /\ T # {}
  <2>1. T \subseteq Nat
    OBVIOUS
  <2>2. QED
    BY <2>1
<1>2. PICK a \in T : \A b \in T : a <= b
  <2> HIDE DEF T
  <2>1. QED
    BY <1>1, LeastNat
<1>3. a \in 2 .. t
  BY <1>2
<1>4. PICK b \in 1 .. a - 1 : a \in {h[b].left, h[b].right}
  BY <1>3 DEF Shape, Rooted
<1>5. b \in 1 .. t /\ b < a
  BY <1>3, <1>4
<1>6. b \in S
  BY <1>2, <1>3, <1>5
<1>7. ~Leaf(h[b])
  BY <1>3, <1>4 DEF Leaf, NoNode
<1>8. a \in S
  BY <1>4, <1>6, <1>7 DEF Follows
<1>9. QED
  BY <1>2, <1>8

------------------------------------------------------------------------------
(* The image, and what it holds for each part.                             *)

(* The memory that init_tree_node_memory makes of the whole image: the     *)
(* last entry for an address counts.                                       *)
Entry == [part : Nat, addr : Addresses, node : TreeNode]
EntriesFor(im, q, a) == {j \in DOMAIN im : im[j].part = q /\ im[j].addr = a}
MemoryOf(im, q) ==
  [a \in Addresses |-> IF EntriesFor(im, q, a) = {} THEN Blank
                       ELSE im[Max(EntriesFor(im, q, a))].node]

(* im2 is the image im with the entry e after its c entries.               *)
Records(im, c, e, im2) ==
  /\ im2 \in [0 .. c -> Entry]
  /\ im2[c] = e /\ \A j \in 0 .. c - 1 : im2[j] = im[j]
  /\ \A q : q # e.part => MemoryOf(im2, q) = MemoryOf(im, q)
  /\ MemoryOf(im2, e.part) = [MemoryOf(im, e.part) EXCEPT ![e.addr] = e.node]

(* readout_tree records a node in its own part's memory only.              *)
LEMMA Recorded ==
  ASSUME NEW c \in Nat, NEW im \in [0 .. c - 1 -> Entry], NEW e \in Entry
  PROVE  Records(im, c, e, [j \in DOMAIN im \cup {c} |-> IF j = c THEN e ELSE im[j]])
<1> DEFINE im2 == [j \in DOMAIN im \cup {c} |-> IF j = c THEN e ELSE im[j]]
<1>1. DOMAIN im = 0 .. c - 1 /\ DOMAIN im2 = 0 .. c /\ im2 \in [0 .. c -> Entry]
      /\ im2[c] = e /\ \A j \in 0 .. c - 1 : im2[j] = im[j] /\ j # c
  <2>1. DOMAIN im \cup {c} = 0 .. c
    OBVIOUS
  <2>2. QED
    BY <2>1
<1> HIDE DEF im2
<1>2. ASSUME NEW q, NEW a, q # e.part \/ a # e.addr
      PROVE  /\ EntriesFor(im2, q, a) = EntriesFor(im, q, a)
             /\ EntriesFor(im, q, a) \in SUBSET (0 .. c - 1)
  <2>1. EntriesFor(im2, q, a) \subseteq 0 .. c - 1
    <3> SUFFICES ASSUME NEW j \in EntriesFor(im2, q, a) PROVE j \in 0 .. c - 1
      OBVIOUS
    <3>1. j \in 0 .. c /\ im2[j].part = q /\ im2[j].addr = a
      BY <1>1 DEF EntriesFor
    <3>2. j # c
      BY <1>1, <1>2, <3>1
    <3>3. QED
      BY <3>1, <3>2
  <2>2. EntriesFor(im, q, a) \subseteq 0 .. c - 1
    BY <1>1 DEF EntriesFor
  <2>3. \A j \in 0 .. c - 1 : j \in EntriesFor(im2, q, a) <=> j \in EntriesFor(im, q, a)
    <3> TAKE j \in 0 .. c - 1
    <3>1. j \in DOMAIN im /\ j \in DOMAIN im2 /\ im2[j] = im[j]
      BY <1>1
    <3>2. QED
      BY <3>1 DEF EntriesFor
  <2>4. QED
    BY <2>1, <2>2, <2>3
<1>3. ASSUME NEW q, NEW a \in Addresses, q # e.part \/ a # e.addr
      PROVE  MemoryOf(im2, q)[a] = MemoryOf(im, q)[a]
  <2> DEFINE at == EntriesFor(im, q, a)
  <2>1. EntriesFor(im2, q, a) = at /\ at \in SUBSET (0 .. c - 1)
    BY <1>2, <1>3
  <2> DEFINE at2 == EntriesFor(im2, q, a)
  <2>2. MemoryOf(im2, q)[a] = IF at = {} THEN Blank ELSE im2[Max(at)].node
    <3>1. MemoryOf(im2, q)[a] = IF at2 = {} THEN Blank ELSE im2[Max(at2)].node
      BY DEF MemoryOf
    <3> HIDE DEF at, at2
    <3>2. at2 = at
      BY <2>1 DEF at, at2
    <3>3. QED
      BY <3>1, <3>2
  <2>3. MemoryOf(im, q)[a] = IF at = {} THEN Blank ELSE im[Max(at)].node
    BY DEF MemoryOf
  <2> HIDE DEF at
  <2>4. at # {} => Max(at) \in at
    <3>1. 0 \in Int /\ c - 1 \in Int
      OBVIOUS
    <3>2. QED
      BY <2>1, <3>1, MaxOf
  <2>5. at # {} => im2[Max(at)] = im[Max(at)]
    BY <1>1, <2>1, <2>4
  <2>6. QED
    BY <2>2, <2>3, <2>5
<1>4. e.part \in Nat /\ e.addr \in Addresses
  BY DEF Entry
<1>5. MemoryOf(im2, e.part)[e.addr] = e.node
  <2> DEFINE at == EntriesFor(im2, e.part, e.addr)
  <2>1. at \in SUBSET (0 .. c) /\ c \in at
    BY <1>1 DEF EntriesFor
  <2>2. MemoryOf(im2, e.part)[e.addr] = IF at = {} THEN Blank ELSE im2[Max(at)].node
    BY <1>4 DEF MemoryOf
  <2> HIDE DEF at
  <2>3. Max(at) \in at /\ \A x \in at : x <= Max(at)
    <3>1. at # {} /\ 0 \in Int /\ c \in Int /\ at \in SUBSET (0 .. c)
      BY <2>1
    <3>2. QED
      BY <3>1, MaxOf
  <2>4. Max(at) = c
    <3>1. Max(at) \in 0 .. c /\ c <= Max(at)
      BY <2>1, <2>3
    <3>2. QED
      BY <3>1
  <2>5. QED
    BY <1>1, <2>1, <2>2, <2>4
<1>6. ASSUME NEW q, q # e.part
      PROVE  MemoryOf(im2, q) = MemoryOf(im, q)
  <2>1. \A a \in Addresses : MemoryOf(im2, q)[a] = MemoryOf(im, q)[a]
    BY <1>3, <1>6
  <2>2. QED
    BY <2>1 DEF MemoryOf
<1>7. MemoryOf(im2, e.part) = [MemoryOf(im, e.part) EXCEPT ![e.addr] = e.node]
  <2> DEFINE f == MemoryOf(im2, e.part)
             g == MemoryOf(im, e.part)
  <2>1. DOMAIN f = Addresses /\ DOMAIN g = Addresses
        /\ f = [a \in Addresses |-> f[a]]
    BY DEF MemoryOf
  <2>2. \A a \in Addresses : a # e.addr => f[a] = g[a]
    BY <1>3
  <2>3. f[e.addr] = e.node
    BY <1>5
  <2> HIDE DEF f, g
  <2>4. f = [g EXCEPT ![e.addr] = e.node]
    BY <1>4, <2>1, <2>2, <2>3
  <2>5. QED
    BY <2>4 DEF f, g
<1>8. Records(im, c, e, im2)
  BY <1>1, <1>6, <1>7 DEF Records
<1>9. QED
  BY <1>8 DEF im2

(* Nothing is in the memory of a part not begun.                           *)
LEMMA NothingRecorded ==
  ASSUME NEW im, NEW q, \A j \in DOMAIN im : im[j].part # q
  PROVE  MemoryOf(im, q) = [a \in Addresses |-> Blank]
<1>1. \A a : EntriesFor(im, q, a) = {}
  BY DEF EntriesFor
<1>2. QED
  BY <1>1 DEF MemoryOf

(* A finished part, and all the finished ones: their roots share out the   *)
(* places before fin.                                                      *)
PartDone(pts, ix, m) ==
  \E t \in Addresses : /\ Good(pts, ix, m, t)
                       /\ \A a \in Addresses : t < a => m[a] = Blank
PartsOK(pts, ix, im, p, fin) ==
  /\ \A q \in 0 .. p - 1 : /\ PartDone(pts, ix, MemoryOf(im, q))
                           /\ End(MemoryOf(im, q)[1]) <= fin
  /\ \A q, r \in 0 .. p - 1 : q # r => Apart(MemoryOf(im, q)[1], MemoryOf(im, r)[1])
  /\ \A j \in 0 .. fin - 1 : \E q \in 0 .. p - 1 : j \in Places(MemoryOf(im, q)[1])

(* The root of a finished part.                                            *)
LEMMA RootOf ==
  ASSUME NEW pts, NEW ix, NEW m, PartDone(pts, ix, m)
  PROVE  m[1] \in TreeNode /\ m[1].count > 0
<1>1. PICK t \in Addresses : Good(pts, ix, m, t)
  BY DEF PartDone
<1>2. 1 \in 1 .. t /\ Shape(m, t) /\ t \in Nat
  BY <1>1, DataAssumption DEF Good, Addresses
<1>3. QED
  BY <1>2, NodeOf

(* Finished parts do not change while their entries stay,                  *)
LEMMA PartsSame ==
  ASSUME NEW pts, NEW ix, NEW im, NEW im2, NEW p, NEW fin, PartsOK(pts, ix, im, p, fin),
         \A q \in 0 .. p - 1 : MemoryOf(im2, q) = MemoryOf(im, q)
  PROVE  PartsOK(pts, ix, im2, p, fin)
BY DEF PartsOK

(* nor when places after theirs are rearranged;                            *)
LEMMA PartsKept ==
  ASSUME NEW pts \in [All -> Point], NEW x \in [All -> All], NEW y, NEW im, NEW p, NEW fin \in Nat,
         PartsOK(pts, x, im, p, fin), fin <= N,
         NEW f \in Nat, NEW e \in Nat, fin <= f, Rearranges(x, y, f .. e - 1)
  PROVE  PartsOK(pts, y, im, p, fin)
<1> SUFFICES ASSUME NEW q \in 0 .. p - 1
             PROVE  PartDone(pts, y, MemoryOf(im, q))
  BY DEF PartsOK
<1> DEFINE m == MemoryOf(im, q)
<1>1. PartDone(pts, x, m) /\ End(m[1]) <= fin
  BY DEF PartsOK
<1>2. y \in [All -> All] /\ \A a \in All : a < f => y[a] = x[a]
  BY DEF Rearranges
<1> HIDE DEF m
<1>3. PICK t \in Addresses : Good(pts, x, m, t) /\ \A a \in Addresses : t < a => m[a] = Blank
  BY <1>1 DEF PartDone
<1>4. 1 \in 1 .. t /\ Shape(m, t) /\ t \in Nat
  BY <1>3, DataAssumption DEF Good, Addresses
<1>5. m[1] \in TreeNode /\ End(m[1]) \in Nat /\ End(m[1]) <= N
  <2>1. m[1] \in TreeNode
    BY <1>4, NodeOf
  <2>2. End(m[1]) \in Nat
    BY <1>4, NodeOf
  <2>3. QED
    BY <1>1, <2>1, <2>2, DataAssumption
<1>6. \A j \in Places(m[1]) : y[j] = x[j]
  <2> TAKE j \in Places(m[1])
  <2>1. j \in All
    BY <1>5, PlacesAreAll
  <2>2. j \in Int /\ j < End(m[1])
    BY <1>5, NodeRange
  <2>3. j < f
    BY <1>1, <1>5, <2>2
  <2>4. QED
    BY <1>2, <2>1, <2>3
<1>7. Good(pts, y, m, t)
  BY <1>2, <1>3, <1>4, <1>5, <1>6, GoodKept
<1>8. QED
  BY <1>3, <1>7 DEF PartDone, m

(* and one more that follows them.                                         *)
LEMMA PartsMore ==
  ASSUME NEW pts, NEW ix, NEW im, NEW p \in Nat, NEW fin \in Nat, PartsOK(pts, ix, im, p, fin),
         PartDone(pts, ix, MemoryOf(im, p)), MemoryOf(im, p)[1].idx = fin
  PROVE  PartsOK(pts, ix, im, p + 1, End(MemoryOf(im, p)[1]))
<1> DEFINE r(q) == MemoryOf(im, q)[1]
           e == End(r(p))
<1>1. r(p) \in TreeNode /\ r(p).count > 0
  BY RootOf
<1>2. e \in Nat /\ fin < e /\ \A j : j \in Places(r(p)) <=> j \in Int /\ fin <= j /\ j < e
  <2>1. r(p).count \in Nat /\ e \in Nat /\ e = fin + r(p).count
        /\ \A j : j \in Places(r(p)) <=> j \in Int /\ fin <= j /\ j < e
    BY <1>1, NodeRange DEF End
  <2>2. QED
    BY <1>1, <2>1
<1>3. \A q \in 0 .. (p + 1) - 1 : q = p \/ q \in 0 .. p - 1
  OBVIOUS
<1>4. ASSUME NEW q \in 0 .. p - 1
      PROVE  /\ PartDone(pts, ix, MemoryOf(im, q))
             /\ End(r(q)) \in Nat /\ End(r(q)) <= fin
  <2>1. PartDone(pts, ix, MemoryOf(im, q)) /\ End(r(q)) <= fin
    BY DEF PartsOK
  <2>2. r(q) \in TreeNode
    BY <2>1, RootOf
  <2>3. End(r(q)) \in Nat
    BY <2>2, NodeRange
  <2>4. QED
    BY <2>1, <2>3
<1>5. \A q \in 0 .. p - 1 : Apart(r(q), r(p)) /\ Apart(r(p), r(q))
  BY <1>4 DEF Apart
<1>6. \A q, s \in 0 .. p - 1 : q # s => Apart(r(q), r(s))
  BY DEF PartsOK
<1>7. \A j \in 0 .. fin - 1 : \E q \in 0 .. p - 1 : j \in Places(r(q))
  BY DEF PartsOK
<1>8. \A j \in 0 .. e - 1 : \E q \in 0 .. (p + 1) - 1 : j \in Places(r(q))
  <2> TAKE j \in 0 .. e - 1
  <2>1. CASE j < fin
    <3>1. j \in 0 .. fin - 1
      BY <2>1, <1>2
    <3>2. PICK q \in 0 .. p - 1 : j \in Places(r(q))
      BY <1>7, <3>1
    <3>3. q \in 0 .. (p + 1) - 1
      OBVIOUS
    <3>4. QED
      BY <3>2, <3>3
  <2>2. CASE fin <= j
    <3>1. p \in 0 .. (p + 1) - 1 /\ j \in Places(r(p))
      BY <1>2, <2>2
    <3>2. QED
      BY <3>1
  <2>3. QED
    BY <2>1, <2>2, <1>2
<1>9. \A q \in 0 .. (p + 1) - 1 : PartDone(pts, ix, MemoryOf(im, q)) /\ End(r(q)) <= e
  <2> TAKE q \in 0 .. (p + 1) - 1
  <2>1. CASE q = p
    BY <1>2, <2>1
  <2>2. CASE q \in 0 .. p - 1
    BY <1>2, <1>4, <2>2
  <2>3. QED
    BY <1>3, <2>1, <2>2
<1>10. \A q, s \in 0 .. (p + 1) - 1 : q # s => Apart(r(q), r(s))
  BY <1>3, <1>5, <1>6
<1>11. QED
  BY <1>8, <1>9, <1>10 DEF PartsOK

------------------------------------------------------------------------------
(* The invariant of tree construction.                                     *)

(* The highest address in use, the part whose turn is next, the first      *)
(* place not yet in the image, and the entries written.                    *)
top == node_addr - 1
NextPart == IF stage = "split" THEN part ELSE part + 1
Finished == IF stage = "split" THEN Frontier(calls) ELSE heap[1].idx
Written == IF stage = "readout" THEN counter ELSE ofs

(* idx is a permutation.                                                   *)
Order(ix) ==
  ix \in [All -> All] /\ OneToOne(ix) /\ \A x \in All : \E a \in All : ix[a] = x

(* The types; the image has two entries for every place but one for every  *)
(* part before fin, and no entry of a part not begun.                      *)
Stages == {"split", "build", "sums", "scale", "readout"}
TypesOK ==
  /\ points \in [All -> DataPoints] /\ Order(idx)
  /\ stage \in Stages /\ part \in Nat /\ ofs \in Nat /\ counter \in Nat
  /\ size \in Nat /\ node_addr \in Nat /\ heap \in Heaps

ImageOK(im, w, p, st, o, fin) ==
  /\ im \in [0 .. w - 1 -> Entry]
  /\ \A j \in 0 .. w - 1 : im[j].part <= p /\ (st # "readout" => im[j].part # p)
  /\ o = 2 * fin - p

(* In all stages but the first, a tree is in the heap.                     *)
HeapOK(pts, ix, h, t) == Shape(h, t) /\ Boxes(pts, ix, h, t)
HeldOK ==
  /\ HeapOK(points, idx, heap, top)
  /\ heap[1].count = size
  /\ stack \in Seq(1 .. top)
  /\ Frontier(calls) = End(heap[1])

(* buildkdTree: the stack has the leaves that may have to grow, and the    *)
(* tree has room for them in the heap.                                     *)
GrowingOK(h, t, st) ==
  /\ StackRow(h, st)
  /\ t + 1 = 2 * (Begin(h, st) - h[1].idx + Len(st))
  /\ \A j \in 1 .. Len(st) : Leaf(h[st[j]])
  /\ \A a \in 1 .. t : Leaf(h[a]) /\ h[a].count # 1 => \E j \in 1 .. Len(st) : st[j] = a

(* update_sums: the nodes of S have their sums, the stack is the path to   *)
(* the node it is at, and prev tells whether it comes from above, from the *)
(* left child, or from the right one.                                      *)
ComesFrom(h, a, above, pv, S) ==
  \/ pv = above
  \/ ~Leaf(h[a]) /\ pv = h[a].left /\ pv \in S
  \/ ~Leaf(h[a]) /\ pv = h[a].right /\ h[a].left \in S /\ pv \in S
  \/ Leaf(h[a]) /\ pv = a
Path(h, st, pv, S) ==
  /\ st[1] = 1
  /\ \A j \in 1 .. Len(st) - 1 :
       /\ ~Leaf(h[st[j]])
       /\ \/ st[j + 1] = h[st[j]].left
          \/ st[j + 1] = h[st[j]].right /\ h[st[j]].left \in S
  /\ ComesFrom(h, st[Len(st)], IF Len(st) = 1 THEN NoNode ELSE st[Len(st) - 1], pv, S)
Summed(pts, ix, h, t, st, pv, S) ==
  /\ S \in SUBSET (1 .. t) /\ Follows(h, S, {})
  /\ \A a \in S : SumOK(pts, ix, h[a])
  /\ IF st = <<>> THEN 1 \in S ELSE Path(h, st, pv, S)
SummingOK(pts, ix, h, t, st, pv) ==
  Grown(h, t) /\ \E S : Summed(pts, ix, h, t, st, pv, S)

(* readout_tree: the nodes of S are in the memory, the rest is still       *)
(* blank; the others are below a node on the stack, and counter is where   *)
(* the next entry goes.                                                    *)
OnStack(st) == {st[j] : j \in 1 .. Len(st)}
IsRead(h, t, st, im, p, S) ==
  /\ S \in SUBSET (1 .. t)
  /\ 1 \in S \cup OnStack(st) /\ Follows(h, S, OnStack(st))
  /\ MemoryOf(im, p) = [a \in Addresses |-> IF a \in S THEN h[a] ELSE Blank]
ReadingOK(h, t, st, im, p, c, o) ==
  /\ StackRow(h, st)
  /\ c = o + 2 * (Begin(h, st) - h[1].idx) + Len(st) - 1
  /\ \E S : IsRead(h, t, st, im, p, S)

(* The invariant.                                                          *)
BuildInv ==
  /\ TypesOK
  /\ CallsOK(points, idx, calls, NextPart)
  /\ PartsOK(points, idx, image, part, Finished)
  /\ ImageOK(image, Written, part, stage, ofs, Finished)
  /\ stage # "split" => HeldOK
  /\ stage = "build" => GrowingOK(heap, top, stack)
  /\ stage = "sums" => SummingOK(points, idx, heap, top, stack, prev)
  /\ stage \in {"scale", "readout"} => Good(points, idx, heap, top)
  /\ stage = "readout" => ReadingOK(heap, top, stack, image, part, counter, ofs)

(* Rearranging a permutation makes another.                                *)
LEMMA OrderKept ==
  ASSUME NEW x, NEW y, Order(x), NEW R \in SUBSET All, Rearranges(x, y, R)
  PROVE  Order(y)
<1>1. \A z \in All : \E a \in All : y[a] = z
  <2> TAKE z \in All
  <2>1. PICK b \in All : x[b] = z
    BY DEF Order
  <2>2. CASE b \in R
    <3>1. PICK a \in R : y[a] = x[b]
      BY <2>2 DEF Rearranges
    <3>2. QED
      BY <2>1, <3>1
  <2>3. CASE b \notin R
    BY <2>1, <2>3 DEF Rearranges
  <2>4. QED
    BY <2>2, <2>3
<1>2. QED
  BY <1>1 DEF Order, Rearranges

(* The tree in the heap, for short.                                        *)
LEMMA HeldFacts ==
  ASSUME BuildInv, stage # "split"
  PROVE  /\ top \in Nat /\ top \in Addresses /\ Shape(heap, top)
         /\ Boxes(points, idx, heap, top)
         /\ 1 \in 1 .. top /\ heap[1].idx \in Nat /\ End(heap[1]) \in Nat
         /\ heap[1].count = size /\ size > 0 /\ End(heap[1]) = heap[1].idx + size
         /\ End(heap[1]) <= N
         /\ Finished = heap[1].idx /\ NextPart = part + 1
         /\ Frontier(calls) = End(heap[1])
         /\ stack \in Seq(1 .. top)
         /\ points \in [All -> Point] /\ idx \in [All -> All]
<1>1. HeldOK /\ TypesOK /\ CallsOK(points, idx, calls, NextPart)
  BY DEF BuildInv
<1>2. Shape(heap, top) /\ Boxes(points, idx, heap, top) /\ top \in Addresses
  BY <1>1 DEF HeldOK, HeapOK, Shape
<1>3. top \in Nat /\ 1 \in 1 .. top
  BY <1>2, DataAssumption DEF Addresses
<1>4. heap[1].idx \in Nat /\ End(heap[1]) \in Nat /\ End(heap[1]) = heap[1].idx + heap[1].count
      /\ heap[1].count > 0
  BY <1>2, <1>3, NodeOf
<1>5. Frontier(calls) = End(heap[1]) /\ heap[1].count = size /\ stack \in Seq(1 .. top)
  BY <1>1 DEF HeldOK
<1>6. Frontier(calls) \in 0 .. N
  BY <1>1, FrontierRange
<1>7. End(heap[1]) <= N
  BY <1>5, <1>6, DataAssumption
<1>8. points \in [All -> Point] /\ idx \in [All -> All]
  BY <1>1, DataAssumption DEF TypesOK, Order
<1>9. Finished = heap[1].idx /\ NextPart = part + 1
  BY DEF Finished, NextPart
<1>10. QED
  BY <1>2, <1>3, <1>4, <1>5, <1>7, <1>8, <1>9

(* setup_tree_node makes a leaf.                                           *)
LEMMA SetupNode ==
  ASSUME NEW index \in Nat, NEW n \in Nat, NEW lo \in Point, NEW hi \in Point
  PROVE  LET s == setup_tree_node(index, n, lo, hi)
         IN  /\ s \in TreeNode /\ Leaf(s)
             /\ s.idx = index /\ s.count = n /\ s.lo = lo /\ s.hi = hi
<1>1. Origin \in [Dims -> Int] /\ NoNode \in Nat /\ 0 \in Int
  BY DEF Origin, NoNode
<1>2. [d \in Dims |-> Wrap(Quotient(lo[d] + hi[d], 2), COORD)] \in Point
  <2> SUFFICES ASSUME NEW d \in Dims PROVE Wrap(Quotient(lo[d] + hi[d], 2), COORD) \in Coord
    BY DEF Point
  <2>1. lo[d] \in Int /\ hi[d] \in Int
    BY WidthAssumption DEF Point, Coord
  <2> DEFINE x == lo[d] + hi[d]
  <2>2. x \in Int
    BY <2>1
  <2> HIDE DEF x
  <2>3. Quotient(x, 2) \in Int
    BY <2>2, QuotientInt
  <2>4. COORD \in Nat /\ COORD > 0
    BY WidthAssumption
  <2>5. Wrap(Quotient(x, 2), COORD) \in Coord
    BY <2>3, <2>4, WrapRange DEF Coord
  <2>6. QED
    BY <2>5 DEF x
<1>3. setup_tree_node(index, n, lo, hi) \in TreeNode
  BY <1>1, <1>2 DEF setup_tree_node, TreeNode
<1>4. QED
  BY <1>3 DEF setup_tree_node, Leaf

(* And Blank is one, of no points.                                         *)
LEMMA BlankNode ==
  /\ Blank \in TreeNode /\ Leaf(Blank) /\ Blank.idx = 0 /\ Blank.count = 0
  /\ Blank.lo = Origin /\ Blank.hi = Origin /\ Origin \in Point
<1>1. Origin \in Point
  BY WidthAssumption DEF Origin, Point, Coord
<1>2. QED
  BY <1>1, SetupNode DEF Blank

(* The invariant holds at the start: one call for all points, whose box is *)
(* their bounding box.                                                     *)
LEMMA BuildStarts == BuildInit => BuildInv
<1> SUFFICES ASSUME BuildInit PROVE BuildInv
  OBVIOUS
<1> USE DEF BuildInit
<1>1. N \in Nat \ {0} /\ 0 \in All /\ points \in [All -> DataPoints] /\ points \in [All -> Point]
  BY DataAssumption DEF All
<1>2. idx = [j \in All |-> j] /\ idx \in [All -> All]
  BY DEF All
<1>3. Order(idx)
  BY <1>2 DEF Order, OneToOne
<1>4. heap \in Heaps
  BY BlankNode DEF Heaps
<1>5. TypesOK
  BY <1>1, <1>3, <1>4 DEF TypesOK, Stages
<1> DEFINE lo == [d \in Dims |-> Min(Coordinates(idx, 0, N, d))]
           hi == [d \in Dims |-> Max(Coordinates(idx, 0, N, d))]
<1>6. \A d \in Dims :
        /\ Min(Coordinates(idx, 0, N, d)) \in Coord /\ Max(Coordinates(idx, 0, N, d)) \in Coord
        /\ \A j \in All : /\ Min(Coordinates(idx, 0, N, d)) <= points[idx[j]][d]
                          /\ points[idx[j]][d] <= Max(Coordinates(idx, 0, N, d))
  <2> TAKE d \in Dims
  <2>1. LET C == Coordinates(idx, 0, N, d)
        IN  /\ \A j \in 0 .. 0 + N - 1 :
                 points[idx[j]][d] \in Coord /\ Min(C) <= points[idx[j]][d] /\ points[idx[j]][d] <= Max(C)
            /\ \E j \in 0 .. 0 + N - 1 : points[idx[j]][d] = Min(C)
            /\ \E j \in 0 .. 0 + N - 1 : points[idx[j]][d] = Max(C)
    <3> DEFINE y == points
               x == idx
               first == 0
               n == N
    <3>1. /\ y \in [All -> Point] /\ x \in [All -> All] /\ y = points
          /\ first \in Nat /\ n \in Nat /\ n > 0 /\ first + n <= N
      BY <1>1, <1>2
    <3> HIDE DEF y, x, first, n
    <3>2. LET C == Coordinates(x, first, n, d)
          IN  /\ \A j \in first .. first + n - 1 :
                   y[x[j]][d] \in Coord /\ Min(C) <= y[x[j]][d] /\ y[x[j]][d] <= Max(C)
              /\ \E j \in first .. first + n - 1 : y[x[j]][d] = Min(C)
              /\ \E j \in first .. first + n - 1 : y[x[j]][d] = Max(C)
      BY <3>1, CoordinateRange
    <3>3. QED
      BY <3>2 DEF y, x, first, n
  <2>2. 0 .. 0 + N - 1 = All
    BY <1>1 DEF All
  <2>3. QED
    BY <2>1, <2>2
<1>7. lo \in Point /\ hi \in Point
  BY <1>6 DEF Point
<1>8. PointsIn(points, idx, 0, 0 + N, lo, hi)
  <2>1. 0 .. (0 + N) - 1 = All
    BY <1>1 DEF All
  <2>2. QED
    BY <1>6, <2>1 DEF PointsIn
<1>9. calls = <<Call(1, 0, N, lo, hi)>>
  OBVIOUS
<1> HIDE DEF lo, hi, BuildInit
<1> DEFINE c == Call(1, 0, N, lo, hi)
<1>10. /\ c \in CallType /\ c.p = 1 /\ c.index = 0 /\ c.n = N /\ c.lo = lo /\ c.hi = hi
  BY <1>1, <1>7 DEF Call, CallType
<1>11. /\ calls \in Seq(CallType) /\ Len(calls) = 1 /\ calls[1] = c /\ calls # <<>>
       /\ DOMAIN calls = 1 .. 1
  <2> HIDE DEF c
  <2>1. calls = <<c>> /\ c \in CallType
    BY <1>9, <1>10 DEF c
  <2>2. QED
    BY <2>1
<1> HIDE DEF c
<1>12. Row(CallStart(calls), CallEnd(calls), Len(calls), N)
  <2>1. CallStart(calls)[1] = 0 /\ CallEnd(calls)[1] = N
    BY <1>1, <1>10, <1>11 DEF CallStart, CallEnd
  <2>2. \A a, b \in 1 .. 1 : ~(a < b)
    OBVIOUS
  <2>3. QED
    BY <1>1, <1>11, <2>1, <2>2 DEF Row
<1>13. \E at \in [1 .. Len(calls) + 1 -> 0 .. P] :
         /\ at[1] = P /\ at[Len(calls) + 1] = 0
         /\ \A j \in 1 .. Len(calls) : at[j] = at[j + 1] + P \div calls[j].p
  <2>1. P \in Nat /\ P \div 1 = P
    BY DataAssumption
  <2> DEFINE at == [j \in 1 .. 2 |-> IF j = 1 THEN P ELSE 0]
  <2>2. at \in [1 .. Len(calls) + 1 -> 0 .. P] /\ at[1] = P /\ at[Len(calls) + 1] = 0 /\ at[2] = 0
    BY <1>11, <2>1
  <2> HIDE DEF at
  <2>3. \A j \in 1 .. Len(calls) : at[j] = at[j + 1] + P \div calls[j].p
    BY <1>10, <1>11, <2>1, <2>2
  <2>4. QED
    BY <2>2, <2>3
<1>14. \A j \in 1 .. Len(calls) :
         /\ calls[j].p <= P
         /\ PointsIn(points, idx, calls[j].index, calls[j].index + calls[j].n, calls[j].lo, calls[j].hi)
  BY <1>8, <1>10, <1>11, DataAssumption
<1>15. stage = "split" /\ part = 0 /\ ofs = 0 /\ image = [i0 \in {} |-> 0]
  BY DEF BuildInit
<1>16. CallsOK(points, idx, calls, NextPart)
  BY <1>11, <1>12, <1>13, <1>14, <1>15 DEF CallsOK, NextPart
<1>17. Finished = 0 /\ Written = 0
  BY <1>10, <1>11, <1>15 DEF Finished, Written, Frontier
<1>18. PartsOK(points, idx, image, part, Finished)
  BY <1>15, <1>17 DEF PartsOK
<1>19. ImageOK(image, Written, part, stage, ofs, Finished)
  BY <1>15, <1>17 DEF ImageOK
<1>20. QED
  BY <1>5, <1>15, <1>16, <1>18, <1>19 DEF BuildInv

------------------------------------------------------------------------------
(* The traversals keep it.                                                 *)

(* A step of a traversal that leaves nodes their cells keeps what does not *)
(* depend on the traversal.                                                *)
LEMMA KeepsTree ==
  ASSUME BuildInv, stage # "split", stage' \in Stages \ {"split"},
         UNCHANGED <<points, idx, calls, part, ofs, node_addr, size>>,
         heap' \in Heaps, \A a \in 1 .. top : SameCell(heap[a], heap'[a]),
         counter' \in Nat, stack' \in Seq(1 .. top)
  PROVE  /\ TypesOK' /\ HeldOK' /\ top' = top
         /\ CallsOK(points', idx', calls', NextPart')
         /\ Finished' = Finished
         /\ PartsOK(points', idx', image, part', Finished')
         /\ Shape(heap', top')
<1>1. TypesOK /\ HeldOK /\ CallsOK(points, idx, calls, NextPart)
      /\ PartsOK(points, idx, image, part, Finished)
  BY DEF BuildInv
<1>2. TypesOK' /\ top' = top
  BY <1>1 DEF TypesOK, top
<1>3. Shape(heap, top) /\ Boxes(points, idx, heap, top) /\ top \in Nat /\ 1 \in 1 .. top
  BY HeldFacts
<1>4. Shape(heap', top) /\ Boxes(points, idx, heap', top)
  BY <1>3, SameCells
<1>5. heap'[1].idx = heap[1].idx /\ heap'[1].count = heap[1].count /\ End(heap'[1]) = End(heap[1])
  BY <1>3 DEF SameCell, End
<1>6. HeldOK'
  BY <1>1, <1>2, <1>4, <1>5 DEF HeldOK, HeapOK
<1>7. NextPart' = NextPart /\ Finished' = Finished
  BY <1>5 DEF NextPart, Finished
<1>8. CallsOK(points', idx', calls', NextPart')
  BY <1>1, <1>7
<1>9. QED
  BY <1>1, <1>2, <1>4, <1>6, <1>7, <1>8

(* The root alone is the stack a traversal starts from.                    *)
LEMMA SingleStack ==
  ASSUME NEW h, NEW t \in Nat, Shape(h, t)
  PROVE  /\ <<1>> \in Seq(1 .. t) /\ StackRow(h, <<1>>) /\ Begin(h, <<1>>) = h[1].idx
         /\ Len(<<1>>) = 1 /\ <<1>> # <<>> /\ <<1>>[1] = 1
<1>1. 1 \in 1 .. t /\ t \in Addresses
  BY DataAssumption DEF Shape, Addresses
<1>2. h[1].idx \in Nat /\ End(h[1]) \in Nat /\ h[1].count > 0 /\ h[1].count \in Nat
      /\ End(h[1]) = h[1].idx + h[1].count
  BY <1>1, NodeOf
<1> DEFINE s == <<1>>
<1>3. s \in Seq(1 .. t) /\ Len(s) = 1 /\ s[1] = 1 /\ DOMAIN s = 1 .. 1 /\ s # <<>>
  BY <1>1
<1> HIDE DEF s
<1>4. NodeStart(h, s)[1] = h[1].idx /\ NodeEnd(h, s)[1] = End(h[1])
  BY <1>3 DEF NodeStart, NodeEnd
<1>5. \A a, b \in 1 .. 1 : ~(a < b)
  OBVIOUS
<1>6. StackRow(h, s)
  BY <1>2, <1>3, <1>4, <1>5 DEF StackRow, Row
<1>7. Begin(h, s) = h[1].idx
  BY <1>3 DEF Begin
<1>8. QED
  BY <1>3, <1>6, <1>7 DEF s

(* One traversal ends, the next begins.                                    *)
LEMMA StageEnds == BuildInv /\ NextTraversal => BuildInv'
<1> SUFFICES ASSUME BuildInv, NextTraversal PROVE BuildInv'
  OBVIOUS
<1>1. /\ stack = <<>> /\ stack' = <<1>> /\ prev' = NoNode /\ counter' = ofs
      /\ points' = points /\ idx' = idx /\ calls' = calls /\ part' = part /\ ofs' = ofs
      /\ heap' = heap /\ node_addr' = node_addr /\ size' = size /\ image' = image
      /\ \/ stage = "build" /\ stage' = "sums"
         \/ stage = "sums" /\ stage' = "scale"
         \/ stage = "scale" /\ stage' = "readout"
  BY DEF NextTraversal, nodes
<1>2. stage # "split" /\ stage' \in Stages \ {"split"} /\ counter' \in Nat
  BY <1>1 DEF BuildInv, TypesOK, Stages
<1>3. Shape(heap, top) /\ Boxes(points, idx, heap, top) /\ top \in Nat
      /\ \A a \in 1 .. top : heap[a] \in TreeNode
  BY <1>2, HeldFacts, NodeOf
<1>4. stack' \in Seq(1 .. top) /\ StackRow(heap, stack') /\ Begin(heap, stack') = heap[1].idx
      /\ Len(stack') = 1 /\ stack' # <<>> /\ stack'[1] = 1
  BY <1>1, <1>3, SingleStack
<1>5. \A a \in 1 .. top : SameCell(heap[a], heap'[a])
  BY <1>1, <1>3 DEF SameCell
<1>6. heap' \in Heaps
  BY <1>1 DEF BuildInv, TypesOK
<1>7. /\ TypesOK' /\ HeldOK' /\ top' = top
      /\ CallsOK(points', idx', calls', NextPart')
      /\ Finished' = Finished
      /\ PartsOK(points', idx', image, part', Finished')
  BY <1>1, <1>2, <1>4, <1>5, <1>6, KeepsTree
<1>8. ImageOK(image', Written', part', stage', ofs', Finished')
  <2>1. ImageOK(image, Written, part, stage, ofs, Finished)
    BY DEF BuildInv
  <2>2. Written = ofs /\ Written' = ofs
    BY <1>1 DEF Written
  <2>3. QED
    BY <1>1, <1>7, <2>1, <2>2 DEF ImageOK
<1>9. stage' = "sums" => SummingOK(points', idx', heap', top', stack', prev')
  <2> SUFFICES ASSUME stage' = "sums"
               PROVE  SummingOK(points, idx, heap, top, stack', prev')
    BY <1>1, <1>7
  <2>1. GrowingOK(heap, top, stack)
    BY <1>1 DEF BuildInv
  <2>2. Grown(heap, top)
    BY <1>1, <2>1 DEF GrowingOK, Grown
  <2>3. ComesFrom(heap, stack'[Len(stack')],
                  IF Len(stack') = 1 THEN NoNode ELSE stack'[Len(stack') - 1], prev', {})
    BY <1>1, <1>4 DEF ComesFrom
  <2>4. Path(heap, stack', prev', {})
    BY <1>4, <2>3 DEF Path
  <2>5. Summed(points, idx, heap, top, stack', prev', {})
    BY <1>4, <2>4 DEF Summed, Follows
  <2>6. QED
    BY <2>2, <2>5 DEF SummingOK
<1>10. stage' \in {"scale", "readout"} => Good(points', idx', heap', top')
  <2>1. CASE stage = "scale"
    BY <1>1, <1>7, <2>1 DEF BuildInv
  <2>2. CASE stage = "sums"
    <3>1. SummingOK(points, idx, heap, top, stack, prev)
      BY <2>2 DEF BuildInv
    <3>2. PICK S : Summed(points, idx, heap, top, stack, prev, S)
      BY <3>1 DEF SummingOK
    <3>3. S \in SUBSET (1 .. top) /\ Follows(heap, S, {}) /\ 1 \in S
          /\ \A a \in S : SumOK(points, idx, heap[a])
      BY <1>1, <3>2 DEF Summed
    <3>4. S = 1 .. top
      BY <1>3, <3>3, FollowsAll
    <3>5. Good(points, idx, heap, top)
      BY <1>3, <3>1, <3>3, <3>4 DEF Good, SummingOK
    <3>6. QED
      BY <1>1, <1>7, <3>5
  <2>3. QED
    BY <1>1, <2>1, <2>2
<1>11. stage' = "readout" => ReadingOK(heap', top', stack', image', part', counter', ofs')
  <2> SUFFICES ASSUME stage' = "readout"
               PROVE  ReadingOK(heap, top, stack', image, part, ofs, ofs)
    BY <1>1, <1>7
  <2>1. ImageOK(image, Written, part, stage, ofs, Finished) /\ stage = "scale"
    BY <1>1 DEF BuildInv
  <2>2. \A j \in DOMAIN image : image[j].part # part
    BY <2>1 DEF ImageOK
  <2>3. MemoryOf(image, part) = [a \in Addresses |-> Blank]
    BY <2>2, NothingRecorded
  <2>4. MemoryOf(image, part) = [a \in Addresses |-> IF a \in {} THEN heap[a] ELSE Blank]
    BY <2>3
  <2>5. 1 \in OnStack(stack')
    BY <1>4 DEF OnStack
  <2>6. IsRead(heap, top, stack', image, part, {})
    BY <2>4, <2>5 DEF IsRead, Follows
  <2>7. heap[1].idx \in Nat /\ ofs \in Nat
    BY <1>2, HeldFacts DEF BuildInv, TypesOK
  <2>8. ofs = ofs + 2 * (Begin(heap, stack') - heap[1].idx) + Len(stack') - 1
    BY <1>4, <2>7
  <2>9. QED
    BY <1>4, <2>6, <2>8 DEF ReadingOK
<1>12. stage' # "build" /\ stage' # "split"
  BY <1>1
<1>13. PartsOK(points', idx', image', part', Finished')
  BY <1>1, <1>7
<1>14. QED
  BY <1>7, <1>8, <1>9, <1>10, <1>11, <1>12, <1>13 DEF BuildInv

(* The stack of a pre-order traversal.                                     *)
LEMMA PushChildren ==
  ASSUME NEW h, NEW t \in Nat, Shape(h, t), NEW st \in Seq(1 .. t), st # <<>>,
         NEW s, s = Front(st) \o IF h[Last(st)].left # NoNode \/ h[Last(st)].right # NoNode
                                 THEN <<h[Last(st)].right, h[Last(st)].left>> ELSE <<>>
  PROVE  LET v == st[Len(st)]
         IN  /\ Last(st) = v /\ v \in 1 .. t
             /\ s \in Seq(1 .. t)
             /\ Leaf(h[v]) => s = Front(st)
             /\ ~Leaf(h[v]) => s = Front(st) \o <<h[v].right, h[v].left>>
<1>1. Last(st) = st[Len(st)] /\ st[Len(st)] \in 1 .. t
      /\ Front(st) \in Seq(1 .. t)
  BY FrontIs
<1> DEFINE v == st[Len(st)]
<1>2. Leaf(h[v]) \/ (h[v].left \in 1 .. t /\ h[v].right \in 1 .. t)
  <2>1. Leaf(h[v]) \/ (h[v].left \in v + 1 .. t /\ h[v].right \in v + 1 .. t)
    BY <1>1, NodeOf
  <2>2. QED
    BY <1>1, <2>1, SMTT(20)
<1>3. s = Front(st) \o IF ~Leaf(h[v]) THEN <<h[v].right, h[v].left>> ELSE <<>>
  BY <1>1 DEF Leaf
<1> HIDE DEF v
<1>4. Front(st) \o <<>> = Front(st)
  BY <1>1
<1>5. CASE Leaf(h[v])
  <2>1. s = Front(st)
    BY <1>3, <1>4, <1>5
  <2>2. QED
    BY <1>1, <1>5, <2>1 DEF v
<1>6. CASE ~Leaf(h[v])
  <2>1. s = Front(st) \o <<h[v].right, h[v].left>>
    BY <1>3, <1>6
  <2>2. Replaces(1 .. t, st, h[v].right, h[v].left, Front(st) \o <<h[v].right, h[v].left>>)
    <3> DEFINE l == h[v].left
               r == h[v].right
    <3>1. l \in 1 .. t /\ r \in 1 .. t /\ t <= t
      BY <1>2, <1>6
    <3> HIDE DEF l, r
    <3>2. Replaces(1 .. t, st, r, l, Front(st) \o <<r, l>>)
      BY <3>1, StackReplaced
    <3>3. QED
      BY <3>2 DEF l, r
  <2>3. s \in Seq(1 .. t)
    BY <2>1, <2>2 DEF Replaces
  <2>4. QED
    BY <1>1, <1>6, <2>1, <2>3 DEF v
<1>7. QED
  BY <1>5, <1>6

(* Scaling sum_sq changes nothing the tree is needed for.                  *)
LEMMA ScaleKeeps == BuildInv /\ ScaleSums => BuildInv'
<1> SUFFICES ASSUME BuildInv, ScaleSums PROVE BuildInv'
  OBVIOUS
<1>1. /\ stage = "scale" /\ stack # <<>> /\ stage' = stage
      /\ heap' = [heap EXCEPT ![Last(stack)].sum_sq = Shift(@)]
      /\ points' = points /\ idx' = idx /\ calls' = calls /\ part' = part /\ ofs' = ofs
      /\ node_addr' = node_addr /\ size' = size /\ image' = image /\ counter' = counter
      /\ stack' = Front(stack) \o IF heap[Last(stack)].left # NoNode \/ heap[Last(stack)].right # NoNode
                                 THEN <<heap[Last(stack)].right, heap[Last(stack)].left>> ELSE <<>>
  BY DEF ScaleSums, PopAndPushChildren
<1>2. stage # "split" /\ stage' \in Stages \ {"split"} /\ counter' \in Nat
  BY <1>1 DEF BuildInv, TypesOK, Stages
<1>3. Shape(heap, top) /\ top \in Nat /\ stack \in Seq(1 .. top) /\ heap \in Heaps
      /\ \A a \in 1 .. top : heap[a] \in TreeNode
  BY <1>2, HeldFacts, NodeOf DEF BuildInv, TypesOK
<1>4. stack' \in Seq(1 .. top) /\ Last(stack) \in 1 .. top
  BY <1>1, <1>3, PushChildren
<1>5. heap' \in Heaps
  <2> DEFINE v == Last(stack)
  <2>1. heap[v] \in TreeNode
    BY <1>3, <1>4
  <2>2. Shift(heap[v].sum_sq) \in Int
    BY <2>1, WidthAssumption DEF TreeNode, Shift
  <2>3. [heap[v] EXCEPT !.sum_sq = Shift(@)] \in TreeNode
    BY <2>1, <2>2 DEF TreeNode
  <2> HIDE DEF v
  <2>4. [heap EXCEPT ![v].sum_sq = Shift(@)] \in Heaps
    BY <1>3, <2>3 DEF Heaps
  <2>5. QED
    BY <1>1, <2>4 DEF v
<1>6. \A a \in 1 .. top : SameCell(heap[a], heap'[a]) /\ heap'[a].wgtCent = heap[a].wgtCent
  <2> TAKE a \in 1 .. top
  <2>1. a \in {NoNode} \cup Addresses /\ heap'[a] \in TreeNode
    <3>1. top \in Addresses
      BY <1>2, HeldFacts
    <3>2. a \in Addresses
      BY <3>1, DataAssumption DEF Addresses
    <3>3. QED
      BY <1>5, <3>2 DEF Heaps
  <2>2. heap[a] \in TreeNode
    BY <1>3
  <2>3. heap'[a] = IF a = Last(stack) THEN [heap[a] EXCEPT !.sum_sq = Shift(@)] ELSE heap[a]
    BY <1>1, <1>3, <2>1 DEF Heaps
  <2>4. QED
    BY <2>1, <2>2, <2>3 DEF SameCell, TreeNode
<1>7. /\ TypesOK' /\ HeldOK' /\ top' = top
      /\ CallsOK(points', idx', calls', NextPart')
      /\ Finished' = Finished
      /\ PartsOK(points', idx', image, part', Finished')
  BY <1>1, <1>2, <1>4, <1>5, <1>6, KeepsTree
<1>8. ImageOK(image', Written', part', stage', ofs', Finished')
  <2>1. ImageOK(image, Written, part, stage, ofs, Finished)
    BY DEF BuildInv
  <2>2. Written' = Written
    BY <1>1 DEF Written
  <2>3. QED
    BY <1>1, <1>7, <2>1, <2>2
<1>9. Good(points', idx', heap', top')
  <2>1. Good(points, idx, heap, top)
    BY <1>1 DEF BuildInv
  <2>2. \A a \in 1 .. top : SumOK(points, idx, heap'[a])
    BY <1>6, <2>1 DEF Good, SumOK, SameCell, Leaf, Places
  <2>3. Shape(heap', top) /\ Boxes(points, idx, heap', top) /\ Grown(heap', top)
    BY <1>3, <1>6, <2>1, SameCells DEF Good
  <2>4. Good(points, idx, heap', top)
    BY <2>2, <2>3 DEF Good
  <2>5. QED
    BY <1>1, <1>7, <2>4
<1>10. PartsOK(points', idx', image', part', Finished')
  BY <1>1, <1>7
<1>11. stage' = "scale"
  BY <1>1
<1>12. QED
  BY <1>7, <1>8, <1>9, <1>10, <1>11 DEF BuildInv

(* Where the next entry goes, after a leaf and after another node.         *)
LEMMA EntriesCounted ==
  ASSUME NEW c \in Int, NEW o \in Int, NEW b \in Int, NEW f \in Int, NEW n \in Int,
         c = o + 2 * (b - f) + n - 1
  PROVE  /\ c + 1 = o + 2 * ((b + 1) - f) + (n - 1) - 1
         /\ c + 1 = o + 2 * (b - f) + (n + 1) - 1
OBVIOUS

(* readout_tree records the node on top.                                   *)
LEMMA ReadoutKeeps == BuildInv /\ ReadoutNode => BuildInv'
<1> SUFFICES ASSUME BuildInv, ReadoutNode PROVE BuildInv'
  OBVIOUS
<1>1. /\ stage = "readout" /\ stack # <<>> /\ stage' = stage
      /\ heap' = heap
      /\ points' = points /\ idx' = idx /\ calls' = calls /\ part' = part /\ ofs' = ofs
      /\ node_addr' = node_addr /\ size' = size /\ counter' = counter + 1
      /\ stack' = Front(stack) \o IF heap[Last(stack)].left # NoNode \/ heap[Last(stack)].right # NoNode
                                 THEN <<heap[Last(stack)].right, heap[Last(stack)].left>> ELSE <<>>
      /\ image' = [j \in DOMAIN image \cup {counter} |->
                     IF j = counter THEN [part |-> part, addr |-> Last(stack),
                                          node |-> heap[Last(stack)]]
                                    ELSE image[j]]
  BY DEF ReadoutNode, PopAndPushChildren, nodes
<1>2. stage # "split" /\ stage' \in Stages \ {"split"} /\ counter' \in Nat /\ counter \in Nat
      /\ part \in Nat /\ ofs \in Nat
  BY <1>1 DEF BuildInv, TypesOK, Stages
<1>3. Shape(heap, top) /\ top \in Nat /\ stack \in Seq(1 .. top) /\ heap \in Heaps
      /\ top \in Addresses
      /\ \A a \in 1 .. top : heap[a] \in TreeNode
  BY <1>2, HeldFacts, NodeOf DEF BuildInv, TypesOK
<1> DEFINE v == stack[Len(stack)]
           l == heap[v].left
           r == heap[v].right
<1>4. /\ stack' \in Seq(1 .. top) /\ Last(stack) = v /\ v \in 1 .. top
      /\ Leaf(heap[v]) => stack' = Front(stack)
      /\ ~Leaf(heap[v]) => stack' = Front(stack) \o <<r, l>>
  BY <1>1, <1>3, PushChildren
<1>5. \A a \in 1 .. top : SameCell(heap[a], heap'[a])
  BY <1>1, <1>3 DEF SameCell
<1>6. heap' \in Heaps
  BY <1>1, <1>3
<1>7. /\ TypesOK' /\ HeldOK' /\ top' = top
      /\ CallsOK(points', idx', calls', NextPart')
      /\ Finished' = Finished
      /\ PartsOK(points', idx', image, part', Finished')
  BY <1>1, <1>2, <1>4, <1>5, <1>6, KeepsTree
<1> DEFINE e == [part |-> part, addr |-> v, node |-> heap[v]]
<1>8. e \in Entry /\ e.part = part /\ e.addr = v /\ e.node = heap[v] /\ v \in Addresses
  <2>1. v \in Addresses
    BY <1>3, <1>4, DataAssumption DEF Addresses
  <2>2. QED
    BY <1>2, <1>3, <1>4, <2>1 DEF Entry
<1>9. ImageOK(image, counter, part, stage, ofs, Finished)
  BY <1>1 DEF BuildInv, Written
<1>10. image \in [0 .. counter - 1 -> Entry]
       /\ \A j \in 0 .. counter - 1 : image[j].part <= part
  BY <1>9 DEF ImageOK
<1>11. image' = [j \in DOMAIN image \cup {counter} |-> IF j = counter THEN e ELSE image[j]]
  BY <1>1, <1>4
<1> HIDE DEF e
<1>12. /\ image' \in [0 .. counter -> Entry]
       /\ \A q : q # part => MemoryOf(image', q) = MemoryOf(image, q)
       /\ MemoryOf(image', part) = [MemoryOf(image, part) EXCEPT ![v] = heap[v]]
  <2> DEFINE c == counter
             im == image
  <2>1. c \in Nat /\ im \in [0 .. c - 1 -> Entry] /\ e \in Entry
    BY <1>2, <1>8, <1>10
  <2> HIDE DEF c, im
  <2>2. Records(im, c, e, [j \in DOMAIN im \cup {c} |-> IF j = c THEN e ELSE im[j]])
    BY <2>1, Recorded
  <2>3. Records(image, counter, e, image')
    BY <1>11, <2>2 DEF c, im
  <2>4. QED
    BY <1>8, <2>3 DEF Records
<1>13. ImageOK(image', Written', part', stage', ofs', Finished')
  <2>1. Written' = counter + 1 /\ (counter + 1) - 1 = counter
    BY <1>1, <1>2 DEF Written
  <2>2. \A j \in 0 .. counter : image'[j].part <= part
    <3> TAKE j \in 0 .. counter
    <3>1. CASE j = counter
      <4>1. image'[j] = e
        BY <1>2, <1>11, <3>1
      <4>2. QED
        BY <1>2, <1>8, <4>1
    <3>2. CASE j # counter
      <4>1. j \in 0 .. counter - 1
        BY <1>2, <3>2
      <4>2. image'[j] = image[j]
        BY <1>10, <1>11, <3>2, <4>1
      <4>3. QED
        BY <1>10, <4>1, <4>2
    <3>3. QED
      BY <3>1, <3>2
  <2>3. ofs' = 2 * Finished' - part'
    BY <1>1, <1>7, <1>9 DEF ImageOK
  <2>4. stage' = "readout" /\ part' = part
    BY <1>1
  <2>5. QED
    BY <1>12, <2>1, <2>2, <2>3, <2>4 DEF ImageOK
<1>14. Good(points', idx', heap', top')
  BY <1>1, <1>7 DEF BuildInv
<1>15. PartsOK(points', idx', image', part', Finished')
  <2>1. PartsOK(points', idx', image, part', Finished')
    BY <1>7
  <2>2. \A q \in 0 .. part' - 1 : MemoryOf(image', q) = MemoryOf(image, q)
    <3> TAKE q \in 0 .. part' - 1
    <3>1. q # part
      BY <1>1, <1>2
    <3>2. QED
      BY <1>12, <3>1
  <2>3. QED
    BY <2>1, <2>2, PartsSame
<1>16. ReadingOK(heap, top, stack, image, part, counter, ofs)
  BY <1>1 DEF BuildInv
<1>17. StackRow(heap, stack)
       /\ counter = ofs + 2 * (Begin(heap, stack) - heap[1].idx) + Len(stack) - 1
  BY <1>16 DEF ReadingOK
<1>18. PICK S : IsRead(heap, top, stack, image, part, S)
  BY <1>16 DEF ReadingOK
<1>19. /\ Len(stack) \in Nat \ {0} /\ Begin(heap, stack) = heap[v].idx
       /\ heap[v].idx \in Nat /\ End(heap[v]) \in Nat
  BY <1>1, <1>3, <1>17, StackTop
<1>20. heap[1].idx \in Nat
  BY <1>2, HeldFacts
<1>21. /\ StackRow(heap, stack')
       /\ counter + 1 = ofs + 2 * (Begin(heap, stack') - heap[1].idx) + Len(stack') - 1
       /\ \A j \in 1 .. Len(stack) - 1 : j \in 1 .. Len(stack') /\ stack'[j] = stack[j]
       /\ ~Leaf(heap[v]) => l \in OnStack(stack') /\ r \in OnStack(stack')
  <2>1. CASE Leaf(heap[v])
    <3>1. /\ Len(Front(stack)) = Len(stack) - 1
          /\ StackRow(heap, Front(stack))
          /\ Begin(heap, Front(stack)) = End(heap[v])
          /\ \A j \in 1 .. Len(stack) - 1 : Front(stack)[j] = stack[j]
      BY <1>1, <1>3, <1>17, StackPopped
    <3>2. stack' = Front(stack)
      BY <1>4, <2>1
    <3>3. heap[v].count = 1 /\ End(heap[v]) = heap[v].idx + 1
      <4>1. Grown(heap, top)
        BY <1>1 DEF BuildInv, Good
      <4>2. QED
        BY <1>4, <2>1, <4>1 DEF Grown, End
    <3>4. counter + 1 = ofs + 2 * (End(heap[v]) - heap[1].idx) + (Len(stack) - 1) - 1
      <4> DEFINE b == heap[v].idx
                 f == heap[1].idx
                 n == Len(stack)
      <4>1. /\ counter \in Int /\ ofs \in Int /\ b \in Int /\ f \in Int /\ n \in Int
            /\ counter = ofs + 2 * (b - f) + n - 1 /\ End(heap[v]) = b + 1
        BY <1>2, <1>17, <1>19, <1>20, <3>3
      <4> HIDE DEF b, f, n
      <4>2. counter + 1 = ofs + 2 * ((b + 1) - f) + (n - 1) - 1
        BY <4>1, EntriesCounted
      <4>3. QED
        BY <4>1, <4>2 DEF b, f, n
    <3>5. QED
      BY <2>1, <3>1, <3>2, <3>4
  <2>2. CASE ~Leaf(heap[v])
    <3>1. /\ l \in 1 .. top /\ r \in 1 .. top /\ SharedOut(heap[v], heap[l], heap[r])
          /\ heap[l].count \in Nat /\ heap[r].count \in Nat
      <4>1. l \in 1 .. top /\ r \in 1 .. top /\ SharedOut(heap[v], heap[l], heap[r])
        BY <1>3, <1>4, <2>2 DEF Shape, Linked, Child
      <4>2. QED
        BY <1>3, <4>1 DEF TreeNode
    <3>2. /\ heap[l].idx = heap[v].idx /\ End(heap[l]) = heap[r].idx
          /\ End(heap[r]) = End(heap[v])
          /\ heap[r].idx \in Int /\ heap[v].idx < heap[r].idx /\ heap[r].idx < End(heap[v])
      <4>1. heap[v].count \in Nat
        BY <1>3, <1>4 DEF TreeNode
      <4>2. QED
        BY <1>19, <3>1, <4>1, SMTT(20) DEF SharedOut, End
    <3>3. Opened(heap, stack, heap, top, r, l, Front(stack) \o <<r, l>>)
      <4>1. top <= top /\ \A a \in 1 .. top : heap[a].idx = heap[a].idx /\ End(heap[a]) = End(heap[a])
        BY <1>3
      <4>2. QED
        BY <1>1, <1>3, <1>17, <3>1, <3>2, <4>1, StackSplit
    <3>4. stack' = Front(stack) \o <<r, l>>
      BY <1>4, <2>2
    <3>5. /\ Len(stack') = Len(stack) + 1
          /\ StackRow(heap, stack')
          /\ Begin(heap, stack') = Begin(heap, stack)
          /\ \A j \in 1 .. Len(stack) - 1 : stack'[j] = stack[j]
          /\ stack'[Len(stack)] = r /\ stack'[Len(stack) + 1] = l
      BY <3>3, <3>4 DEF Opened
    <3>6. counter + 1 = ofs + 2 * (Begin(heap, stack) - heap[1].idx) + (Len(stack) + 1) - 1
      BY <1>2, <1>17, <1>19, <1>20
    <3>7. Len(stack) \in 1 .. Len(stack') /\ Len(stack) + 1 \in 1 .. Len(stack')
          /\ \A j \in 1 .. Len(stack) - 1 : j \in 1 .. Len(stack')
      BY <1>19, <3>5
    <3>8. l \in OnStack(stack') /\ r \in OnStack(stack')
      BY <3>5, <3>7 DEF OnStack
    <3>9. QED
      BY <3>5, <3>6, <3>7, <3>8
  <2>3. QED
    BY <2>1, <2>2
<1>26. \A j \in 1 .. Len(stack) - 1 : j \in 1 .. Len(stack') /\ stack'[j] = stack[j]
  <2> HIDE DEF l, r, v
  <2>1. QED
    BY <1>21
<1>27. ~Leaf(heap[v]) => l \in OnStack(stack') /\ r \in OnStack(stack')
  <2> HIDE DEF l, r, v
  <2>1. QED
    BY <1>21
<1> DEFINE T == S \cup {v}
<1>22. IsRead(heap, top, stack', image', part, T)
  <2>1. /\ S \in SUBSET (1 .. top)
        /\ 1 \in S \cup OnStack(stack) /\ Follows(heap, S, OnStack(stack))
        /\ MemoryOf(image, part) = [a \in Addresses |-> IF a \in S THEN heap[a] ELSE Blank]
    BY <1>18 DEF IsRead
  <2>2. \A x \in S \cup OnStack(stack) : x \in T \cup OnStack(stack')
    <3> TAKE x \in S \cup OnStack(stack)
    <3>1. CASE x \in S
      BY <3>1
    <3>2. CASE x \in OnStack(stack)
      <4>1. PICK j \in 1 .. Len(stack) : x = stack[j]
        BY <3>2 DEF OnStack
      <4>2. CASE j = Len(stack)
        BY <4>1, <4>2
      <4>3. CASE j # Len(stack)
        <5>1. j \in 1 .. Len(stack) - 1
          BY <1>19, <4>3
        <5>2. j \in 1 .. Len(stack') /\ stack'[j] = stack[j]
          BY <1>26, <5>1
        <5>4. j \in 1 .. Len(stack') /\ stack'[j] = x
          BY <4>1, <5>2
        <5>3. QED
          BY <5>4 DEF OnStack
      <4>4. QED
        BY <4>2, <4>3
    <3>3. QED
      BY <3>1, <3>2
  <2>3. T \in SUBSET (1 .. top)
    BY <1>4, <2>1
  <2>4. 1 \in T \cup OnStack(stack')
    BY <2>1, <2>2
  <2>5. Follows(heap, T, OnStack(stack'))
    <3> SUFFICES ASSUME NEW a \in T, ~Leaf(heap[a])
                 PROVE  heap[a].left \in T \cup OnStack(stack') /\ heap[a].right \in T \cup OnStack(stack')
      BY DEF Follows
    <3>1. CASE a \in S
      <4>1. heap[a].left \in S \cup OnStack(stack) /\ heap[a].right \in S \cup OnStack(stack)
        BY <2>1, <3>1 DEF Follows
      <4>2. QED
        BY <2>2, <4>1
    <3>2. CASE a = v
      <4>1. l \in OnStack(stack') /\ r \in OnStack(stack')
        BY <1>27, <3>2
      <4>2. QED
        BY <3>2, <4>1
    <3>3. QED
      BY <3>1, <3>2
  <2>6. MemoryOf(image', part) = [a \in Addresses |-> IF a \in T THEN heap[a] ELSE Blank]
    BY <1>8, <1>12, <2>1
  <2> HIDE DEF T
  <2>7. QED
    BY <2>3, <2>4, <2>5, <2>6 DEF IsRead
<1>23. ReadingOK(heap', top', stack', image', part', counter', ofs')
  <2>1. ReadingOK(heap, top, stack', image', part, counter + 1, ofs)
    BY <1>21, <1>22 DEF ReadingOK
  <2>2. QED
    BY <1>1, <1>7, <2>1
<1>24. stage' = "readout"
  BY <1>1
<1>25. QED
  BY <1>7, <1>13, <1>14, <1>15, <1>23, <1>24 DEF BuildInv

(* At the end of readout_tree the part is finished: nodes met from the     *)
(* root are all nodes, and the image has grown by TreeSize.                *)
LEMMA EndKeeps == BuildInv /\ EndTree => BuildInv'
<1> SUFFICES ASSUME BuildInv, EndTree PROVE BuildInv'
  OBVIOUS
<1>1. /\ stage = "readout" /\ stack = <<>> /\ stage' = "split" /\ part' = part + 1
      /\ ofs' = ofs + 2 * size - 1
      /\ points' = points /\ idx' = idx /\ calls' = calls /\ heap' = heap
      /\ node_addr' = node_addr /\ size' = size /\ counter' = counter /\ image' = image
  <2>1. ofs' = ofs + (2 * size - 1)
    BY DEF EndTree, TreeSize
  <2>2. ofs \in Nat /\ size \in Nat
    BY DEF BuildInv, TypesOK
  <2>3. ofs' = ofs + 2 * size - 1
    BY <2>1, <2>2
  <2>4. QED
    BY <2>3 DEF EndTree, nodes
<1>2. TypesOK /\ part \in Nat /\ ofs \in Nat /\ size \in Nat /\ counter \in Nat
  BY DEF BuildInv, TypesOK
<1>3. /\ top \in Addresses /\ top \in Nat /\ 1 \in 1 .. top /\ Shape(heap, top)
      /\ heap[1].idx \in Nat /\ size > 0 /\ End(heap[1]) = heap[1].idx + size
      /\ End(heap[1]) \in Nat
      /\ Finished = heap[1].idx /\ NextPart = part + 1 /\ Frontier(calls) = End(heap[1])
  BY <1>1, HeldFacts
<1>4. TypesOK'
  <2>1. ofs' \in Nat /\ part' \in Nat
    BY <1>1, <1>2, <1>3
  <2>2. QED
    BY <1>1, <1>2, <2>1 DEF TypesOK, Stages
<1>5. NextPart' = part + 1 /\ Finished' = End(heap[1])
  BY <1>1, <1>3 DEF NextPart, Finished
<1>6. CallsOK(points', idx', calls', NextPart')
  BY <1>1, <1>3, <1>5 DEF BuildInv
<1>7. Good(points, idx, heap, top) /\ ReadingOK(heap, top, stack, image, part, counter, ofs)
      /\ PartsOK(points, idx, image, part, Finished)
      /\ ImageOK(image, counter, part, stage, ofs, Finished)
  BY <1>1 DEF BuildInv, Written
<1>8. counter = ofs + 2 * size - 1
  <2>1. counter = ofs + 2 * (Begin(heap, stack) - heap[1].idx) + Len(stack) - 1
    BY <1>7 DEF ReadingOK
  <2>2. Len(stack) = 0 /\ Begin(heap, stack) = heap[1].idx + size
    BY <1>1, <1>3 DEF Begin
  <2>3. \A b \in Int : (b + size) - b = size /\ ofs + 2 * size + 0 - 1 = ofs + 2 * size - 1
    BY <1>2
  <2>4. (heap[1].idx + size) - heap[1].idx = size
    BY <1>3, <2>3
  <2>5. QED
    BY <1>2, <2>1, <2>2, <2>4
<1>9. PICK S : IsRead(heap, top, stack, image, part, S)
  BY <1>7 DEF ReadingOK
<1>10. OnStack(stack) = {}
  BY <1>1 DEF OnStack
<1>11. S = 1 .. top
  <2>1. S \in SUBSET (1 .. top) /\ 1 \in S /\ Follows(heap, S, {})
    BY <1>9, <1>10 DEF IsRead
  <2>2. QED
    BY <1>3, <2>1, FollowsAll
<1> DEFINE m == MemoryOf(image, part)
<1>12. m = [a \in Addresses |-> IF a \in 1 .. top THEN heap[a] ELSE Blank]
  BY <1>9, <1>11 DEF IsRead
<1>13. \A a \in 1 .. top : a \in Addresses /\ m[a] = heap[a]
  <2>1. \A a \in 1 .. top : a \in Addresses
    BY <1>3, DataAssumption DEF Addresses
  <2> HIDE DEF m
  <2>2. QED
    BY <1>12, <2>1
<1>14. \A a \in Addresses : top < a => m[a] = Blank
  <2> HIDE DEF m
  <2>1. \A a \in Addresses : top < a => a \notin 1 .. top
    BY <1>3
  <2>2. QED
    BY <1>12, <2>1
<1>15. PartDone(points, idx, m)
  <2> HIDE DEF m
  <2>1. Good(points, idx, m, top)
    BY <1>3, <1>7, <1>13, GoodSame
  <2>2. QED
    BY <1>3, <1>14, <2>1 DEF PartDone
<1>16. m[1] = heap[1]
  BY <1>3, <1>13
<1>17. PartsOK(points, idx, image, part + 1, End(heap[1]))
  <2>1. PartDone(points, idx, MemoryOf(image, part)) /\ MemoryOf(image, part)[1] = heap[1]
        /\ MemoryOf(image, part)[1].idx = Finished /\ Finished \in Nat
    BY <1>3, <1>15, <1>16
  <2>2. PartsOK(points, idx, image, part + 1, End(MemoryOf(image, part)[1]))
    <3> DEFINE fin == Finished
    <3>1. fin \in Nat /\ PartsOK(points, idx, image, part, fin)
          /\ MemoryOf(image, part)[1].idx = fin
      BY <1>7, <2>1
    <3> HIDE DEF fin
    <3>2. QED
      BY <1>2, <2>1, <3>1, PartsMore
  <2>3. QED
    BY <2>1, <2>2
<1>18. ImageOK(image', Written', part', stage', ofs', Finished')
  <2>1. Written' = counter
    BY <1>1, <1>8 DEF Written
  <2>2. /\ image \in [0 .. counter - 1 -> Entry]
        /\ \A j \in 0 .. counter - 1 : image[j].part <= part
        /\ ofs = 2 * Finished - part
    BY <1>7 DEF ImageOK
  <2>3. \A j \in 0 .. counter - 1 : image[j].part <= part + 1 /\ image[j].part # part + 1
    <3> TAKE j \in 0 .. counter - 1
    <3>1. image[j].part \in Nat /\ image[j].part <= part
      BY <2>2 DEF Entry
    <3>2. QED
      BY <1>2, <3>1
  <2>4. ofs' = 2 * End(heap[1]) - (part + 1)
    <3> DEFINE b == heap[1].idx
    <3>1. b \in Int /\ ofs = 2 * b - part /\ End(heap[1]) = b + size /\ ofs' = ofs + 2 * size - 1
      <4>1. Finished = b /\ b \in Int /\ End(heap[1]) = b + size
        BY <1>3
      <4> HIDE DEF b
      <4>2. ofs = 2 * b - part
        BY <2>2, <4>1
      <4>3. ofs' = ofs + 2 * size - 1
        BY <1>1
      <4>4. QED
        BY <4>1, <4>2, <4>3
    <3> HIDE DEF b
    <3>2. QED
      BY <1>2, <3>1
  <2>5. QED
    BY <1>1, <1>5, <2>1, <2>2, <2>3, <2>4 DEF ImageOK
<1>19. PartsOK(points', idx', image', part', Finished')
  BY <1>1, <1>5, <1>17
<1>20. QED
  BY <1>1, <1>4, <1>6, <1>18, <1>19 DEF BuildInv

------------------------------------------------------------------------------
(* update_sums keeps it.                                                   *)

(* A sequence with one more element.                                       *)
LEMMA PushedIs ==
  ASSUME NEW S, NEW st \in Seq(S), NEW a \in S
  PROVE  /\ Append(st, a) \in Seq(S) /\ Len(Append(st, a)) = Len(st) + 1
         /\ \A j \in 1 .. Len(st) : Append(st, a)[j] = st[j]
         /\ Append(st, a)[Len(st) + 1] = a
OBVIOUS

(* The child c of the node on top is pushed: the left one, or the right    *)
(* one when the left one has its sums.                                     *)
LEMMA PathDown ==
  ASSUME NEW h, NEW t \in Nat, NEW st \in Seq(1 .. t), st # <<>>, NEW pv, NEW S,
         Path(h, st, pv, S), NEW c \in 1 .. t, ~Leaf(h[st[Len(st)]]),
         \/ c = h[st[Len(st)]].left
         \/ c = h[st[Len(st)]].right /\ h[st[Len(st)]].left \in S
  PROVE  /\ Append(st, c) \in Seq(1 .. t) /\ Append(st, c) # <<>>
         /\ Path(h, Append(st, c), st[Len(st)], S)
<1> DEFINE s == Append(st, c)
           m == Len(st)
<1>1. /\ m \in Nat \ {0} /\ s \in Seq(1 .. t) /\ Len(s) = m + 1
      /\ \A j \in 1 .. m : s[j] = st[j]
      /\ s[m + 1] = c
  <2>1. m \in Nat \ {0}
    OBVIOUS
  <2> DEFINE Q == 1 .. t
  <2>2. st \in Seq(Q) /\ c \in Q
    OBVIOUS
  <2> HIDE DEF Q
  <2>3. /\ Append(st, c) \in Seq(Q) /\ Len(Append(st, c)) = Len(st) + 1
        /\ \A j \in 1 .. Len(st) : Append(st, c)[j] = st[j]
        /\ Append(st, c)[Len(st) + 1] = c
    BY <2>2, PushedIs
  <2>4. QED
    BY <2>1, <2>3 DEF Q
<1> HIDE DEF s
<1>2. 1 \in 1 .. m /\ m \in 1 .. m
  BY <1>1
<1>3. st[1] = 1 /\ s[1] = 1
  BY <1>1, <1>2 DEF Path
<1>4. \A j \in 1 .. Len(s) - 1 :
        /\ ~Leaf(h[s[j]])
        /\ \/ s[j + 1] = h[s[j]].left
           \/ s[j + 1] = h[s[j]].right /\ h[s[j]].left \in S
  <2> TAKE j \in 1 .. Len(s) - 1
  <2>1. j \in 1 .. m /\ s[j] = st[j]
    BY <1>1
  <2>2. CASE j = m
    BY <1>1, <2>1, <2>2
  <2>3. CASE j # m
    <3>1. j \in 1 .. m - 1 /\ j + 1 \in 1 .. m
      BY <1>1, <2>1, <2>3
    <3>2. s[j + 1] = st[j + 1]
      BY <1>1, <3>1
    <3>3. QED
      BY <2>1, <3>1, <3>2 DEF Path
  <2>4. QED
    BY <2>2, <2>3
<1>5. Len(s) # 1 /\ Len(s) - 1 = m /\ s[Len(s) - 1] = st[m]
  BY <1>1, <1>2
<1>6. ComesFrom(h, s[Len(s)], IF Len(s) = 1 THEN NoNode ELSE s[Len(s) - 1], st[m], S)
  BY <1>5 DEF ComesFrom
<1>7. s # <<>>
  BY <1>1
<1>8. Path(h, s, st[m], S)
  BY <1>3, <1>4, <1>6 DEF Path
<1>9. QED
  BY <1>1, <1>7, <1>8 DEF s

(* The node on top has its sums and is popped.                             *)
LEMMA PathUp ==
  ASSUME NEW h, NEW t \in Nat, NEW st \in Seq(1 .. t), st # <<>>, NEW pv, NEW S,
         Path(h, st, pv, S), NEW g, \A a \in 1 .. t : SameCell(h[a], g[a])
  PROVE  LET v == st[Len(st)]
         IN  IF Front(st) = <<>> THEN v = 1
             ELSE Path(g, Front(st), v, S \cup {v})
<1> DEFINE m == Len(st)
           s == Front(st)
           v == st[m]
           T == S \cup {v}
<1>1. /\ m \in Nat \ {0} /\ s \in Seq(1 .. t) /\ Len(s) = m - 1
      /\ \A j \in 1 .. m - 1 : s[j] = st[j]
      /\ \A j \in 1 .. m : st[j] \in 1 .. t
  BY FrontIs
<1> HIDE DEF s
<1>2. CASE s = <<>>
  <2>1. m = 1
    BY <1>1, <1>2
  <2>2. st[1] = 1
    BY DEF Path
  <2>3. QED
    BY <1>2, <2>1, <2>2 DEF s
<1>3. CASE s # <<>>
  <2>1. m - 1 \in 1 .. m - 1 /\ m - 1 \in Nat \ {0} /\ 1 \in 1 .. m - 1 /\ (m - 1) + 1 = m
    BY <1>1, <1>3
  <2>2. \A a \in 1 .. t : g[a].left = h[a].left /\ g[a].right = h[a].right
                          /\ (Leaf(g[a]) <=> Leaf(h[a]))
    BY DEF SameCell, Leaf
  <2>3. s[1] = 1
    BY <1>1, <2>1 DEF Path
  <2>4. \A j \in 1 .. Len(s) - 1 :
          /\ ~Leaf(g[s[j]])
          /\ \/ s[j + 1] = g[s[j]].left
             \/ s[j + 1] = g[s[j]].right /\ g[s[j]].left \in T
    <3> TAKE j \in 1 .. Len(s) - 1
    <3>1. j \in 1 .. m - 1 /\ j + 1 \in 1 .. m - 1 /\ j \in 1 .. m
      BY <1>1
    <3>2. s[j] = st[j] /\ s[j + 1] = st[j + 1] /\ st[j] \in 1 .. t
      BY <1>1, <3>1
    <3>3. /\ ~Leaf(h[st[j]])
          /\ \/ st[j + 1] = h[st[j]].left
             \/ st[j + 1] = h[st[j]].right /\ h[st[j]].left \in S
      BY <3>1 DEF Path
    <3>4. QED
      BY <2>2, <3>2, <3>3
  <2>5. ComesFrom(g, s[Len(s)], IF Len(s) = 1 THEN NoNode ELSE s[Len(s) - 1], v, T)
    <3>1. Len(s) = m - 1 /\ s[m - 1] = st[m - 1] /\ st[m - 1] \in 1 .. t
      <4> DEFINE n == m - 1
      <4>1. n \in 1 .. n /\ n \in 1 .. m /\ Len(s) = n /\ \A j \in 1 .. n : s[j] = st[j]
        BY <1>1, <2>1
      <4> HIDE DEF n
      <4>2. Len(s) = n /\ s[n] = st[n] /\ st[n] \in 1 .. t
        BY <1>1, <4>1
      <4>3. QED
        BY <4>2 DEF n
    <3>2. /\ ~Leaf(h[st[m - 1]])
          /\ \/ st[(m - 1) + 1] = h[st[m - 1]].left
             \/ st[(m - 1) + 1] = h[st[m - 1]].right /\ h[st[m - 1]].left \in S
      BY <2>1 DEF Path
    <3>3. v = h[st[m - 1]].left \/ (v = h[st[m - 1]].right /\ h[st[m - 1]].left \in S)
      BY <2>1, <3>2
    <3>4. QED
      BY <2>2, <3>1, <3>2, <3>3, SMTT(20) DEF ComesFrom
  <2>6. Path(g, s, v, T)
    BY <2>3, <2>4, <2>5 DEF Path
  <2>7. QED
    BY <1>3, <2>6 DEF s
<1>4. QED
  BY <1>2, <1>3

(* The sums are numbers.                                                   *)
LEMMA SumsType ==
  ASSUME BuildInv, stage = "sums", NEW v \in 1 .. top
  PROVE  Sums(v).wgtCent \in [Dims -> Int] /\ Sums(v).sum_sq \in Int
<1>1. Shape(heap, top) /\ top \in Nat /\ points \in [All -> Point] /\ idx \in [All -> All]
      /\ End(heap[1]) <= N /\ End(heap[1]) \in Nat
  BY HeldFacts
<1>2. \A y \in Int : Ext(y) \in Int
  BY WrapRange, WidthAssumption DEF Ext, Wrap
<1>3. CASE Leaf(heap[v])
  <2> DEFINE x == points[idx[heap[v].idx]]
  <2>1. heap[v].idx \in All
    <3>1. heap[v].idx \in Nat /\ heap[v].count \in Nat /\ heap[v].count > 0
          /\ End(heap[v]) = heap[v].idx + heap[v].count /\ End(heap[v]) <= End(heap[1])
      BY <1>1, NodeOf
    <3>2. QED
      BY <1>1, <3>1, DataAssumption, SMTT(20) DEF All
  <2>2. x \in Point
    BY <1>1, <2>1
  <2>3. x \in [Dims -> Int] /\ x[0] \in Int /\ x[1] \in Int
    <3>1. \A d \in Dims : x[d] \in Int
      BY <2>2, WidthAssumption DEF Point, Coord
    <3> HIDE DEF x
    <3>2. x \in [Dims -> Int]
      BY <2>2, <3>1 DEF Point
    <3>3. QED
      BY <3>1, <3>2, DimsAre
  <2> HIDE DEF x
  <2>4. dot_product_tb(x) \in Int
    <3>1. x[0] * x[0] \in Int /\ x[1] * x[1] \in Int
      BY <2>3
    <3>2. Square(x[0]) + (IF x[0] < 0 THEN 1 ELSE 0) + Square(x[1]) \in Int
      BY <2>3, <3>1 DEF Square
    <3>3. QED
      BY <1>2, <3>2 DEF dot_product_tb
  <2>5. Sums(v) = [wgtCent |-> x, sum_sq |-> dot_product_tb(x)]
    BY <1>3 DEF Sums, Leaf, x
  <2>6. QED
    BY <2>3, <2>4, <2>5
<1>4. CASE ~Leaf(heap[v])
  <2> DEFINE l == heap[heap[v].left]
             r == heap[heap[v].right]
  <2>1. l \in TreeNode /\ r \in TreeNode
    <3>1. heap[v].left \in 1 .. top /\ heap[v].right \in 1 .. top
      BY <1>1, <1>4 DEF Shape, Linked, Child
    <3>2. QED
      BY <1>1, <3>1, NodeOf
  <2>2. Sums(v) = [wgtCent |-> [d \in Dims |-> Ext(l.wgtCent[d] + r.wgtCent[d])],
                   sum_sq |-> Ext(l.sum_sq + r.sum_sq)]
    BY <1>4 DEF Sums, Leaf
  <2> HIDE DEF l, r
  <2>3. \A d \in Dims : l.wgtCent[d] + r.wgtCent[d] \in Int
    BY <2>1 DEF TreeNode
  <2>4. l.sum_sq + r.sum_sq \in Int
    BY <2>1 DEF TreeNode
  <2>5. QED
    BY <1>2, <2>2, <2>3, <2>4
<1>5. QED
  BY <1>3, <1>4

(* update_sums: prev, and the links of the node it names, always tell      *)
(* where the traversal comes from.                                         *)
LEMMA SumsKeep == BuildInv /\ UpdateSums => BuildInv'
<1> SUFFICES ASSUME BuildInv, UpdateSums PROVE BuildInv'
  OBVIOUS
<1> DEFINE v == stack[Len(stack)]
<1>1. /\ stage = "sums" /\ stack # <<>> /\ stage' = stage
      /\ points' = points /\ idx' = idx /\ calls' = calls /\ part' = part /\ ofs' = ofs
      /\ node_addr' = node_addr /\ size' = size /\ counter' = counter /\ image' = image
  BY DEF UpdateSums
<1>2. stage # "split" /\ stage' \in Stages \ {"split"} /\ counter' \in Nat
  BY <1>1 DEF BuildInv, TypesOK, Stages
<1>3. /\ Shape(heap, top) /\ top \in Nat /\ stack \in Seq(1 .. top) /\ heap \in Heaps
      /\ top \in Addresses /\ points \in [All -> Point] /\ idx \in [All -> All]
      /\ End(heap[1]) <= N
      /\ \A a \in 1 .. top : heap[a] \in TreeNode
  BY <1>2, HeldFacts, NodeOf DEF BuildInv, TypesOK
<1>4. /\ Last(stack) = v /\ v \in 1 .. top /\ Front(stack) \in Seq(1 .. top)
      /\ Len(stack) \in Nat \ {0} /\ Len(Front(stack)) = Len(stack) - 1
      /\ \A j \in 1 .. Len(stack) : stack[j] \in 1 .. top
  BY <1>1, <1>3, FrontIs
<1>5. /\ \/ /\ FromAbove(v)
            /\ Push(IF heap[v].left # NoNode THEN heap[v].left ELSE heap[v].right)
            /\ UNCHANGED heap
         \/ FromLeft(v) /\ Push(heap[v].right) /\ UNCHANGED heap
         \/ /\ ~FromAbove(v) /\ ~FromLeft(v)
            /\ stack' = Front(stack)
            /\ heap' = [heap EXCEPT ![v].wgtCent = Sums(v).wgtCent,
                                    ![v].sum_sq = Sums(v).sum_sq]
      /\ prev' = v
  BY <1>4 DEF UpdateSums
<1>6. SummingOK(points, idx, heap, top, stack, prev)
  BY <1>1 DEF BuildInv
<1>7. Grown(heap, top)
  BY <1>6 DEF SummingOK
<1>8. PICK S : Summed(points, idx, heap, top, stack, prev, S)
  BY <1>6 DEF SummingOK
<1>9. /\ S \in SUBSET (1 .. top) /\ Follows(heap, S, {})
      /\ \A a \in S : SumOK(points, idx, heap[a])
      /\ Path(heap, stack, prev, S)
  BY <1>1, <1>8 DEF Summed
<1>10. ComesFrom(heap, v, IF Len(stack) = 1 THEN NoNode ELSE stack[Len(stack) - 1], prev, S)
  BY <1>9 DEF Path
<1> DEFINE l == heap[v].left
           r == heap[v].right
           cell == [heap[v] EXCEPT !.wgtCent = Sums(v).wgtCent, !.sum_sq = Sums(v).sum_sq]
<1>11. \/ Leaf(heap[v]) /\ l = NoNode /\ r = NoNode
       \/ /\ ~Leaf(heap[v]) /\ l \in v + 1 .. top /\ r \in v + 1 .. top /\ l # r
          /\ l # NoNode /\ r # NoNode /\ l \in 1 .. top /\ r \in 1 .. top
  <2>1. Leaf(heap[v]) \/ (l \in v + 1 .. top /\ r \in v + 1 .. top /\ l # r)
    BY <1>3, <1>4, NodeOf
  <2>2. QED
    BY <1>3, <1>4, <2>1 DEF Leaf, NoNode
<1> HIDE DEF l, r
<1>13. ASSUME UNCHANGED heap, NEW c \in 1 .. top, stack' = Append(stack, c), ~Leaf(heap[v]),
              c = l \/ (c = r /\ l \in S)
       PROVE  stack' \in Seq(1 .. top) /\ SummingOK(points, idx, heap', top, stack', prev')
  <2>1. /\ Append(stack, c) \in Seq(1 .. top) /\ Append(stack, c) # <<>>
        /\ Path(heap, Append(stack, c), stack[Len(stack)], S)
    <3> DEFINE t == top
               h == heap
               st == stack
               pv == prev
    <3>1. t \in Nat /\ st \in Seq(1 .. t) /\ st # <<>> /\ Path(h, st, pv, S) /\ c \in 1 .. t
          /\ ~Leaf(h[st[Len(st)]])
          /\ \/ c = h[st[Len(st)]].left
             \/ c = h[st[Len(st)]].right /\ h[st[Len(st)]].left \in S
      BY <1>1, <1>3, <1>9, <1>13 DEF l, r
    <3> HIDE DEF t, h, st, pv
    <3>2. /\ Append(st, c) \in Seq(1 .. t) /\ Append(st, c) # <<>>
          /\ Path(h, Append(st, c), st[Len(st)], S)
      BY <3>1, PathDown
    <3>3. QED
      BY <3>2 DEF t, h, st
  <2>2. Summed(points, idx, heap, top, stack', v, S)
    BY <1>9, <1>13, <2>1 DEF Summed
  <2>3. QED
    BY <1>5, <1>7, <1>13, <2>1, <2>2 DEF SummingOK
<1>14. /\ stack' \in Seq(1 .. top) /\ heap' \in Heaps
       /\ \A a \in 1 .. top : SameCell(heap[a], heap'[a])
       /\ SummingOK(points, idx, heap', top, stack', prev')
  <2>1. UNCHANGED heap => heap' \in Heaps /\ \A a \in 1 .. top : SameCell(heap[a], heap'[a])
    BY <1>3 DEF SameCell
  <2>2. CASE FromAbove(v) /\ Push(IF l # NoNode THEN l ELSE r) /\ UNCHANGED heap
    <3>1. CASE Leaf(heap[v])
      <4>1. stack' = stack
        BY <1>11, <2>2, <3>1 DEF Push
      <4>2. ComesFrom(heap, v, IF Len(stack) = 1 THEN NoNode ELSE stack[Len(stack) - 1], v, S)
        BY <3>1 DEF ComesFrom
      <4>3. Path(heap, stack, v, S)
        BY <1>9, <4>2 DEF Path
      <4>4. Summed(points, idx, heap, top, stack, v, S)
        BY <1>1, <1>9, <4>3 DEF Summed
      <4>5. QED
        BY <1>3, <1>5, <1>7, <2>1, <2>2, <4>1, <4>4 DEF SummingOK
    <3>2. CASE ~Leaf(heap[v])
      <4>1. stack' = Append(stack, l) /\ l \in 1 .. top
        BY <1>11, <2>2, <3>2 DEF Push
      <4>2. QED
        BY <1>13, <2>1, <2>2, <3>2, <4>1
    <3>3. QED
      BY <2>1, <2>2, <3>1, <3>2
  <2>3. CASE FromLeft(v) /\ Push(r) /\ UNCHANGED heap
    <3>1. ~FromAbove(v) /\ l = prev /\ prev # NoNode
      BY <2>3 DEF FromLeft, FromAbove, l
    <3>2. ~Leaf(heap[v])
      BY <1>11, <3>1
    <3>3. l \in S
      <4>1. CASE prev = IF Len(stack) = 1 THEN NoNode ELSE stack[Len(stack) - 1]
        <5>1. Len(stack) # 1 /\ prev = stack[Len(stack) - 1]
          BY <3>1, <4>1
        <5>2. Len(stack) - 1 \in 1 .. Len(stack) - 1 /\ (Len(stack) - 1) + 1 = Len(stack)
          BY <1>4, <5>1
        <5>3. v = heap[prev].left \/ v = heap[prev].right
          BY <1>9, <5>1, <5>2 DEF Path
        <5>4. QED
          BY <3>1, <5>3 DEF FromAbove
      <4>2. CASE prev # IF Len(stack) = 1 THEN NoNode ELSE stack[Len(stack) - 1]
        <5>1. l # r
          BY <1>11, <3>2
        <5>2. QED
          BY <1>10, <3>1, <3>2, <4>2, <5>1 DEF ComesFrom, l, r
      <4>3. QED
        BY <4>1, <4>2
    <3>4. stack' = Append(stack, r) /\ r \in 1 .. top
      BY <1>11, <2>3, <3>2 DEF Push
    <3>5. QED
      BY <1>13, <2>1, <2>3, <3>2, <3>3, <3>4
  <2>4. CASE /\ ~FromAbove(v) /\ ~FromLeft(v) /\ stack' = Front(stack)
             /\ heap' = [heap EXCEPT ![v].wgtCent = Sums(v).wgtCent,
                                     ![v].sum_sq = Sums(v).sum_sq]
    <3>1. Leaf(heap[v]) \/ (l \in S /\ r \in S)
      <4>1. CASE prev = IF Len(stack) = 1 THEN NoNode ELSE stack[Len(stack) - 1]
        <5>1. Len(stack) # 1 /\ prev = stack[Len(stack) - 1]
          BY <2>4, <4>1 DEF FromAbove
        <5>2. Len(stack) - 1 \in 1 .. Len(stack) - 1 /\ (Len(stack) - 1) + 1 = Len(stack)
          BY <1>4, <5>1
        <5>3. v = heap[prev].left \/ v = heap[prev].right
          BY <1>9, <5>1, <5>2 DEF Path
        <5>4. QED
          BY <2>4, <5>3 DEF FromAbove
      <4>2. CASE prev # IF Len(stack) = 1 THEN NoNode ELSE stack[Len(stack) - 1]
        BY <1>10, <2>4, <4>2 DEF ComesFrom, FromLeft, l, r
      <4>3. QED
        BY <4>1, <4>2
    <3>2. /\ cell \in TreeNode /\ SameCell(heap[v], cell) /\ cell.wgtCent = Sums(v).wgtCent
      <4>1. heap[v] \in TreeNode
        BY <1>3, <1>4
      <4>2. Sums(v).wgtCent \in [Dims -> Int] /\ Sums(v).sum_sq \in Int
        BY <1>1, <1>4, SumsType
      <4>3. QED
        BY <4>1, <4>2 DEF TreeNode, SameCell
    <3>3. heap' = [heap EXCEPT ![v] = cell]
      BY <1>3, <2>4 DEF Heaps
    <3> HIDE DEF cell
    <3>4. v \in Addresses /\ \A a \in 1 .. top : a \in Addresses
      BY <1>3, <1>4, DataAssumption DEF Addresses
    <3>5. heap' \in Heaps
      BY <1>3, <3>2, <3>3 DEF Heaps
    <3>6. \A a \in 1 .. top : heap'[a] = IF a = v THEN cell ELSE heap[a]
      BY <1>3, <3>3, <3>4 DEF Heaps
    <3>7. \A a \in 1 .. top : SameCell(heap[a], heap'[a])
      BY <1>3, <3>2, <3>6 DEF SameCell
    <3> DEFINE T == S \cup {v}
    <3>8. Follows(heap', T, {})
      <4> SUFFICES ASSUME NEW a \in T, ~Leaf(heap'[a])
                   PROVE  heap'[a].left \in T /\ heap'[a].right \in T
        BY DEF Follows
      <4>1. a \in 1 .. top
        BY <1>4, <1>9
      <4>2. heap'[a].left = heap[a].left /\ heap'[a].right = heap[a].right /\ ~Leaf(heap[a])
        BY <3>7, <4>1 DEF SameCell, Leaf
      <4>3. CASE a \in S
        BY <1>9, <4>2, <4>3 DEF Follows
      <4>4. CASE a = v
        BY <3>1, <4>2, <4>4 DEF l, r
      <4>5. QED
        BY <4>3, <4>4
    <3>9. \A a \in T : SumOK(points, idx, heap'[a])
      <4>1. SumOK(points, idx, cell)
        <5> DEFINE h == heap
                   t == top
                   w == Sums(v).wgtCent
                   x == idx
                   pts == points
        <5>1. /\ t \in Nat /\ Shape(h, t) /\ Grown(h, t) /\ End(h[1]) <= N
              /\ pts \in [All -> Point] /\ x \in [All -> All] /\ v \in 1 .. t
              /\ cell.idx = h[v].idx /\ cell.count = h[v].count
              /\ cell.left = h[v].left /\ cell.right = h[v].right /\ cell.wgtCent = w
          BY <1>3, <1>4, <1>7, <3>2 DEF SameCell
        <5>2. IF Leaf(h[v]) THEN w = pts[x[h[v].idx]]
              ELSE /\ SumOK(pts, x, h[h[v].left]) /\ SumOK(pts, x, h[h[v].right])
                   /\ w = [d \in Dims |-> Ext(h[h[v].left].wgtCent[d] + h[h[v].right].wgtCent[d])]
          <6>1. CASE Leaf(heap[v])
            BY <6>1 DEF Sums, Leaf
          <6>2. CASE ~Leaf(heap[v])
            <7>1. SumOK(points, idx, heap[heap[v].left]) /\ SumOK(points, idx, heap[heap[v].right])
              BY <1>9, <3>1, <6>2 DEF l, r
            <7>2. Sums(v).wgtCent = [d \in Dims |-> Ext(heap[heap[v].left].wgtCent[d]
                                                        + heap[heap[v].right].wgtCent[d])]
              BY <6>2 DEF Sums, Leaf
            <7>3. QED
              BY <6>2, <7>1, <7>2
          <6>3. QED
            BY <6>1, <6>2
        <5> HIDE DEF h, t, w, x, pts
        <5>3. SumOK(pts, x, cell)
          BY <5>1, <5>2, SumsOfNode
        <5>4. QED
          BY <5>3 DEF pts, x
      <4>2. QED
        BY <1>4, <1>9, <3>6, <4>1
    <3>10. IF Front(stack) = <<>> THEN v = 1 ELSE Path(heap', Front(stack), v, T)
      <4> DEFINE h == heap
                 t == top
                 st == stack
                 pv == prev
                 g == heap'
      <4>1. /\ t \in Nat /\ st \in Seq(1 .. t) /\ st # <<>> /\ Path(h, st, pv, S)
            /\ \A a \in 1 .. t : SameCell(h[a], g[a])
        BY <1>1, <1>3, <1>9, <3>7
      <4> HIDE DEF h, t, st, pv, g
      <4>2. IF Front(st) = <<>> THEN st[Len(st)] = 1
            ELSE Path(g, Front(st), st[Len(st)], S \cup {st[Len(st)]})
        BY <4>1, PathUp
      <4>3. QED
        BY <4>2 DEF h, t, st, pv, g
    <3>11. T \in SUBSET (1 .. top) /\ v \in T
      BY <1>4, <1>9
    <3> HIDE DEF T, v
    <3>12. Summed(points, idx, heap', top, Front(stack), v, T)
      BY <3>8, <3>9, <3>10, <3>11 DEF Summed
    <3>13. Grown(heap', top)
      BY <1>3, <1>7, <3>7, SameCells
    <3>14. SummingOK(points, idx, heap', top, stack', prev')
      BY <1>5, <2>4, <3>12, <3>13 DEF SummingOK
    <3>15. QED
      BY <1>4, <2>4, <3>5, <3>7, <3>14
  <2>5. QED
    BY <1>5, <2>2, <2>3, <2>4 DEF l, r
<1>15. /\ TypesOK' /\ HeldOK' /\ top' = top
       /\ CallsOK(points', idx', calls', NextPart')
       /\ Finished' = Finished
       /\ PartsOK(points', idx', image, part', Finished')
  BY <1>1, <1>2, <1>14, KeepsTree
<1>16. ImageOK(image', Written', part', stage', ofs', Finished')
  <2>1. ImageOK(image, Written, part, stage, ofs, Finished)
    BY DEF BuildInv
  <2>2. Written' = Written
    BY <1>1 DEF Written
  <2>3. QED
    BY <1>1, <1>15, <2>1, <2>2
<1>17. SummingOK(points', idx', heap', top', stack', prev')
  BY <1>1, <1>14, <1>15
<1>18. PartsOK(points', idx', image', part', Finished') /\ stage' = "sums"
  BY <1>1, <1>15
<1>19. QED
  BY <1>15, <1>16, <1>17, <1>18 DEF BuildInv

------------------------------------------------------------------------------
(* The calls keep it.                                                      *)

(* The next call begins its part's tree.                                   *)
LEMMA CallsPopped ==
  ASSUME NEW pts, NEW ix, NEW cs, NEW w \in Int, CallsOK(pts, ix, cs, w), cs # <<>>
  PROVE  /\ CallsOK(pts, ix, Front(cs), w + P \div cs[Len(cs)].p)
         /\ Frontier(Front(cs)) = cs[Len(cs)].index + cs[Len(cs)].n
<1> DEFINE m == Len(cs)
           q == Front(cs)
           z == w + P \div cs[m].p
           f == CallStart(cs)
           g == CallEnd(cs)
           F == CallStart(q)
           G == CallEnd(q)
<1>1. /\ m \in Nat \ {0} /\ q \in Seq(CallType) /\ Len(q) = m - 1
      /\ \A j \in 1 .. m - 1 : q[j] = cs[j]
      /\ m \in 1 .. m /\ m - 1 \in 0 .. m
  <2>1. cs \in Seq(CallType)
    BY DEF CallsOK
  <2>2. m \in Nat \ {0} /\ q \in Seq(CallType) /\ Len(q) = m - 1
        /\ \A j \in 1 .. m - 1 : q[j] = cs[j]
    BY <2>1, FrontIs
  <2>3. QED
    BY <2>2
<1>2. Row(f, g, m, N)
  BY DEF CallsOK
<1>3. \A j \in 1 .. m : f[j] = cs[j].index /\ g[j] = cs[j].index + cs[j].n
  <2>1. DOMAIN cs = 1 .. m
    BY DEF CallsOK
  <2>2. QED
    BY <2>1 DEF CallStart, CallEnd
<1> HIDE DEF q
<1>4. \A j \in 1 .. m - 1 : F[j] = q[j].index /\ G[j] = q[j].index + q[j].n
  <2>1. DOMAIN q = 1 .. m - 1
    BY <1>1
  <2>2. QED
    BY <2>1 DEF CallStart, CallEnd
<1> HIDE DEF f, g, F, G, z
<1>5. \A j \in 1 .. m - 1 : F[j] = f[j] /\ G[j] = g[j]
  <2> TAKE j \in 1 .. m - 1
  <2>1. j \in 1 .. m /\ q[j] = cs[j]
    BY <1>1
  <2>2. QED
    BY <1>3, <1>4, <2>1
<1>6. Row(F, G, m - 1, N)
  <2> DEFINE n == m - 1
             e == N
  <2>1. m \in Nat /\ n \in 0 .. m /\ Row(f, g, m, e) /\ \A j \in 1 .. n : F[j] = f[j] /\ G[j] = g[j]
    BY <1>1, <1>2, <1>5
  <2> HIDE DEF n, m, e
  <2>2. Row(F, G, n, e)
    BY <2>1, RowSame
  <2>3. QED
    BY <2>2 DEF n, e
<1>7. g[m] = IF m = 1 THEN N ELSE f[m - 1]
  <2> DEFINE e == N
  <2>1. m \in Nat \ {0} /\ e \in Int /\ Row(f, g, m, e)
    BY <1>1, <1>2, DataAssumption
  <2> HIDE DEF m, e
  <2>2. RowEnds(f, g, m, e)
    BY <2>1, RowEnd
  <2>3. QED
    BY <2>2 DEF e, RowEnds
<1>8. \A j \in 1 .. Len(q) : /\ q[j].p <= P
                            /\ PointsIn(pts, ix, q[j].index, q[j].index + q[j].n, q[j].lo, q[j].hi)
  <2> TAKE j \in 1 .. Len(q)
  <2>1. j \in 1 .. m /\ q[j] = cs[j]
    BY <1>1
  <2>2. QED
    BY <2>1 DEF CallsOK
<1>9. PICK at \in [1 .. m + 1 -> 0 .. P] :
        /\ at[1] = P /\ at[m + 1] = w
        /\ \A j \in 1 .. m : at[j] = at[j + 1] + P \div cs[j].p
  BY DEF CallsOK
<1>10. \E b \in [1 .. Len(q) + 1 -> 0 .. P] :
         /\ b[1] = P /\ b[Len(q) + 1] = z
         /\ \A j \in 1 .. Len(q) : b[j] = b[j + 1] + P \div q[j].p
  <2> DEFINE b == [j \in 1 .. m |-> at[j]]
  <2>1. Len(q) + 1 = m /\ 1 \in 1 .. m
    BY <1>1
  <2>2. b \in [1 .. m -> 0 .. P]
    <3>1. \A j \in 1 .. m : j \in 1 .. m + 1
      BY <1>1
    <3>2. QED
      BY <1>9, <3>1
  <2>3. \A j \in 1 .. m : b[j] = at[j]
    OBVIOUS
  <2> HIDE DEF b
  <2>4. b[m] = z
    BY <1>1, <1>9, <2>3 DEF z
  <2>5. \A j \in 1 .. Len(q) : b[j] = b[j + 1] + P \div q[j].p
    <3> TAKE j \in 1 .. Len(q)
    <3>1. j \in 1 .. m /\ j + 1 \in 1 .. m /\ q[j] = cs[j]
      BY <1>1
    <3>2. QED
      BY <1>9, <2>3, <3>1
  <2>6. b[1] = P
    BY <1>9, <2>1, <2>3
  <2>7. QED
    BY <2>1, <2>2, <2>4, <2>5, <2>6
<1>11. CallsOK(pts, ix, q, z)
  BY <1>1, <1>6, <1>8, <1>10 DEF CallsOK, F, G
<1>12. Frontier(q) = g[m]
  <2>1. CASE m = 1
    <3>1. q = <<>>
      BY <1>1, <2>1
    <3>2. QED
      BY <1>7, <2>1, <3>1 DEF Frontier
  <2>2. CASE m # 1
    <3>1. m - 1 \in 1 .. m - 1 /\ q # <<>> /\ m - 1 \in 1 .. m
      BY <1>1, <2>2
    <3>2. Frontier(q) = q[m - 1].index
      BY <1>1, <3>1 DEF Frontier
    <3>3. q[m - 1].index = F[m - 1] /\ F[m - 1] = f[m - 1]
      BY <1>4, <1>5, <3>1
    <3>4. QED
      BY <1>7, <2>2, <3>2, <3>3
  <2>3. QED
    BY <2>1, <2>2
<1>13. Frontier(q) = cs[m].index + cs[m].n
  BY <1>1, <1>3, <1>12
<1>14. QED
  BY <1>11, <1>13 DEF q, z

(* An element of a sequence that has become longer by one.                 *)
LEMMA OneOfLastTwo == \A x \in Nat \ {0} : \A j \in 1 .. x + 1 : j = x \/ j = x + 1 \/ j \in 1 .. x - 1
OBVIOUS

(* The last call is replaced by the two for the halves of its places.      *)
Halves(cs, nl, lo2, hi2) ==
  LET c == cs[Len(cs)]
  IN  Front(cs) \o <<Call(2 * c.p, c.index + nl, c.n - nl, lo2, c.hi),
                     Call(2 * c.p, c.index, nl, c.lo, hi2)>>

(* They give as many parts, and their boxes hold their points.             *)
LEMMA CallsSplit ==
  ASSUME NEW pts, NEW ix \in [All -> All], NEW iy, NEW cs, NEW w \in Int, CallsOK(pts, ix, cs, w),
         cs # <<>>, cs[Len(cs)].p < P,
         Rearranges(ix, iy, cs[Len(cs)].index .. cs[Len(cs)].index + cs[Len(cs)].n - 1),
         NEW nl \in 1 .. cs[Len(cs)].n - 1, NEW lo2 \in Point, NEW hi2 \in Point,
         PointsIn(pts, iy, cs[Len(cs)].index, cs[Len(cs)].index + nl, cs[Len(cs)].lo, hi2),
         PointsIn(pts, iy, cs[Len(cs)].index + nl, cs[Len(cs)].index + cs[Len(cs)].n,
                  lo2, cs[Len(cs)].hi)
  PROVE  /\ CallsOK(pts, iy, Halves(cs, nl, lo2, hi2), w)
         /\ Frontier(Halves(cs, nl, lo2, hi2)) = Frontier(cs)
<1> DEFINE cs2 == Halves(cs, nl, lo2, hi2)
           m == Len(cs)
           c == cs[m]
           a == Call(2 * c.p, c.index + nl, c.n - nl, lo2, c.hi)
           b == Call(2 * c.p, c.index, nl, c.lo, hi2)
           f == CallStart(cs)
           g == CallEnd(cs)
           F == CallStart(cs2)
           G == CallEnd(cs2)
<1>1. /\ m \in Nat \ {0} /\ c \in CallType /\ c.p \in {1, 2, 4} /\ c.p <= P
      /\ c.index \in Nat /\ c.n \in Nat \ {0} /\ c.lo \in Point /\ c.hi \in Point
      /\ c.index + c.n <= N /\ Frontier(cs) = c.index
  BY CallFacts
<1>2. 2 * c.p \in {1, 2, 4} /\ 2 * c.p <= P /\ P \div (2 * c.p) \in Nat \ {0}
      /\ P \div c.p = P \div (2 * c.p) + P \div (2 * c.p)
  BY <1>1, PartsOfCall
<1>3. cs2 = Front(cs) \o <<a, b>> /\ cs \in Seq(CallType)
  BY DEF CallsOK, Halves
<1> HIDE DEF c, cs2
<1>4. /\ a \in CallType /\ a.p = 2 * c.p /\ a.index = c.index + nl /\ a.n = c.n - nl
      /\ a.lo = lo2 /\ a.hi = c.hi
  <2>1. c.index + nl \in Nat /\ c.n - nl \in Nat /\ nl \in Nat
    BY <1>1 DEF c
  <2>2. QED
    BY <1>1, <1>2, <2>1 DEF Call, CallType
<1>5. /\ b \in CallType /\ b.p = 2 * c.p /\ b.index = c.index /\ b.n = nl
      /\ b.lo = c.lo /\ b.hi = hi2
  <2>1. nl \in Nat
    BY <1>1 DEF c
  <2>2. QED
    BY <1>1, <1>2, <2>1 DEF Call, CallType
<1> HIDE DEF a, b
<1>6. /\ cs2 \in Seq(CallType) /\ Len(cs2) = m + 1
      /\ \A j \in 1 .. m - 1 : cs2[j] = cs[j]
      /\ cs2[m] = a /\ cs2[m + 1] = b
  <2>1. Replaces(CallType, cs, a, b, Front(cs) \o <<a, b>>)
    BY <1>3, <1>4, <1>5, Replaced
  <2>2. Replaces(CallType, cs, a, b, cs2)
    BY <1>3, <2>1
  <2>3. QED
    BY <2>2 DEF Replaces
<1>7. Row(f, g, m, N) /\ DOMAIN cs = 1 .. m /\ DOMAIN cs2 = 1 .. m + 1
      /\ m \in 1 .. m /\ m \in 1 .. m + 1 /\ m + 1 \in 1 .. m + 1
  BY <1>1, <1>6 DEF CallsOK
<1>8. \A j \in 1 .. m : f[j] = cs[j].index /\ g[j] = cs[j].index + cs[j].n
  BY <1>7 DEF CallStart, CallEnd
<1>9. \A j \in 1 .. m + 1 : F[j] = cs2[j].index /\ G[j] = cs2[j].index + cs2[j].n
  BY <1>7 DEF CallStart, CallEnd
<1> HIDE DEF f, g, F, G
<1>10. \A j \in 1 .. m - 1 : F[j] = f[j] /\ G[j] = g[j]
  <2> TAKE j \in 1 .. m - 1
  <2>1. j \in 1 .. m /\ j \in 1 .. m + 1 /\ cs2[j] = cs[j]
    BY <1>1, <1>6
  <2>2. QED
    BY <1>8, <1>9, <2>1
<1>11. Row(F, G, m + 1, N)
  <2> DEFINE x == c.index + nl
             e == N
  <2>1. f[m] = c.index /\ g[m] = c.index + c.n
    BY <1>7, <1>8 DEF c
  <2>2. F[m] = x /\ G[m] = x + (c.n - nl) /\ F[m + 1] = c.index /\ G[m + 1] = x
    BY <1>4, <1>5, <1>6, <1>7, <1>9
  <2>3. /\ m \in Nat \ {0} /\ e \in Int /\ Row(f, g, m, e) /\ x \in Int /\ f[m] < x /\ x < g[m]
        /\ F[m] = x /\ G[m] = g[m] /\ F[m + 1] = f[m] /\ G[m + 1] = x
    <3>1. nl \in Nat /\ nl > 0 /\ nl < c.n /\ c.n \in Nat /\ c.index \in Nat
      BY <1>1 DEF c
    <3>2. x \in Int /\ c.index < x /\ x < c.index + c.n /\ x + (c.n - nl) = c.index + c.n
      BY <3>1
    <3> HIDE DEF x
    <3>3. QED
      BY <1>1, <1>7, <2>1, <2>2, <3>2, DataAssumption
  <2> HIDE DEF x, m, e
  <2>4. Row(F, G, m + 1, e)
    BY <1>10, <2>3, RowSplit
  <2>5. QED
    BY <2>4 DEF e
<1>12. \A j \in 1 .. m + 1 :
         /\ cs2[j].p <= P
         /\ PointsIn(pts, iy, cs2[j].index, cs2[j].index + cs2[j].n, cs2[j].lo, cs2[j].hi)
  <2> TAKE j \in 1 .. m + 1
  <2>1. CASE j = m
    <3>1. (c.index + nl) + (c.n - nl) = c.index + c.n
      BY <1>1 DEF c
    <3>2. PointsIn(pts, iy, c.index + nl, c.index + c.n, lo2, c.hi)
      BY DEF c
    <3>3. cs2[j] = a /\ a.index + a.n = c.index + c.n
      BY <1>4, <1>6, <2>1, <3>1
    <3>4. QED
      BY <1>2, <1>4, <3>2, <3>3
  <2>2. CASE j = m + 1
    <3>1. PointsIn(pts, iy, c.index, c.index + nl, c.lo, hi2)
      BY DEF c
    <3>2. QED
      BY <1>2, <1>5, <1>6, <2>2, <3>1
  <2>3. CASE j \in 1 .. m - 1
    <3> DEFINE q == Front(cs)
               z == w + P \div c.p
    <3>1. CallsOK(pts, ix, q, z) /\ Frontier(q) = c.index + c.n
      BY CallsPopped DEF c
    <3>2. CallsOK(pts, iy, q, z)
      <4> DEFINE f0 == c.index
                 e0 == c.index + c.n
      <4>1. f0 \in Nat /\ e0 \in Nat /\ e0 <= Frontier(q) /\ Rearranges(ix, iy, f0 .. e0 - 1)
        <5>1. c.index + c.n - 1 = (c.index + c.n) - 1
          BY <1>1 DEF c
        <5>2. Rearranges(ix, iy, c.index .. c.index + c.n - 1)
          BY DEF c
        <5>3. c.index + c.n \in Nat
          BY <1>1 DEF c
        <5>4. QED
          BY <1>1, <3>1, <5>1, <5>2, <5>3 DEF c
      <4> HIDE DEF f0, e0, q, z
      <4>2. QED
        BY <3>1, <4>1, CallsKept
    <3>3. q[j] = cs[j] /\ j \in 1 .. Len(q)
      <4>1. Len(q) = m - 1 /\ \A t \in 1 .. m - 1 : q[t] = cs[t]
        BY <1>3, FrontIs
      <4>2. QED
        BY <2>3, <4>1
    <3>4. q[j].p <= P /\ PointsIn(pts, iy, q[j].index, q[j].index + q[j].n, q[j].lo, q[j].hi)
      BY <3>2, <3>3 DEF CallsOK
    <3>5. cs2[j] = q[j]
      BY <1>6, <2>3, <3>3
    <3> HIDE DEF q
    <3>6. QED
      BY <3>4, <3>5
  <2>4. QED
    <3>1. j = m \/ j = m + 1 \/ j \in 1 .. m - 1
      BY <1>1, OneOfLastTwo
    <3>2. QED
      BY <2>1, <2>2, <2>3, <3>1
<1>13. PICK at \in [1 .. m + 1 -> 0 .. P] :
         /\ at[1] = P /\ at[m + 1] = w
         /\ \A j \in 1 .. m : at[j] = at[j + 1] + P \div cs[j].p
  BY DEF CallsOK
<1>14. \E at2 \in [1 .. Len(cs2) + 1 -> 0 .. P] :
         /\ at2[1] = P /\ at2[Len(cs2) + 1] = w
         /\ \A j \in 1 .. Len(cs2) : at2[j] = at2[j + 1] + P \div cs2[j].p
  <2> DEFINE k2 == P \div (2 * c.p)
             at2 == [j \in 1 .. m + 2 |-> IF j <= m THEN at[j] ELSE IF j = m + 1 THEN w + k2 ELSE w]
  <2>1. at[m] = w + (k2 + k2) /\ k2 \in Nat \ {0}
    BY <1>2, <1>7, <1>13 DEF c
  <2>2. at[m] \in 0 .. P /\ w \in 0 .. P /\ P \in Nat
    BY <1>7, <1>13, DataAssumption
  <2> HIDE DEF k2
  <2>3. w + k2 \in 0 .. P
    BY <2>1, <2>2
  <2>4. at2 \in [1 .. m + 2 -> 0 .. P]
    <3> SUFFICES ASSUME NEW j \in 1 .. m + 2
                 PROVE  (IF j <= m THEN at[j] ELSE IF j = m + 1 THEN w + k2 ELSE w) \in 0 .. P
      OBVIOUS
    <3>1. CASE j <= m
      <4>1. j \in 1 .. m + 1
        BY <1>1, <3>1
      <4>2. QED
        BY <1>13, <3>1, <4>1
    <3>2. CASE ~(j <= m)
      BY <2>2, <2>3, <3>2
    <3>3. QED
      BY <3>1, <3>2
  <2>5. \A j \in 1 .. m : at2[j] = at[j]
    BY <1>1
  <2>6. at2[m + 1] = w + k2 /\ at2[m + 2] = w
    <3>1. m + 1 \in 1 .. m + 2 /\ m + 2 \in 1 .. m + 2 /\ ~(m + 1 <= m) /\ ~(m + 2 <= m) /\ m + 2 # m + 1
      BY <1>1
    <3>2. QED
      BY <3>1
  <2> HIDE DEF at2
  <2>7. \A j \in 1 .. m + 1 : at2[j] = at2[j + 1] + P \div cs2[j].p
    <3> TAKE j \in 1 .. m + 1
    <3>1. CASE j = m + 1
      <4>1. cs2[j].p = 2 * c.p /\ j + 1 = m + 2
        BY <1>1, <1>5, <1>6, <3>1
      <4>2. QED
        BY <2>6, <3>1, <4>1 DEF k2
    <3>2. CASE j = m
      <4>1. cs2[j].p = 2 * c.p /\ P \div cs2[j].p = k2
        BY <1>4, <1>6, <3>2 DEF k2
      <4>2. at2[j] = at[m] /\ at2[j + 1] = w + k2
        BY <1>7, <2>5, <2>6, <3>2
      <4>3. QED
        <5>1. at2[j] = w + (k2 + k2) /\ at2[j + 1] + P \div cs2[j].p = (w + k2) + k2
          BY <2>1, <4>1, <4>2
        <5>2. w + (k2 + k2) = (w + k2) + k2
          BY <2>1
        <5>3. QED
          BY <5>1, <5>2
    <3>3. CASE j \in 1 .. m - 1
      <4>1. j \in 1 .. m /\ j + 1 \in 1 .. m /\ cs2[j] = cs[j]
        BY <1>1, <1>6, <3>3
      <4>2. QED
        BY <1>13, <2>5, <4>1
    <3>4. QED
      <4>1. j = m \/ j = m + 1 \/ j \in 1 .. m - 1
        BY <1>1, OneOfLastTwo
      <4>2. QED
        BY <3>1, <3>2, <3>3, <4>1
  <2>8. at2[1] = P
    <3>1. 1 \in 1 .. m
      BY <1>1
    <3>2. QED
      BY <1>13, <2>5, <3>1
  <2>9. Len(cs2) + 1 = m + 2
    BY <1>1, <1>6
  <2>10. at2 \in [1 .. Len(cs2) + 1 -> 0 .. P] /\ at2[Len(cs2) + 1] = w
    BY <2>4, <2>6, <2>9
  <2>11. \A j \in 1 .. Len(cs2) : at2[j] = at2[j + 1] + P \div cs2[j].p
    BY <1>6, <2>7
  <2>12. QED
    BY <2>8, <2>10, <2>11
<1>15. CallsOK(pts, iy, cs2, w)
  BY <1>6, <1>11, <1>12, <1>14 DEF CallsOK, F, G
<1>16. Frontier(cs2) = c.index
  <2>1. cs2 # <<>>
    BY <1>1, <1>6
  <2>2. QED
    BY <1>5, <1>6, <2>1 DEF Frontier
<1>17. QED
  BY <1>1, <1>15, <1>16 DEF c, cs2

(* A root alone is a tree.                                                 *)
LEMMA OneNode ==
  ASSUME NEW h, h[1] \in TreeNode, h[1].count > 0, Leaf(h[1])
  PROVE  Shape(h, 1)
<1>1. 1 \in Addresses /\ 1 .. 1 = {1} /\ 2 .. 1 = {}
  BY DataAssumption DEF Addresses
<1>2. h[1].idx \in Nat /\ End(h[1]) \in Nat
  BY NodeRange
<1>3. Linked(h, 1) /\ Rooted(h, 1) /\ Covered(h, 1)
  BY <1>1 DEF Linked, Rooted, Covered
<1>4. Within(h, 1)
  BY <1>1, <1>2 DEF Within
<1>5. Laminar(h, 1)
  BY <1>1 DEF Laminar
<1>6. QED
  BY <1>1, <1>3, <1>4, <1>5 DEF Shape

(* buildkdTree begins with the root of the next part.                      *)
LEMMA BeginKeeps == BuildInv /\ BeginTree => BuildInv'
<1> SUFFICES ASSUME BuildInv, BeginTree PROVE BuildInv'
  OBVIOUS
<1> DEFINE m == Len(calls)
           c == calls[m]
           root == setup_tree_node(c.index, c.n, c.lo, c.hi)
<1>1. TypesOK /\ CallsOK(points, idx, calls, part) /\ part \in Nat /\ ofs \in Nat
      /\ PartsOK(points, idx, image, part, Finished)
      /\ ImageOK(image, Written, part, stage, ofs, Finished)
      /\ stage = "split" /\ calls # <<>>
  BY DEF BuildInv, BeginTree, NextPart, TypesOK
<1>2. Last(calls) = c
  BY DEF Last
<1>3. /\ c.p = P /\ heap' = [heap EXCEPT ![1] = root] /\ size' = c.n /\ calls' = Front(calls)
      /\ node_addr' = 2 /\ stack' = <<1>> /\ stage' = "build"
      /\ points' = points /\ idx' = idx /\ part' = part /\ ofs' = ofs /\ prev' = prev
      /\ counter' = counter /\ image' = image
  BY <1>2 DEF BeginTree
<1>4. /\ c.index \in Nat /\ c.n \in Nat \ {0} /\ c.lo \in Point /\ c.hi \in Point
      /\ c.index + c.n <= N /\ Frontier(calls) = c.index
      /\ PointsIn(points, idx, c.index, c.index + c.n, c.lo, c.hi)
  BY <1>1, CallFacts
<1>5. /\ CallsOK(points, idx, Front(calls), part + 1)
      /\ Frontier(Front(calls)) = c.index + c.n
  <2>1. /\ CallsOK(points, idx, Front(calls), part + P \div c.p)
        /\ Frontier(Front(calls)) = c.index + c.n
    <3>1. part \in Int
      BY <1>1
    <3>2. QED
      BY <1>1, <3>1, CallsPopped
  <2>2. P \div c.p = 1
    BY <1>3, PartsOfCall
  <2>3. QED
    BY <2>1, <2>2
<1> HIDE DEF c
<1>6. /\ root \in TreeNode /\ Leaf(root) /\ root.idx = c.index /\ root.count = c.n
      /\ root.lo = c.lo /\ root.hi = c.hi
  BY <1>4, SetupNode
<1> HIDE DEF root
<1>7. heap' \in Heaps /\ heap'[1] = root
  <2>1. heap \in Heaps /\ 1 \in {NoNode} \cup Addresses
    BY <1>1, DataAssumption DEF TypesOK, Addresses
  <2>2. QED
    BY <1>3, <1>6, <2>1 DEF Heaps
<1>8. top' = 1
  BY <1>3 DEF top
<1>9. Shape(heap', 1)
  <2> DEFINE h == heap'
  <2>1. h[1] \in TreeNode /\ h[1].count > 0 /\ Leaf(h[1])
    BY <1>4, <1>6, <1>7
  <2> HIDE DEF h
  <2>2. Shape(h, 1)
    BY <2>1, OneNode
  <2>3. QED
    BY <2>2 DEF h
<1>10. Boxes(points, idx, heap', 1)
  <2>1. 1 .. 1 = {1} /\ End(root) = c.index + c.n
    BY <1>6 DEF End
  <2>2. QED
    BY <1>4, <1>6, <1>7, <2>1 DEF Boxes
<1>11. End(heap'[1]) = c.index + c.n
  BY <1>6, <1>7 DEF End
<1>12. /\ stack' \in Seq(1 .. 1) /\ StackRow(heap', stack') /\ Begin(heap', stack') = heap'[1].idx
       /\ Len(stack') = 1 /\ stack' # <<>> /\ stack'[1] = 1
  <2> DEFINE h == heap'
  <2>1. Shape(h, 1) /\ 1 \in Nat
    BY <1>9
  <2> HIDE DEF h
  <2>2. /\ <<1>> \in Seq(1 .. 1) /\ StackRow(h, <<1>>) /\ Begin(h, <<1>>) = h[1].idx
        /\ Len(<<1>>) = 1 /\ <<1>> # <<>> /\ <<1>>[1] = 1
    BY <2>1, SingleStack
  <2>3. QED
    BY <1>3, <2>2 DEF h
<1>13. HeldOK'
  <2>1. heap'[1].count = size' /\ Frontier(calls') = End(heap'[1])
    BY <1>3, <1>5, <1>6, <1>7, <1>11
  <2>2. HeapOK(points', idx', heap', top')
    BY <1>3, <1>8, <1>9, <1>10 DEF HeapOK
  <2>3. QED
    BY <1>8, <1>12, <2>1, <2>2 DEF HeldOK
<1>14. GrowingOK(heap', top', stack')
  <2>1. 1 + 1 = 2 * (Begin(heap', stack') - heap'[1].idx + Len(stack'))
    <3>1. heap'[1].idx \in Nat
      BY <1>4, <1>6, <1>7
    <3>2. QED
      BY <1>12, <3>1
  <2>2. \A j \in 1 .. Len(stack') : Leaf(heap'[stack'[j]])
    BY <1>6, <1>7, <1>12
  <2>3. \A a \in 1 .. 1 : Leaf(heap'[a]) /\ heap'[a].count # 1 => \E j \in 1 .. Len(stack') : stack'[j] = a
    BY <1>12
  <2>4. GrowingOK(heap', 1, stack')
    BY <1>12, <2>1, <2>2, <2>3 DEF GrowingOK
  <2>5. QED
    BY <1>8, <2>4
<1>15. TypesOK'
  BY <1>1, <1>3, <1>4, <1>7 DEF TypesOK, Stages
<1>16. NextPart' = part + 1 /\ Finished' = Finished /\ Written' = Written
  BY <1>1, <1>3, <1>4, <1>6, <1>7 DEF NextPart, Finished, Written
<1>17. CallsOK(points', idx', calls', NextPart')
  BY <1>3, <1>5, <1>16
<1>18. PartsOK(points', idx', image', part', Finished')
  BY <1>1, <1>3, <1>16
<1>19. ImageOK(image', Written', part', stage', ofs', Finished')
  BY <1>1, <1>3, <1>16 DEF ImageOK
<1>20. QED
  BY <1>3, <1>13, <1>14, <1>15, <1>17, <1>18, <1>19 DEF BuildInv

(* recursive_split splits the places of the next call.                     *)
LEMMA SplitKeeps == BuildInv /\ EnoughPoints /\ RecursiveSplit => BuildInv'
<1> SUFFICES ASSUME BuildInv, EnoughPoints, RecursiveSplit PROVE BuildInv'
  OBVIOUS
<1> DEFINE m == Len(calls)
           c == calls[m]
           s == split_bounding_box(c.index, c.n, c.lo, c.hi)
<1>1. TypesOK /\ CallsOK(points, idx, calls, part) /\ part \in Nat /\ ofs \in Nat
      /\ PartsOK(points, idx, image, part, Finished)
      /\ ImageOK(image, Written, part, stage, ofs, Finished)
      /\ stage = "split" /\ calls # <<>> /\ Finished = Frontier(calls)
  BY DEF BuildInv, RecursiveSplit, NextPart, TypesOK, Finished
<1>2. Last(calls) = c
  BY DEF Last
<1>3. /\ c.p < P
      /\ idx' = s.idx
      /\ calls' = Front(calls) \o
              <<Call(2 * c.p, c.index + s.n_lo, c.n - s.n_lo, UpperCell(c.lo, s), c.hi),
                Call(2 * c.p, c.index, s.n_lo, c.lo, LowerCell(c.hi, s))>>
      /\ points' = points /\ stage' = stage /\ part' = part /\ ofs' = ofs
      /\ heap' = heap /\ node_addr' = node_addr /\ size' = size
      /\ stack' = stack /\ prev' = prev /\ counter' = counter /\ image' = image
  BY <1>2 DEF RecursiveSplit, nodes
<1>4. /\ c.index \in Nat /\ c.n \in Nat \ {0} /\ c.lo \in Point /\ c.hi \in Point
      /\ c.index + c.n <= N /\ Frontier(calls) = c.index
      /\ PointsIn(points, idx, c.index, c.index + c.n, c.lo, c.hi)
      /\ m \in Nat \ {0}
  BY <1>1, CallFacts
<1>5. c.n >= 2
  <2>1. m \in DOMAIN calls
    BY <1>1, <1>4 DEF CallsOK
  <2>2. QED
    BY <1>3, <2>1 DEF EnoughPoints
<1>6. points \in [All -> Point] /\ idx \in [All -> All] /\ Order(idx)
  BY <1>1, DataAssumption DEF TypesOK, Order
<1> HIDE DEF c
<1>7. Splits(idx, points, c.index, c.n, c.lo, c.hi, s)
  <2> DEFINE index == c.index
             n == c.n
             lo == c.lo
             hi == c.hi
  <2>1. index \in Nat /\ n \in Nat /\ n >= 2 /\ index + n <= N /\ lo \in Point /\ hi \in Point
        /\ PointsIn(points, idx, index, index + n, lo, hi)
    BY <1>4, <1>5
  <2> HIDE DEF index, n, lo, hi
  <2>2. Splits(idx, points, index, n, lo, hi, split_bounding_box(index, n, lo, hi))
    BY <1>6, <2>1, SplitFacts
  <2>3. QED
    BY <2>2 DEF index, n, lo, hi
<1> HIDE DEF s
<1>8. /\ Rearranges(idx, s.idx, c.index .. c.index + c.n - 1)
      /\ s.n_lo \in 1 .. c.n - 1
      /\ LowerCell(c.hi, s) \in Point /\ UpperCell(c.lo, s) \in Point
      /\ PointsIn(points, s.idx, c.index, c.index + s.n_lo, c.lo, LowerCell(c.hi, s))
      /\ PointsIn(points, s.idx, c.index + s.n_lo, c.index + c.n, UpperCell(c.lo, s), c.hi)
  BY <1>7 DEF Splits
<1>9. CallsOK(points, s.idx, calls', part) /\ Frontier(calls') = Frontier(calls)
  <2>3. calls' = Halves(calls, s.n_lo, UpperCell(c.lo, s), LowerCell(c.hi, s))
    BY <1>3 DEF Halves, c
  <2> DEFINE cs == calls
             nl == s.n_lo
             lo2 == UpperCell(c.lo, s)
             hi2 == LowerCell(c.hi, s)
             ix == idx
             iy == s.idx
             w == part
             pts == points
  <2>1. /\ ix \in [All -> All] /\ w \in Int /\ CallsOK(pts, ix, cs, w) /\ cs # <<>>
        /\ cs[Len(cs)].p < P
        /\ Rearranges(ix, iy, cs[Len(cs)].index .. cs[Len(cs)].index + cs[Len(cs)].n - 1)
        /\ nl \in 1 .. cs[Len(cs)].n - 1 /\ lo2 \in Point /\ hi2 \in Point
        /\ PointsIn(pts, iy, cs[Len(cs)].index, cs[Len(cs)].index + nl, cs[Len(cs)].lo, hi2)
        /\ PointsIn(pts, iy, cs[Len(cs)].index + nl, cs[Len(cs)].index + cs[Len(cs)].n,
                    lo2, cs[Len(cs)].hi)
    BY <1>1, <1>3, <1>6, <1>8 DEF c
  <2> HIDE DEF cs, nl, lo2, hi2, ix, iy, w, pts
  <2>2. /\ CallsOK(pts, iy, Halves(cs, nl, lo2, hi2), w)
        /\ Frontier(Halves(cs, nl, lo2, hi2)) = Frontier(cs)
    BY <2>1, CallsSplit
  <2>4. QED
    BY <2>2, <2>3 DEF cs, nl, lo2, hi2, iy, w, pts
<1>10. NextPart' = part /\ Finished' = Finished /\ Written' = Written
  BY <1>1, <1>3, <1>9 DEF NextPart, Finished, Written
<1>11. Order(s.idx)
  <2> DEFINE R == c.index .. c.index + c.n - 1
             x == idx
             y == s.idx
  <2>1. R \in SUBSET All /\ Rearranges(x, y, R) /\ Order(x)
    <3>1. R \subseteq All
      BY <1>4, DataAssumption DEF All
    <3>2. QED
      BY <1>6, <1>8, <3>1
  <2> HIDE DEF R, x, y
  <2>2. Order(y)
    BY <2>1, OrderKept
  <2>3. QED
    BY <2>2 DEF y
<1>12. TypesOK'
  BY <1>1, <1>3, <1>11 DEF TypesOK
<1>13. PartsOK(points, s.idx, image, part, Finished)
  <2> DEFINE pts == points
             x == idx
             y == s.idx
             im == image
             p == part
             fin == Finished
             f == c.index
             e == c.index + c.n
  <2>1. /\ pts \in [All -> Point] /\ x \in [All -> All] /\ fin \in Nat
        /\ PartsOK(pts, x, im, p, fin) /\ fin <= N /\ f \in Nat /\ e \in Nat /\ fin <= f
        /\ Rearranges(x, y, f .. e - 1)
    <3>1. c.index + c.n - 1 = (c.index + c.n) - 1 /\ c.index + c.n \in Nat /\ c.index <= N
      BY <1>4, DataAssumption
    <3>2. fin = c.index
      BY <1>1, <1>4
    <3>3. Rearranges(x, y, f .. e - 1)
      BY <1>8, <3>1
    <3>4. c.index <= c.index
      BY <1>4
    <3>5. QED
      BY <1>1, <1>4, <1>6, <3>1, <3>2, <3>3, <3>4
  <2> HIDE DEF pts, x, y, im, p, fin, f, e
  <2>2. PartsOK(pts, y, im, p, fin)
    BY <2>1, PartsKept
  <2>3. QED
    BY <2>2 DEF pts, y, im, p, fin
<1>14. PartsOK(points', idx', image', part', Finished')
  BY <1>3, <1>10, <1>13
<1>15. CallsOK(points', idx', calls', NextPart')
  BY <1>3, <1>9, <1>10
<1>16. ImageOK(image', Written', part', stage', ofs', Finished')
  BY <1>1, <1>3, <1>10
<1>17. stage' = "split"
  BY <1>1, <1>3
<1>18. QED
  BY <1>12, <1>14, <1>15, <1>16, <1>17 DEF BuildInv

------------------------------------------------------------------------------
(* buildkdTree keeps it.                                                   *)

(* Heap addresses suffice: two more nodes fit.                             *)
LEMMA RoomForTwo ==
  ASSUME NEW t \in Int, NEW b \in Int, NEW f \in Int, NEW m \in Int, NEW e \in Int,
         t + 1 = 2 * (b - f + m), b + 2 + m - 1 <= e, 0 <= f, e <= N
  PROVE  t + 2 <= 2 * N
BY DataAssumption

(* The nodes after a leaf has been left as it is, or has grown.            *)
LEMMA NodeCounted ==
  ASSUME NEW t \in Int, NEW b \in Int, NEW f \in Int, NEW m \in Int, NEW c \in Int,
         t + 1 = 2 * (b - f + m)
  PROVE  /\ (t + 2) + 1 = 2 * (b - f + (m + 1))
         /\ c = 1 => t + 1 = 2 * ((b + c) - f + (m - 1))
OBVIOUS

(* Both parts of a split have a place.                                     *)
LEMMA HalfNumbers ==
  ASSUME NEW b \in Nat, NEW c \in Nat, NEW z \in 1 .. c - 1
  PROVE  /\ z \in Nat /\ z > 0 /\ c - z \in Nat /\ c - z > 0
         /\ b + z \in Nat /\ b + z \in Int
         /\ b < b + z /\ b + z < b + c
         /\ (b + z) + (c - z) = b + c
OBVIOUS

(* The stack's depth leaves room for a node of two points.                 *)
LEMMA RoomOnStack ==
  ASSUME NEW b \in Int, NEW c \in Int, NEW m \in Int, NEW e \in Int,
         c > 1, (b + c) + m - 1 <= e
  PROVE  b + 2 + m - 1 <= e
OBVIOUS

(* buildkdTree: a node of one point stays a leaf, another one grows.       *)
LEMMA NodeKeeps == BuildInv /\ BuildNode => BuildInv'
<1> SUFFICES ASSUME BuildInv, BuildNode PROVE BuildInv'
  OBVIOUS
<1> DEFINE m == Len(stack)
           v == stack[m]
           n == heap[v]
           s == split_bounding_box(n.idx, n.count, n.lo, n.hi)
           l == node_addr
           r == node_addr + 1
<1>1. /\ stage = "build" /\ stack # <<>> /\ stage' = stage
      /\ points' = points /\ calls' = calls /\ part' = part /\ ofs' = ofs
      /\ size' = size /\ counter' = counter /\ image' = image /\ prev' = prev
  BY DEF BuildNode
<1>2. /\ top \in Nat /\ top \in Addresses /\ Shape(heap, top)
      /\ Boxes(points, idx, heap, top)
      /\ 1 \in 1 .. top /\ heap[1].idx \in Nat /\ End(heap[1]) \in Nat
      /\ heap[1].count = size /\ size > 0
      /\ End(heap[1]) <= N
      /\ Finished = heap[1].idx /\ NextPart = part + 1
      /\ Frontier(calls) = End(heap[1])
      /\ stack \in Seq(1 .. top)
      /\ points \in [All -> Point] /\ idx \in [All -> All]
  BY <1>1, HeldFacts
<1>3. TypesOK /\ CallsOK(points, idx, calls, NextPart) /\ PartsOK(points, idx, image, part, Finished)
      /\ ImageOK(image, Written, part, stage, ofs, Finished)
      /\ GrowingOK(heap, top, stack) /\ Order(idx) /\ heap \in Heaps /\ node_addr \in Nat
      /\ node_addr = top + 1
  BY <1>1 DEF BuildInv, TypesOK, top
<1>4. /\ StackRow(heap, stack)
      /\ top + 1 = 2 * (Begin(heap, stack) - heap[1].idx + m)
      /\ \A j \in 1 .. m : Leaf(heap[stack[j]])
      /\ \A a \in 1 .. top : Leaf(heap[a]) /\ heap[a].count # 1 => \E j \in 1 .. m : stack[j] = a
  BY <1>3 DEF GrowingOK
<1>5. /\ v \in 1 .. top /\ m \in Nat \ {0} /\ Begin(heap, stack) = n.idx
      /\ n.idx \in Nat /\ End(n) \in Nat /\ n.idx < End(n) /\ End(n) + m - 1 <= End(heap[1])
      /\ \A j \in 1 .. m - 1 : stack[j] \in 1 .. top /\ stack[j] # v
  BY <1>1, <1>2, <1>4, StackTop
<1>6. Last(stack) = v
  BY DEF Last
<1>7. /\ IF n.count > 1
         THEN /\ idx' = s.idx
              /\ heap' = [heap EXCEPT
                   ![v].left = l, ![v].right = r,
                   ![l] = setup_tree_node(n.idx, s.n_lo, n.lo, LowerCell(n.hi, s)),
                   ![r] = setup_tree_node(n.idx + s.n_lo, n.count - s.n_lo,
                                          UpperCell(n.lo, s), n.hi)]
              /\ node_addr' = node_addr + 2
              /\ stack' = Front(stack) \o <<r, l>>
         ELSE stack' = Front(stack) /\ UNCHANGED <<idx, heap, node_addr>>
  BY <1>6 DEF BuildNode
<1>8. /\ n \in TreeNode /\ n.count \in Nat /\ n.count > 0 /\ End(n) = n.idx + n.count
      /\ n.lo \in Point /\ n.hi \in Point
      /\ heap[1].idx <= n.idx /\ End(n) <= End(heap[1])
      /\ PointsIn(points, idx, n.idx, End(n), n.lo, n.hi)
  <2>1. n \in TreeNode /\ n.count \in Nat /\ n.count > 0 /\ End(n) = n.idx + n.count
        /\ heap[1].idx <= n.idx /\ End(n) <= End(heap[1])
    BY <1>2, <1>5, NodeOf
  <2>2. n.lo \in Point /\ n.hi \in Point
    BY <2>1, NodeRange
  <2>3. PointsIn(points, idx, n.idx, End(n), n.lo, n.hi)
    BY <1>2, <1>5 DEF Boxes
  <2>4. QED
    BY <2>1, <2>2, <2>3
<1>9. Leaf(n)
  <2>1. m \in 1 .. m
    BY <1>5
  <2>2. QED
    BY <1>4, <2>1
<1>10. CASE ~(n.count > 1)
  <2>1. stack' = Front(stack) /\ idx' = idx /\ heap' = heap /\ node_addr' = node_addr
    BY <1>7, <1>10
  <2>2. n.count = 1
    BY <1>8, <1>10
  <2>3. /\ Front(stack) \in Seq(1 .. top) /\ Len(Front(stack)) = m - 1
        /\ StackRow(heap, Front(stack))
        /\ Begin(heap, Front(stack)) = End(n)
        /\ \A j \in 1 .. m - 1 : Front(stack)[j] = stack[j]
    BY <1>1, <1>2, <1>4, StackPopped
  <2>4. \A a \in 1 .. top : SameCell(heap[a], heap'[a])
    BY <1>2, <2>1, NodeOf DEF SameCell
  <2>5. /\ TypesOK' /\ HeldOK' /\ top' = top
        /\ CallsOK(points', idx', calls', NextPart')
        /\ Finished' = Finished
        /\ PartsOK(points', idx', image, part', Finished')
    <3>1. /\ stage # "split" /\ stage' \in Stages \ {"split"} /\ heap' \in Heaps /\ counter' \in Nat
          /\ stack' \in Seq(1 .. top)
          /\ UNCHANGED <<points, idx, calls, part, ofs, node_addr, size>>
      BY <1>1, <1>3, <2>1, <2>3 DEF TypesOK, Stages
    <3>2. QED
      BY <2>4, <3>1, KeepsTree
  <2>6. GrowingOK(heap, top, stack')
    <3>1. top + 1 = 2 * (Begin(heap, stack') - heap[1].idx + Len(stack'))
      <4> DEFINE t == top
                 b == n.idx
                 f == heap[1].idx
                 c == n.count
      <4>1. t \in Int /\ b \in Int /\ f \in Int /\ m \in Int /\ c \in Int /\ c = 1
            /\ t + 1 = 2 * (b - f + m) /\ End(n) = b + c
        BY <1>2, <1>4, <1>5, <1>8, <2>2, SMTT(20)
      <4> HIDE DEF t, b, f, m, c
      <4>2. t + 1 = 2 * ((b + c) - f + (m - 1))
        BY <4>1, NodeCounted
      <4>3. QED
        BY <2>1, <2>3, <4>1, <4>2 DEF t, b, f, m, c
    <3>2. \A j \in 1 .. Len(stack') : Leaf(heap[stack'[j]])
      <4> TAKE j \in 1 .. Len(stack')
      <4>1. j \in 1 .. m - 1 /\ j \in 1 .. m
        BY <1>5, <2>1, <2>3
      <4>2. stack'[j] = stack[j]
        BY <2>1, <2>3, <4>1
      <4>3. QED
        BY <1>4, <4>1, <4>2
    <3>3. ASSUME NEW a \in 1 .. top, Leaf(heap[a]), heap[a].count # 1
          PROVE  \E j \in 1 .. Len(stack') : stack'[j] = a
      <4>1. PICK j \in 1 .. m : stack[j] = a
        BY <1>4, <3>3
      <4>2. j # m
        BY <2>2, <3>3, <4>1
      <4>3. j \in 1 .. m - 1
        BY <1>5, <4>2
      <4>4. j \in 1 .. Len(stack') /\ stack'[j] = stack[j]
        BY <2>1, <2>3, <4>3
      <4>5. QED
        BY <4>1, <4>4
    <3>4. QED
      BY <2>1, <2>3, <3>1, <3>2, <3>3 DEF GrowingOK
  <2>7. GrowingOK(heap', top', stack')
    BY <2>1, <2>5, <2>6
  <2>8. ImageOK(image', Written', part', stage', ofs', Finished')
    <3>1. Written' = Written
      BY <1>1 DEF Written
    <3>2. QED
      BY <1>1, <1>3, <2>5, <3>1
  <2>9. PartsOK(points', idx', image', part', Finished') /\ stage' = "build"
    BY <1>1, <2>5
  <2>10. QED
    BY <2>5, <2>7, <2>8, <2>9 DEF BuildInv
<1>11. CASE n.count > 1
  <2> DEFINE L == setup_tree_node(n.idx, s.n_lo, n.lo, LowerCell(n.hi, s))
             R == setup_tree_node(n.idx + s.n_lo, n.count - s.n_lo, UpperCell(n.lo, s), n.hi)
  <2>1. /\ idx' = s.idx /\ node_addr' = node_addr + 2 /\ stack' = Front(stack) \o <<r, l>>
        /\ heap' = [heap EXCEPT ![v].left = l, ![v].right = r, ![l] = L, ![r] = R]
    BY <1>7, <1>11
  <2>2. Splits(idx, points, n.idx, n.count, n.lo, n.hi, s)
    <3> DEFINE index == n.idx
               num == n.count
               lo == n.lo
               hi == n.hi
    <3>1. index \in Nat /\ num \in Nat /\ num >= 2 /\ index + num <= N /\ lo \in Point /\ hi \in Point
          /\ PointsIn(points, idx, index, index + num, lo, hi)
      <4>1. n.idx + n.count <= N
        BY <1>2, <1>5, <1>8, DataAssumption
      <4>2. QED
        BY <1>5, <1>8, <1>11, <4>1
    <3> HIDE DEF index, num, lo, hi
    <3>2. Splits(idx, points, index, num, lo, hi, split_bounding_box(index, num, lo, hi))
      BY <1>2, <3>1, SplitFacts
    <3>3. QED
      BY <3>2 DEF index, num, lo, hi
  <2> HIDE DEF s
  <2>3. /\ Rearranges(idx, s.idx, n.idx .. n.idx + n.count - 1)
        /\ s.n_lo \in 1 .. n.count - 1 /\ s.cdim \in Dims /\ s.cval \in Coord
        /\ n.lo[s.cdim] <= s.cval /\ s.cval <= n.hi[s.cdim]
        /\ LowerCell(n.hi, s) \in Point /\ UpperCell(n.lo, s) \in Point
    BY <2>2 DEF Splits
  <2>4. /\ s.n_lo \in Nat /\ s.n_lo > 0 /\ n.count - s.n_lo \in Nat /\ n.count - s.n_lo > 0
        /\ n.idx + s.n_lo \in Nat /\ n.idx + s.n_lo \in Int
        /\ n.idx < n.idx + s.n_lo /\ n.idx + s.n_lo < n.idx + n.count
        /\ (n.idx + s.n_lo) + (n.count - s.n_lo) = n.idx + n.count
    <3> DEFINE b == n.idx
               c == n.count
               z == s.n_lo
    <3>1. b \in Nat /\ c \in Nat /\ z \in 1 .. c - 1
      BY <1>5, <1>8, <2>3
    <3> HIDE DEF b, c, z
    <3>2. /\ z \in Nat /\ z > 0 /\ c - z \in Nat /\ c - z > 0
          /\ b + z \in Nat /\ b + z \in Int
          /\ b < b + z /\ b + z < b + c
          /\ (b + z) + (c - z) = b + c
      BY <3>1, HalfNumbers
    <3>3. QED
      BY <3>2 DEF b, c, z
  <2>5. /\ L \in TreeNode /\ Leaf(L) /\ L.idx = n.idx /\ L.count = s.n_lo
        /\ L.lo = n.lo /\ L.hi = LowerCell(n.hi, s)
    <3> DEFINE index == n.idx
               num == s.n_lo
               lo == n.lo
               hi == LowerCell(n.hi, s)
    <3>1. index \in Nat /\ num \in Nat /\ lo \in Point /\ hi \in Point /\ num > 0
      BY <1>5, <1>8, <2>3, <2>4
    <3> HIDE DEF index, num, lo, hi
    <3>2. /\ setup_tree_node(index, num, lo, hi) \in TreeNode
          /\ Leaf(setup_tree_node(index, num, lo, hi))
          /\ setup_tree_node(index, num, lo, hi).idx = index
          /\ setup_tree_node(index, num, lo, hi).count = num
          /\ setup_tree_node(index, num, lo, hi).lo = lo
          /\ setup_tree_node(index, num, lo, hi).hi = hi
      BY <3>1, SetupNode
    <3>3. QED
      BY <3>2 DEF index, num, lo, hi
  <2>6. /\ R \in TreeNode /\ Leaf(R) /\ R.idx = n.idx + s.n_lo /\ R.count = n.count - s.n_lo
        /\ R.lo = UpperCell(n.lo, s) /\ R.hi = n.hi
    <3> DEFINE index == n.idx + s.n_lo
               num == n.count - s.n_lo
               lo == UpperCell(n.lo, s)
               hi == n.hi
    <3>1. index \in Nat /\ num \in Nat /\ lo \in Point /\ hi \in Point /\ num > 0
      BY <1>5, <1>8, <2>3, <2>4
    <3> HIDE DEF index, num, lo, hi
    <3>2. /\ setup_tree_node(index, num, lo, hi) \in TreeNode
          /\ Leaf(setup_tree_node(index, num, lo, hi))
          /\ setup_tree_node(index, num, lo, hi).idx = index
          /\ setup_tree_node(index, num, lo, hi).count = num
          /\ setup_tree_node(index, num, lo, hi).lo = lo
          /\ setup_tree_node(index, num, lo, hi).hi = hi
      BY <3>1, SetupNode
    <3>3. QED
      BY <3>2 DEF index, num, lo, hi
  <2> HIDE DEF L, R
  <2>7. top + 2 \in Addresses
    <3> DEFINE t == top
               b == n.idx
               f == heap[1].idx
               e == End(heap[1])
    <3>1. t \in Int /\ b \in Int /\ f \in Int /\ m \in Int /\ e \in Int
          /\ t + 1 = 2 * (b - f + m) /\ 0 <= f /\ e <= N
      BY <1>2, <1>4, <1>5, SMTT(20)
    <3>2. b + 2 + m - 1 <= e
      <4> DEFINE c == n.count
      <4>1. c \in Int /\ c > 1 /\ (b + c) + m - 1 <= e
        BY <1>5, <1>8, <1>11
      <4> HIDE DEF b, c, e, m
      <4>2. QED
        BY <3>1, <4>1, RoomOnStack
    <3> HIDE DEF t, b, f, m, e
    <3>3. t + 2 <= 2 * N
      BY <3>1, <3>2, RoomForTwo
    <3>4. top + 2 <= 2 * N /\ top \in Nat
      BY <1>2, <3>3 DEF t
    <3>5. QED
      BY <3>4, DataAssumption DEF Addresses
  <2>8. /\ l = top + 1 /\ r = top + 2 /\ l \in Addresses /\ r \in Addresses /\ l # r
        /\ \A a \in 1 .. top : a \in Addresses /\ a # l /\ a # r
        /\ v \in Addresses
    <3>1. l = top + 1 /\ r = top + 2
      BY <1>2, <1>3
    <3> HIDE DEF l, r
    <3>2. QED
      BY <1>2, <1>5, <2>7, <3>1, DataAssumption, SMTT(20) DEF Addresses
  <2> DEFINE V == [n EXCEPT !.left = l, !.right = r]
  <2>9. /\ V \in TreeNode /\ V.idx = n.idx /\ V.count = n.count /\ V.lo = n.lo /\ V.hi = n.hi
        /\ V.left = l /\ V.right = r
    <3>1. l \in Nat /\ r \in Nat
      BY <1>3
    <3> HIDE DEF l, r, n
    <3>2. n \in TreeNode
      BY <1>8
    <3>3. QED
      BY <3>1, <3>2 DEF TreeNode
  <2>10. heap' = [heap EXCEPT ![v] = V, ![l] = L, ![r] = R]
    BY <1>3, <2>1, <2>8 DEF Heaps
  <2> HIDE DEF V, l, r
  <2>11. heap' \in Heaps
    BY <1>3, <2>5, <2>6, <2>8, <2>9, <2>10 DEF Heaps
  <2>12. /\ \A a \in 1 .. top : a # v => heap'[a] = heap[a]
         /\ heap'[v] = V /\ heap'[l] = L /\ heap'[r] = R
    <3>1. v # l /\ v # r
      BY <1>5, <2>8
    <3>2. QED
      BY <1>3, <2>8, <2>10, <3>1 DEF Heaps
  <2>13. Grows(heap, heap', top, v, s)
    <3>1. /\ heap'[top + 1] = L /\ heap'[top + 2] = R /\ V.left = top + 1 /\ V.right = top + 2
      BY <2>8, <2>9, <2>12
    <3>2. \A a \in {v, top + 1, top + 2} : heap'[a] \in TreeNode
      BY <2>5, <2>6, <2>9, <2>12, <3>1
    <3>3. QED
      BY <2>5, <2>6, <2>9, <2>12, <3>1, <3>2 DEF Grows
  <2>14. Shape(heap', top + 2) /\ Boxes(points, s.idx, heap', top + 2)
    <3> DEFINE h == heap
               g == heap'
               t == top
               pts == points
               x == idx
    <3>1. /\ t \in Nat /\ Shape(h, t) /\ t + 2 \in Addresses /\ v \in 1 .. t /\ Leaf(h[v])
          /\ Grows(h, g, t, v, s) /\ s.n_lo \in 1 .. h[v].count - 1
          /\ s.cdim \in Dims /\ s.cval \in Coord
          /\ h[v].lo[s.cdim] <= s.cval /\ s.cval <= h[v].hi[s.cdim]
          /\ End(h[1]) <= N /\ Boxes(pts, x, h, t)
          /\ Splits(x, pts, h[v].idx, h[v].count, h[v].lo, h[v].hi, s)
      BY <1>2, <1>5, <1>9, <2>2, <2>3, <2>7, <2>13
    <3> HIDE DEF h, g, t, pts, x, v, s
    <3>2. Shape(g, t + 2)
      BY <3>1, GrowsShape
    <3>3. Boxes(pts, s.idx, g, t + 2)
      BY <3>1, GrowsBoxes
    <3>4. QED
      BY <3>2, <3>3 DEF g, t, pts
  <2>15. \A a \in 1 .. top : heap'[a].idx = heap[a].idx /\ heap'[a].count = heap[a].count
                             /\ End(heap'[a]) = End(heap[a])
    <3> TAKE a \in 1 .. top
    <3>1. heap'[a].idx = heap[a].idx /\ heap'[a].count = heap[a].count
      BY <2>9, <2>12
    <3>2. QED
      BY <3>1 DEF End
  <2>16. Opened(heap, stack, heap', top + 2, r, l, stack')
    <3> DEFINE h == heap
               g == heap'
               t == top
               t2 == top + 2
               st == stack
    <3>1. /\ t \in Nat /\ t2 \in Nat /\ t <= t2 /\ Shape(h, t) /\ st \in Seq(1 .. t) /\ st # <<>>
          /\ StackRow(h, st)
          /\ \A a \in 1 .. t : g[a].idx = h[a].idx /\ End(g[a]) = End(h[a])
          /\ l \in 1 .. t2 /\ r \in 1 .. t2
      <4>1. top \in Nat => /\ top <= top + 2 /\ top + 2 \in Nat
                           /\ top + 1 \in 1 .. top + 2 /\ top + 2 \in 1 .. top + 2
        OBVIOUS
      <4>2. QED
        BY <1>1, <1>2, <1>4, <2>8, <2>15, <4>1
    <3>2. /\ g[l].idx = h[st[Len(st)]].idx /\ End(g[l]) = g[r].idx
          /\ End(g[r]) = End(h[st[Len(st)]])
          /\ g[r].idx \in Int /\ h[st[Len(st)]].idx < g[r].idx /\ g[r].idx < End(h[st[Len(st)]])
      <4>1. L.idx = n.idx /\ End(L) = n.idx + s.n_lo
        BY <2>5 DEF End
      <4>2. End(R) = End(n) /\ n.idx < R.idx /\ R.idx < End(n) /\ R.idx \in Int
        <5>1. End(R) = (n.idx + s.n_lo) + (n.count - s.n_lo)
          BY <2>6 DEF End
        <5>2. End(R) = n.idx + n.count /\ End(n) = n.idx + n.count
          BY <1>8, <2>4, <5>1
        <5>3. QED
          BY <2>4, <2>6, <5>2
      <4>3. QED
        BY <2>6, <2>12, <4>1, <4>2
    <3>3. stack' = Front(st) \o <<r, l>>
      BY <2>1 DEF l, r
    <3> HIDE DEF h, g, t, t2, st
    <3>4. Opened(h, st, g, t2, r, l, Front(st) \o <<r, l>>)
      BY <3>1, <3>2, StackSplit
    <3>5. QED
      BY <3>3, <3>4 DEF h, g, t2, st
  <2>17. /\ stack' \in Seq(1 .. top + 2) /\ Len(stack') = m + 1
         /\ StackRow(heap', stack')
         /\ Begin(heap', stack') = n.idx
         /\ \A j \in 1 .. m - 1 : stack'[j] = stack[j]
         /\ stack'[m] = r /\ stack'[m + 1] = l
    BY <1>5, <2>16 DEF Opened
  <2>18. top' = top + 2
    BY <1>3, <2>1 DEF top
  <2>19. heap'[1].idx = heap[1].idx /\ heap'[1].count = size /\ End(heap'[1]) = End(heap[1])
    BY <1>2, <2>15
  <2>20. HeldOK'
    <3>1. HeapOK(points', idx', heap', top')
      BY <1>1, <2>1, <2>14, <2>18 DEF HeapOK
    <3>2. QED
      BY <1>1, <1>2, <2>17, <2>18, <2>19, <3>1 DEF HeldOK
  <2>21. GrowingOK(heap', top + 2, stack')
    <3>1. (top + 2) + 1 = 2 * (Begin(heap', stack') - heap'[1].idx + Len(stack'))
      <4> DEFINE t == top
                 b == n.idx
                 f == heap[1].idx
      <4>1. t \in Int /\ b \in Int /\ f \in Int /\ m \in Int /\ 1 \in Int /\ t + 1 = 2 * (b - f + m)
        BY <1>2, <1>4, <1>5, SMTT(20)
      <4> HIDE DEF t, b, f, m
      <4>2. (t + 2) + 1 = 2 * (b - f + (m + 1))
        BY <4>1, NodeCounted
      <4>3. QED
        BY <2>17, <2>19, <4>2 DEF t, b, f, m
    <3>2. \A j \in 1 .. Len(stack') : Leaf(heap'[stack'[j]])
      <4> TAKE j \in 1 .. Len(stack')
      <4>1. j = m \/ j = m + 1 \/ j \in 1 .. m - 1
        BY <1>5, <2>17, OneOfLastTwo
      <4>2. CASE j \in 1 .. m - 1
        <5>1. stack'[j] = stack[j] /\ stack[j] \in 1 .. top /\ stack[j] # v /\ j \in 1 .. m
          BY <1>5, <2>17, <4>2
        <5>2. heap'[stack[j]] = heap[stack[j]]
          BY <2>12, <5>1
        <5>3. QED
          BY <1>4, <5>1, <5>2
      <4>3. QED
        BY <2>5, <2>6, <2>12, <2>17, <4>1, <4>2
    <3>3. ASSUME NEW a \in 1 .. top + 2, Leaf(heap'[a]), heap'[a].count # 1
          PROVE  \E j \in 1 .. Len(stack') : stack'[j] = a
      <4>1. a = l \/ a = r \/ a \in 1 .. top
        BY <1>2, <2>8
      <4>2. m \in 1 .. Len(stack') /\ m + 1 \in 1 .. Len(stack')
        BY <1>5, <2>17
      <4>3. CASE a \in 1 .. top
        <5>1. a # v
          <6>1. V.left # NoNode
            BY <1>2, <2>8, <2>9 DEF NoNode
          <6>2. ~Leaf(V)
            BY <6>1 DEF Leaf
          <6>3. QED
            BY <2>12, <3>3, <6>2
        <5>2. heap'[a] = heap[a]
          BY <2>12, <4>3, <5>1
        <5>3. PICK j \in 1 .. m : stack[j] = a
          BY <1>4, <3>3, <4>3, <5>2
        <5>4. j # m
          BY <5>1, <5>3
        <5>5. j \in 1 .. m - 1 /\ j \in 1 .. Len(stack')
          BY <1>5, <2>17, <5>4
        <5>6. stack'[j] = a
          BY <2>17, <5>3, <5>5
        <5>7. QED
          BY <5>5, <5>6
      <4>4. QED
        BY <2>17, <4>1, <4>2, <4>3
    <3>4. QED
      BY <2>17, <3>1, <3>2, <3>3 DEF GrowingOK
  <2>22. GrowingOK(heap', top', stack')
    BY <2>18, <2>21
  <2> DEFINE pts == points
             x == idx
             y == s.idx
             f == n.idx
             e == n.idx + n.count
  <2>23. /\ pts \in [All -> Point] /\ x \in [All -> All] /\ f \in Nat /\ e \in Nat
         /\ Rearranges(x, y, f .. e - 1) /\ e <= Frontier(calls) /\ Finished <= f
         /\ f .. e - 1 \in SUBSET All
    <3>1. n.idx + n.count - 1 = (n.idx + n.count) - 1 /\ n.idx + n.count \in Nat
      BY <1>5, <1>8
    <3>2. Rearranges(idx, s.idx, n.idx .. (n.idx + n.count) - 1)
      BY <2>3, <3>1
    <3>3. n.idx .. (n.idx + n.count) - 1 \subseteq All
      <4>1. n.idx + n.count <= N
        BY <1>2, <1>5, <1>8, DataAssumption
      <4>2. QED
        BY <1>5, <1>8, <4>1, DataAssumption, SMTT(20) DEF All
    <3>4. e <= Frontier(calls) /\ Finished <= f
      BY <1>2, <1>8
    <3>5. QED
      BY <1>2, <1>5, <3>1, <3>2, <3>3, <3>4
  <2>24. Order(y)
    <3> DEFINE Q == f .. e - 1
    <3>1. Q \in SUBSET All /\ Rearranges(x, y, Q) /\ Order(x)
      BY <1>3, <2>23
    <3> HIDE DEF Q, x, y, f, e
    <3>2. QED
      BY <3>1, OrderKept
  <2>25. CallsOK(pts, y, calls, NextPart)
    <3> DEFINE cs == calls
               w == NextPart
    <3>1. CallsOK(pts, x, cs, w) /\ e <= Frontier(cs)
      BY <1>3, <2>23
    <3> HIDE DEF pts, x, y, f, e, cs, w
    <3>2. CallsOK(pts, y, cs, w)
      BY <2>23, <3>1, CallsKept
    <3>3. QED
      BY <3>2 DEF cs, w
  <2>26. PartsOK(pts, y, image, part, Finished)
    <3> DEFINE im == image
               p == part
               fin == Finished
    <3>1. fin \in Nat /\ PartsOK(pts, x, im, p, fin) /\ fin <= N /\ fin <= f
      <4>1. heap[1].idx <= N
        <5> DEFINE a == heap[1].idx
                   b == n.idx
                   c == End(n)
                   d == End(heap[1])
        <5>1. a \in Nat /\ b \in Nat /\ c \in Nat /\ d \in Nat
              /\ a <= b /\ b < c /\ c <= d /\ d <= N
          BY <1>2, <1>5, <1>8
        <5> HIDE DEF a, b, c, d
        <5>2. a <= N
          BY <5>1, DataAssumption
        <5>3. QED
          BY <5>2 DEF a
      <4>2. QED
        BY <1>2, <1>3, <2>23, <4>1
    <3> HIDE DEF pts, x, y, f, e, im, p, fin
    <3>2. PartsOK(pts, y, im, p, fin)
      BY <2>23, <3>1, PartsKept
    <3>3. QED
      BY <3>2 DEF im, p, fin
  <2>27. NextPart' = NextPart /\ Finished' = Finished /\ Written' = Written
    BY <1>1, <1>2, <2>19 DEF NextPart, Finished, Written
  <2>28. TypesOK'
    <3>1. node_addr' \in Nat
      BY <1>3, <2>1
    <3>2. QED
      BY <1>1, <1>3, <2>1, <2>11, <2>24, <3>1 DEF TypesOK
  <2>29. CallsOK(points', idx', calls', NextPart')
    BY <1>1, <2>1, <2>25, <2>27
  <2>30. PartsOK(points', idx', image', part', Finished')
    BY <1>1, <2>1, <2>26, <2>27
  <2>31. ImageOK(image', Written', part', stage', ofs', Finished')
    BY <1>1, <1>3, <2>27
  <2>32. stage' = "build"
    BY <1>1
  <2>33. QED
    BY <2>20, <2>22, <2>28, <2>29, <2>30, <2>31, <2>32 DEF BuildInv
<1>12. QED
  BY <1>10, <1>11

------------------------------------------------------------------------------
(* Every step keeps it; and what it says when all trees are built.         *)

(* A step that changes nothing of the trees,                               *)
LEMMA BuildStutters ==
  ASSUME BuildInv, UNCHANGED building
  PROVE  BuildInv'
<1>1. /\ points' = points /\ idx' = idx /\ stage' = stage /\ calls' = calls /\ part' = part
      /\ ofs' = ofs /\ heap' = heap /\ node_addr' = node_addr /\ size' = size
      /\ stack' = stack /\ prev' = prev /\ counter' = counter /\ image' = image
  BY DEF building, nodes
<1>2. top' = top /\ NextPart' = NextPart /\ Finished' = Finished /\ Written' = Written
  BY <1>1 DEF top, NextPart, Finished, Written
<1>3. (TypesOK <=> TypesOK') /\ (HeldOK <=> HeldOK')
  BY <1>1, <1>2 DEF TypesOK, HeldOK
<1>4. QED
  BY <1>1, <1>2, <1>3 DEF BuildInv

(* and one that does.                                                      *)
LEMMA BuildStep ==
  ASSUME BuildInv, EnoughPoints, BuildNext
  PROVE  BuildInv'
<1>1. CASE RecursiveSplit
  BY <1>1, SplitKeeps
<1>2. CASE BeginTree
  BY <1>2, BeginKeeps
<1>3. CASE BuildNode
  BY <1>3, NodeKeeps
<1>4. CASE NextTraversal
  BY <1>4, StageEnds
<1>5. CASE UpdateSums
  BY <1>5, SumsKeep
<1>6. CASE ScaleSums
  BY <1>6, ScaleKeeps
<1>7. CASE ReadoutNode
  BY <1>7, ReadoutKeeps
<1>8. CASE EndTree
  BY <1>8, EndKeeps
<1>9. QED
  BY <1>1, <1>2, <1>3, <1>4, <1>5, <1>6, <1>7, <1>8 DEF BuildNext

(* When all calls are made there are P parts, with the entries the test    *)
(* bench hands to init_tree_node_memory; their roots share out all places. *)
LEMMA WhenBuilt ==
  ASSUME BuildInv, Built
  PROVE  /\ \A q \in Parts : /\ init_tree_node_memory(q) = MemoryOf(image, q)
                             /\ PartDone(points, idx, MemoryOf(image, q))
                             /\ End(MemoryOf(image, q)[1]) <= N
         /\ \A q, r \in Parts : q # r => Apart(MemoryOf(image, q)[1], MemoryOf(image, r)[1])
         /\ \A j \in All : \E q \in Parts : j \in Places(MemoryOf(image, q)[1])
<1>1. stage = "split" /\ calls = <<>>
  BY DEF Built
<1>2. /\ CallsOK(points, idx, calls, part) /\ PartsOK(points, idx, image, part, N)
      /\ ImageOK(image, ofs, part, stage, ofs, N)
  BY <1>1 DEF BuildInv, NextPart, Finished, Frontier, Written
<1>3. part = P
  <2>1. PICK at \in [1 .. Len(calls) + 1 -> 0 .. P] : at[1] = P /\ at[Len(calls) + 1] = part
    BY <1>2 DEF CallsOK
  <2>2. Len(calls) = 0
    BY <1>1
  <2>3. QED
    BY <2>1, <2>2
<1>4. 0 .. P - 1 = Parts
  BY DEF Parts
<1>5. DOMAIN image = 0 .. LastImageEntry
  <2>1. ofs = 2 * N - P /\ DOMAIN image = 0 .. ofs - 1
    BY <1>2, <1>3 DEF ImageOK
  <2>2. ofs - 1 = LastImageEntry
    BY <2>1, DataAssumption DEF LastImageEntry
  <2>3. QED
    BY <2>1, <2>2
<1>6. ASSUME NEW q \in Parts
      PROVE  init_tree_node_memory(q) = MemoryOf(image, q)
  <2>1. LastImageEntry \in Int
    BY DataAssumption DEF LastImageEntry
  <2>2. \A a : {j \in DOMAIN image : /\ j <= LastImageEntry
                                     /\ image[j].part = q /\ image[j].addr = a} = EntriesFor(image, q, a)
    BY <1>5, <2>1 DEF EntriesFor
  <2>3. QED
    BY <2>2 DEF init_tree_node_memory, MemoryOf
<1>7. QED
  BY <1>2, <1>3, <1>4, <1>6 DEF PartsOK, All

(* The leaf of memory m that has the place j.                              *)
HasLeaf(m, a, j) == a \in Addresses /\ m[a].count = 1 /\ Leaf(m[a]) /\ m[a].idx = j

(* Every place of a finished part has a leaf,                              *)
LEMMA LeafExists ==
  ASSUME NEW pts, NEW ix, NEW m, PartDone(pts, ix, m), NEW j \in Places(m[1])
  PROVE  \E a : HasLeaf(m, a, j)
<1>1. PICK t \in Addresses : Good(pts, ix, m, t)
  BY DEF PartDone
<1>2. t \in Nat /\ Shape(m, t) /\ Grown(m, t)
  BY <1>1, DataAssumption DEF Good, Addresses
<1>3. PICK a \in 1 .. t : Leaf(m[a]) /\ j \in Places(m[a])
  BY <1>2 DEF Shape, Covered
<1>4. m[a].count = 1 /\ m[a].idx \in Nat
  BY <1>2, <1>3, NodeOf DEF Grown
<1>5. m[a].idx = j
  BY <1>3, <1>4 DEF Places
<1>6. a \in Addresses
  BY <1>1, <1>3, DataAssumption DEF Addresses
<1>7. QED
  BY <1>3, <1>4, <1>5, <1>6 DEF HasLeaf

(* and no two.                                                             *)
LEMMA LeafIn ==
  ASSUME NEW pts, NEW ix, NEW m, PartDone(pts, ix, m), NEW a \in Addresses,
         m[a].count = 1, Leaf(m[a])
  PROVE  /\ m[a].idx \in Nat /\ m[a].idx \in Places(m[1])
         /\ \A b : HasLeaf(m, b, m[a].idx) => b = a
<1>1. PICK t \in Addresses : Good(pts, ix, m, t) /\ \A c \in Addresses : t < c => m[c] = Blank
  BY DEF PartDone
<1>2. t \in Nat /\ Shape(m, t)
  BY <1>1, DataAssumption DEF Good, Addresses
<1>3. \A c \in Addresses : m[c].count = 1 => c \in 1 .. t
  <2> SUFFICES ASSUME NEW c \in Addresses, m[c].count = 1 PROVE c \in 1 .. t
    OBVIOUS
  <2>1. ~(t < c)
    BY <1>1, BlankNode
  <2>2. QED
    BY <1>2, <2>1, DataAssumption DEF Addresses
<1>4. a \in 1 .. t /\ m[a].idx \in Nat
  BY <1>2, <1>3, NodeOf
<1>5. m[a].idx \in Places(m[1])
  <2>1. m[a].idx \in Places(m[a])
    BY <1>4 DEF Places
  <2>2. QED
    BY <1>2, <1>4, <2>1, NodeOf
<1>6. ASSUME NEW b, HasLeaf(m, b, m[a].idx), b # a
      PROVE  FALSE
  <2>1. b \in 1 .. t /\ Leaf(m[b]) /\ m[b].count = 1 /\ m[b].idx = m[a].idx
    BY <1>3, <1>6 DEF HasLeaf
  <2>2. Apart(m[b], m[a])
    BY <1>2, <1>4, <1>6, <2>1 DEF Shape, Laminar
  <2>3. QED
    BY <1>4, <2>1, <2>2 DEF Apart, End
<1>7. QED
  BY <1>4, <1>5, <1>6

(* So over all the parts every point has one leaf.                         *)
LEMMA OneLeafEach ==
  ASSUME BuildInv, Built, NEW x \in All
  PROVE  \E n \in Parts \X Addresses : \A o \in Parts \X Addresses :
           (LET node == Memories[o[1]][o[2]]
            IN  node.count = 1 /\ Leaf(node) /\ idx[node.idx] = x) <=> o = n
<1> DEFINE m(q) == MemoryOf(image, q)
<1>1. \A q \in Parts : /\ Memories[q] = m(q) /\ PartDone(points, idx, m(q)) /\ End(m(q)[1]) <= N
                       /\ m(q)[1] \in TreeNode
  BY WhenBuilt, RootOf DEF Memories
<1>2. \A q, r \in Parts : q # r => Apart(m(q)[1], m(r)[1])
  BY WhenBuilt
<1>3. \A j \in All : \E q \in Parts : j \in Places(m(q)[1])
  BY WhenBuilt
<1> HIDE DEF m
<1>4. Order(idx)
  BY DEF BuildInv, TypesOK
<1>5. PICK j \in All : idx[j] = x
  BY <1>4 DEF Order
<1>6. PICK q \in Parts : j \in Places(m(q)[1])
  BY <1>3
<1>7. PICK a : HasLeaf(m(q), a, j)
  BY <1>1, <1>6, LeafExists
<1>8. a \in Addresses /\ <<q, a>> \in Parts \X Addresses /\ Memories[q] = m(q)
      /\ m(q)[a].count = 1 /\ Leaf(m(q)[a]) /\ m(q)[a].idx = j
  BY <1>1, <1>6, <1>7 DEF HasLeaf
<1>9. ASSUME NEW r \in Parts, NEW b \in Addresses, m(r)[b].count = 1, Leaf(m(r)[b]),
             idx[m(r)[b].idx] = x
      PROVE  r = q /\ b = a
  <2>1. m(r)[b].idx \in Nat /\ m(r)[b].idx \in Places(m(r)[1])
    BY <1>1, <1>9, LeafIn
  <2>2. m(r)[b].idx \in All
    <3>1. Places(m(r)[1]) \in SUBSET All
      BY <1>1, PlacesAreAll
    <3>2. QED
      BY <2>1, <3>1
  <2>3. m(r)[b].idx = j
    BY <1>4, <1>5, <1>9, <2>2 DEF Order, OneToOne
  <2>4. r = q
    <3>1. SUFFICES ASSUME r # q PROVE FALSE
      OBVIOUS
    <3>2. Apart(m(r)[1], m(q)[1])
      BY <1>2, <3>1
    <3>3. j \in Int /\ m(r)[1].idx <= j /\ j < End(m(r)[1]) /\ m(q)[1].idx <= j /\ j < End(m(q)[1])
          /\ m(r)[1].idx \in Nat /\ m(q)[1].idx \in Nat /\ End(m(r)[1]) \in Nat /\ End(m(q)[1]) \in Nat
      BY <1>1, <1>6, <2>1, <2>3, NodeRange
    <3>4. QED
      BY <3>2, <3>3 DEF Apart
  <2>5. b = a
    <3>1. HasLeaf(m(q), b, m(q)[a].idx)
      BY <1>8, <1>9, <2>3, <2>4 DEF HasLeaf
    <3>2. QED
      BY <1>1, <1>8, <3>1, LeafIn
  <2>6. QED
    BY <2>4, <2>5
<1>10. \A o \in Parts \X Addresses :
           (LET node == Memories[o[1]][o[2]]
            IN  node.count = 1 /\ Leaf(node) /\ idx[node.idx] = x) <=> o = <<q, a>>
  <2> TAKE o \in Parts \X Addresses
  <2>1. o[1] \in Parts /\ o[2] \in Addresses /\ o = <<o[1], o[2]>> /\ Memories[o[1]] = m(o[1])
    BY <1>1
  <2>2. ASSUME m(o[1])[o[2]].count = 1, Leaf(m(o[1])[o[2]]), idx[m(o[1])[o[2]].idx] = x
        PROVE  o = <<q, a>>
    BY <1>9, <2>1, <2>2
  <2>3. ASSUME o = <<q, a>>
        PROVE  m(o[1])[o[2]].count = 1 /\ Leaf(m(o[1])[o[2]]) /\ idx[m(o[1])[o[2]].idx] = x
    BY <1>5, <1>8, <2>3
  <2>4. QED
    BY <2>1, <2>2, <2>3
<1>11. QED
  BY <1>8, <1>10

(* EachPointInOneLeaf, which counts the leaves.                            *)
LEMMA InvariantImpliesOneLeaf ==
  ASSUME BuildInv
  PROVE  EachPointInOneLeaf
<1> SUFFICES ASSUME Built, NEW x \in DOMAIN points
             PROVE  Cardinality({n \in Parts \X Addresses :
                                   LET node == Memories[n[1]][n[2]]
                                   IN  node.count = 1 /\ Leaf(node) /\ idx[node.idx] = x}) = 1
  BY DEF EachPointInOneLeaf
<1>1. x \in All
  BY DEF BuildInv, TypesOK
<1>2. PICK n \in Parts \X Addresses : \A o \in Parts \X Addresses :
        (LET node == Memories[o[1]][o[2]]
         IN  node.count = 1 /\ Leaf(node) /\ idx[node.idx] = x) <=> o = n
  BY <1>1, OneLeafEach
<1>3. {o \in Parts \X Addresses :
        LET node == Memories[o[1]][o[2]]
        IN  node.count = 1 /\ Leaf(node) /\ idx[node.idx] = x} = {n}
  BY <1>2
<1>4. Cardinality({n}) = 1
  BY FS_Singleton
<1>5. QED
  BY <1>3, <1>4

(* NodesDescribePoints.                                                    *)
LEMMA InvariantImpliesDescribed ==
  ASSUME BuildInv, SumsFit
  PROVE  NodesDescribePoints
<1> SUFFICES ASSUME Built, NEW q \in Parts, NEW a \in InTree(Memories[q])
             PROVE  /\ DescribesPoints(Memories[q][a])
                    /\ ~Leaf(Memories[q][a]) =>
                          SharedOut(Memories[q][a], Memories[q][Memories[q][a].left],
                                    Memories[q][Memories[q][a].right])
  BY DEF NodesDescribePoints
<1> DEFINE m == MemoryOf(image, q)
<1>1. Memories[q] = m /\ PartDone(points, idx, m)
  BY WhenBuilt DEF Memories
<1> HIDE DEF m
<1>2. PICK t \in Addresses : Good(points, idx, m, t) /\ \A c \in Addresses : t < c => m[c] = Blank
  BY <1>1 DEF PartDone
<1>3. t \in Nat /\ Shape(m, t) /\ Boxes(points, idx, m, t)
      /\ \A b \in 1 .. t : SumOK(points, idx, m[b])
  BY <1>2, DataAssumption DEF Good, Addresses
<1>4. a \in Addresses /\ m[a].count > 0
  BY <1>1 DEF InTree
<1>5. a \in 1 .. t
  <2>1. ~(t < a)
    BY <1>2, <1>4, BlankNode
  <2>2. QED
    BY <1>3, <1>4, <2>1, DataAssumption DEF Addresses
<1>6. m[a] \in TreeNode
  BY <1>3, <1>5, NodeOf
<1>7. \A j \in Places(m[a]), d \in Dims :
        m[a].lo[d] <= points[idx[j]][d] /\ points[idx[j]][d] <= m[a].hi[d]
  <2>1. PointsIn(points, idx, m[a].idx, End(m[a]), m[a].lo, m[a].hi)
    BY <1>3, <1>5 DEF Boxes
  <2>2. m[a].idx .. End(m[a]) - 1 = Places(m[a])
    <3>1. m[a].idx \in Int /\ m[a].count \in Int
      BY <1>6, NodeRange
    <3>2. QED
      BY <3>1 DEF Places, End
  <2>3. QED
    BY <2>1, <2>2 DEF PointsIn
<1>8. \A d \in Dims : m[a].wgtCent[d] = MapThenSumSet(LAMBDA j : points[idx[j]][d], Places(m[a]))
  BY <1>3, <1>5 DEF SumOK, Total
<1>9. ~Leaf(m[a]) => SharedOut(m[a], m[m[a].left], m[m[a].right])
  BY <1>3, <1>5 DEF Shape, Linked
<1>10. QED
  BY <1>1, <1>7, <1>8, <1>9 DEF DescribesPoints

(* A node of a finished part, or none, as the kernel has it in its memory: *)
(* its cell lies inside its parent's, a leaf's sum is its point.           *)
LEMMA LoadedNode ==
  ASSUME points \in [All -> Point], idx \in [All -> All],
         NEW m, PartDone(points, idx, m), End(m[1]) <= N, NEW a \in Addresses
  PROVE  /\ m[a].lo \in Point /\ m[a].hi \in Point /\ m[a].mid \in Point
         /\ Leaf(m[a]) => m[a].wgtCent \in Point /\ InsideBox([lo |-> m[a].wgtCent, hi |-> m[a].wgtCent], m[a])
         /\ ~Leaf(m[a]) => \A c \in {m[a].left, m[a].right} : c \in Addresses /\ InsideBox(m[c], m[a])
<1>1. PICK t \in Addresses : Good(points, idx, m, t) /\ \A c \in Addresses : t < c => m[c] = Blank
  BY DEF PartDone
<1>2. t \in Nat /\ Shape(m, t) /\ Boxes(points, idx, m, t) /\ Grown(m, t)
      /\ \A b \in 1 .. t : SumOK(points, idx, m[b])
  BY <1>1, DataAssumption DEF Good, Addresses
<1>3. CASE a \notin 1 .. t
  <2>1. m[a] = Blank
    <3>1. t < a
      BY <1>2, <1>3, DataAssumption DEF Addresses
    <3>2. QED
      BY <1>1, <3>1
  <2>2. Blank.mid \in Point
    BY BlankNode DEF TreeNode
  <2>3. Blank.wgtCent = Origin
    BY DEF Blank, setup_tree_node
  <2>4. \A d \in Dims : Origin[d] <= Origin[d]
    BY DEF Origin
  <2>5. QED
    BY <2>1, <2>2, <2>3, <2>4, BlankNode DEF InsideBox
<1>4. CASE a \in 1 .. t
  <2>1. m[a] \in TreeNode /\ m[a].lo \in Point /\ m[a].hi \in Point /\ m[a].mid \in Point
    BY <1>2, <1>4, NodeOf, NodeRange
  <2>2. ASSUME ~Leaf(m[a]), NEW c \in {m[a].left, m[a].right}
        PROVE  c \in Addresses /\ InsideBox(m[c], m[a])
    <3>1. c \in 1 .. t /\ InsideBox(m[c], m[a])
      BY <1>2, <1>4, <2>2 DEF Shape, Linked, Child
    <3>2. QED
      BY <1>1, <3>1, DataAssumption DEF Addresses
  <2>3. ASSUME Leaf(m[a])
        PROVE  m[a].wgtCent \in Point /\ \A d \in Dims : m[a].lo[d] <= m[a].wgtCent[d]
                                                         /\ m[a].wgtCent[d] <= m[a].hi[d]
    <3> DEFINE j == m[a].idx
    <3>1. m[a].count = 1 /\ j \in Nat /\ End(m[a]) = j + 1
      BY <1>2, <1>4, <2>3, NodeOf DEF Grown
    <3>2. Places(m[a]) = {j}
      BY <3>1 DEF Places
    <3>3. j \in All
      <4>1. End(m[a]) <= End(m[1]) /\ End(m[a]) \in Nat /\ End(m[1]) \in Nat
        BY <1>2, <1>4, NodeOf
      <4>2. j + 1 <= N
        BY <3>1, <4>1, DataAssumption
      <4>3. QED
        BY <3>1, <4>2, DataAssumption DEF All
    <3> HIDE DEF j
    <3>4. \A d \in Dims : m[a].wgtCent[d] = points[idx[j]][d]
      <4> TAKE d \in Dims
      <4>1. m[a].wgtCent[d] = Total(points, idx, d, {j})
        BY <1>2, <1>4, <2>3, <3>2 DEF SumOK
      <4>2. Total(points, idx, d, {j}) = points[idx[j]][d]
        BY <3>3, TotalOne
      <4>3. QED
        BY <4>1, <4>2
    <3>5. points[idx[j]] \in Point /\ m[a].wgtCent \in [Dims -> Int]
      BY <2>1, <3>3 DEF TreeNode
    <3>6. m[a].wgtCent = points[idx[j]]
      BY <3>4, <3>5 DEF Point
    <3>7. PointsIn(points, idx, j, j + 1, m[a].lo, m[a].hi)
      BY <1>2, <1>4, <3>1 DEF Boxes, j
    <3>8. j \in j .. (j + 1) - 1
      BY <3>3, DataAssumption DEF All
    <3>9. QED
      BY <3>5, <3>6, <3>7, <3>8 DEF PointsIn
  <2>4. QED
    BY <2>1, <2>2, <2>3 DEF InsideBox
<1>5. QED
  BY <1>3, <1>4

(* So what a kernel loads is a tree of nested boxes.                       *)
LEMMA LoadNests ==
  ASSUME BuildInv, NEW q \in Parts, Load(q)
  PROVE  NestedBoxes'
<1>1. points \in [All -> Point] /\ idx \in [All -> All]
  BY DataAssumption DEF BuildInv, TypesOK, Order
<1> DEFINE m == MemoryOf(image, q)
<1>2. tree' = m /\ PartDone(points, idx, m) /\ End(m[1]) <= N
  BY WhenBuilt DEF Load
<1> HIDE DEF m
<1>3. ASSUME NEW n \in Nodes
      PROVE  /\ m[n].lo \in Point /\ m[n].hi \in Point /\ m[n].mid \in Point
             /\ IF m[n].left = NULL_PTR /\ m[n].right = NULL_PTR
                  THEN m[n].wgtCent \in Point /\ \A d \in Dims : m[n].lo[d] <= m[n].wgtCent[d]
                                                                 /\ m[n].wgtCent[d] <= m[n].hi[d]
                  ELSE \A c \in {m[n].left, m[n].right} :
                         /\ c \in Nodes
                         /\ \A d \in Dims : m[n].lo[d] <= m[c].lo[d] /\ m[c].hi[d] <= m[n].hi[d]
  <2>1. n \in Addresses
    BY NodesAreAddresses
  <2>2. /\ m[n].lo \in Point /\ m[n].hi \in Point /\ m[n].mid \in Point
        /\ Leaf(m[n]) => m[n].wgtCent \in Point
                         /\ InsideBox([lo |-> m[n].wgtCent, hi |-> m[n].wgtCent], m[n])
        /\ ~Leaf(m[n]) => \A c \in {m[n].left, m[n].right} : c \in Addresses /\ InsideBox(m[c], m[n])
    BY <1>1, <1>2, <2>1, LoadedNode
  <2>3. Leaf(m[n]) <=> m[n].left = NULL_PTR /\ m[n].right = NULL_PTR
    BY DEF Leaf, NoNode, NULL_PTR
  <2>4. QED
    BY <2>2, <2>3, NodesAreAddresses DEF InsideBox
<1>4. QED
  BY <1>2, <1>3 DEF NestedBoxes, IsLeaf, Children, InBox

------------------------------------------------------------------------------
(* The whole data path: the trees, and the walk down the loaded one.       *)

(* The invariant of the data path is that of the trees and that of the     *)
(* walk, whose one assumption, NestedBoxes, the first establishes.         *)
ClusteringInv ==
  /\ BuildInv /\ IInv
  /\ kernel \in {NoKernel} \cup Parts
  /\ kernel = NoKernel => pc = "idle"

(* A memory with nothing in it is a tree of nested boxes,                  *)
LEMMA BlankNests ==
  ASSUME tree = [a \in Addresses |-> Blank]
  PROVE  NestedBoxes
<1>1. \A n \in Nodes : tree[n] = Blank
  BY NodesAreAddresses
<1>2. Blank.mid \in Point /\ Blank.wgtCent = Origin /\ Blank.left = NULL_PTR /\ Blank.right = NULL_PTR
  BY BlankNode DEF TreeNode, Blank, setup_tree_node, NULL_PTR, NoNode
<1>3. \A d \in Dims : Origin[d] <= Origin[d]
  BY DEF Origin
<1>4. ASSUME NEW n \in Nodes
      PROVE  IsLeaf(n) /\ tree[n].wgtCent \in Point /\ InBox(tree[n].wgtCent, n)
  BY <1>1, <1>2, <1>3, BlankNode DEF IsLeaf, InBox
<1>5. QED
  BY <1>1, <1>2, <1>4, BlankNode DEF NestedBoxes

(* and while no walk is under way there is no more to the invariant.       *)
LEMMA IdleInv ==
  ASSUME NestedBoxes, pc = "idle", k0 \in Indices, new_k \in Indices, depth = 0
  PROVE  IInv
BY DEF IInv, TypeOK, SearchInv, ListsSorted, PruneInv, Kept, Visiting

(* The invariant holds at the start,                                       *)
LEMMA ClusteringStarts == ClusteringInit => ClusteringInv
<1> SUFFICES ASSUME ClusteringInit PROVE ClusteringInv
  OBVIOUS
<1>1. BuildInv
  BY BuildStarts DEF ClusteringInit
<1>2. NestedBoxes
  BY BlankNests DEF ClusteringInit
<1>3. pc = "idle" /\ k0 \in Indices /\ new_k \in Indices /\ depth = 0
  BY CentreAssumption DEF ClusteringInit, VisitInit, Indices
<1>4. IInv
  BY <1>2, <1>3, IdleInv
<1>5. QED
  BY <1>1, <1>3, <1>4 DEF ClusteringInv, ClusteringInit

(* and every step keeps it.                                                *)
LEMMA ClusteringStep ==
  ASSUME ClusteringInv, EnoughPoints, [ClusteringNext]_clusteringVars
  PROVE  ClusteringInv'
<1>1. /\ BuildInv /\ IInv /\ kernel \in {NoKernel} \cup Parts
      /\ kernel = NoKernel => pc = "idle"
  BY DEF ClusteringInv
<1>2. CASE Build
  <2>1. BuildInv'
    BY <1>1, <1>2, BuildStep DEF Build
  <2>2. UNCHANGED vars /\ kernel' = kernel /\ pc' = pc
    BY <1>2 DEF Build, vars, visit
  <2>3. IInv'
    BY <1>1, <2>2, VisitStutters
  <2>4. QED
    BY <1>1, <2>1, <2>2, <2>3 DEF ClusteringInv
<1>3. ASSUME NEW q \in Parts, Load(q)
      PROVE  ClusteringInv'
  <2>1. UNCHANGED building /\ UNCHANGED visit /\ kernel = NoKernel /\ kernel' = q
    BY <1>3 DEF Load
  <2>2. BuildInv'
    BY <1>1, <2>1, BuildStutters
  <2>3. NestedBoxes'
    BY <1>1, <1>3, LoadNests
  <2>4. pc' = pc /\ k0' = k0 /\ new_k' = new_k /\ depth' = depth
    BY <2>1 DEF visit, prune
  <2>5. pc = "idle" /\ k0 \in Indices /\ new_k \in Indices /\ depth = 0
    <3>1. pc = "idle" /\ ~Visiting
      BY <1>1, <2>1 DEF Visiting
    <3>2. k0 \in Indices /\ new_k \in Indices /\ depth \in Nat /\ (Visiting <=> depth > 0)
      BY <1>1 DEF IInv, TypeOK
    <3>3. QED
      BY <3>1, <3>2
  <2>6. IInv'
    BY <2>3, <2>4, <2>5 DEF IInv, TypeOK, SearchInv, ListsSorted, PruneInv, Kept, Visiting
  <2>7. QED
    BY <1>1, <2>1, <2>2, <2>4, <2>5, <2>6 DEF ClusteringInv
<1>4. CASE Cluster
  <2>1. UNCHANGED building /\ kernel' = kernel /\ kernel # NoKernel /\ (Start(1) \/ Walk)
    BY <1>4 DEF Cluster
  <2>2. BuildInv'
    BY <1>1, <2>1, BuildStutters
  <2>3. 1 \in Nodes
    BY NodesAreAddresses, DataAssumption DEF Addresses
  <2>4. IInv'
    BY <1>1, <2>1, <2>3, StartKeepsInvariant, MinSearchKeepsInvariant, PruneKeepsInvariant,
       VisitChildKeepsInvariant DEF Walk
  <2>5. QED
    BY <1>1, <2>1, <2>2, <2>4 DEF ClusteringInv
<1>5. CASE UNCHANGED clusteringVars
  <2>1. UNCHANGED building /\ UNCHANGED vars /\ kernel' = kernel /\ pc' = pc
    BY <1>5 DEF clusteringVars, vars, visit
  <2>2. BuildInv' /\ IInv'
    BY <1>1, <2>1, BuildStutters, VisitStutters
  <2>3. QED
    BY <1>1, <2>1, <2>2 DEF ClusteringInv
<1>6. QED
  BY <1>2, <1>3, <1>4, <1>5 DEF ClusteringNext

(* For any number of points, any data, and any widths that satisfy         *)
(* WidthAssumption, if no part of one point is split again: the trees are  *)
(* what BuildInv says, the walk is what IInv says.                         *)
THEOREM ClusteringInvariant == ClusteringSpec /\ []EnoughPoints => []ClusteringInv
<1>1. ClusteringInit => ClusteringInv
  BY ClusteringStarts
<1>2. ClusteringInv /\ EnoughPoints /\ [ClusteringNext]_clusteringVars => ClusteringInv'
  BY ClusteringStep
<1>3. QED
  BY <1>1, <1>2, PTL DEF ClusteringSpec

(* Every data point is the point of exactly one leaf of the trees the      *)
(* kernels get: recursive_split, split_bounding_box, buildkdTree,          *)
(* readout_tree and init_tree_node_memory lose and double none.            *)
THEOREM PointsInOneLeaf == ClusteringSpec /\ []EnoughPoints => []EachPointInOneLeaf
<1>1. ClusteringInv => EachPointInOneLeaf
  BY InvariantImpliesOneLeaf DEF ClusteringInv
<1>2. QED
  BY <1>1, ClusteringInvariant, PTL

(* Every node's cell holds its points, its wgtCent is their sum, and its   *)
(* children share them out, if no sum leaves the wide type.                *)
THEOREM NodesDescribed ==
  ASSUME SumsFit
  PROVE  ClusteringSpec /\ []EnoughPoints => []NodesDescribePoints
<1>1. ClusteringInv => NodesDescribePoints
  BY InvariantImpliesDescribed DEF ClusteringInv
<1>2. QED
  BY <1>1, ClusteringInvariant, PTL

(* What a kernel loads is what process_node takes for granted: cells       *)
(* inside their parents', a leaf's point in its cell.                      *)
THEOREM LoadedBoxesNest == ClusteringSpec /\ []EnoughPoints => []LoadedTreeNested
<1>1. ClusteringInv => LoadedTreeNested
  BY DEF ClusteringInv, IInv, TypeOK, LoadedTreeNested
<1>2. QED
  BY <1>1, ClusteringInvariant, PTL

(* So minsearch_loop and tooFar_loop of process_node keep the closest      *)
(* candidate in every tree that tree construction builds,                  *)
THEOREM ClosestSurvivesInBuiltTree == ClusteringSpec /\ []EnoughPoints => []ClosestSurvives
<1>1. ClusteringInv => ClosestSurvives
  BY InvariantImpliesClosestSurvives DEF ClusteringInv
<1>2. QED
  BY <1>1, ClusteringInvariant, PTL

(* and a data point, or the points of an inner node at a dead end, go to   *)
(* the nearest of all centres, up to the bits the arithmetic drops.        *)
THEOREM NearestInBuiltTree == ClusteringSpec /\ []EnoughPoints => []NearestWithinSlack
<1>1. ClusteringInv => NearestWithinSlack
  BY InvariantImpliesNearestWithinSlack DEF ClusteringInv
<1>2. QED
  BY <1>1, ClusteringInvariant, PTL

------------------------------------------------------------------------------
(* With one or two parts nothing needs to be assumed of the data.          *)

(* A call of recursive_split with p = 1 is for all points.                 *)
WholeCalls == \A j \in 1 .. Len(calls) : calls[j].p = 1 => calls[j].n = N

(* So with P <= 2, two points are enough,                                  *)
LEMMA WholeEnough ==
  ASSUME P <= 2, P <= N, BuildInv, WholeCalls
  PROVE  EnoughPoints
<1>1. calls \in Seq(CallType)
  BY DEF BuildInv, CallsOK
<1>2. SUFFICES ASSUME NEW j \in DOMAIN calls, calls[j].p < P
               PROVE  calls[j].n >= 2
  BY DEF EnoughPoints
<1>3. j \in 1 .. Len(calls) /\ calls[j] \in CallType
  BY <1>1
<1>4. calls[j].p \in {1, 2, 4}
  BY <1>3 DEF CallType
<1>5. calls[j].p = 1 /\ 2 <= N
  BY <1>2, <1>4, DataAssumption
<1>6. calls[j].n = N
  BY <1>3, <1>5 DEF WholeCalls
<1>7. QED
  BY <1>5, <1>6, DataAssumption

(* for this holds at the start,                                            *)
LEMMA WholeStart ==
  ASSUME BuildInit
  PROVE  WholeCalls
<1>1. Len(calls) = 1 /\ calls[1].n = N
  BY DEF BuildInit, Call
<1>2. QED
  BY <1>1 DEF WholeCalls

(* and every step keeps it.                                                *)
LEMMA WholeStep ==
  ASSUME BuildInv, WholeCalls, BuildNext
  PROVE  WholeCalls'
<1>1. calls \in Seq(CallType)
  BY DEF BuildInv, CallsOK
<1>2. CASE RecursiveSplit
  <2> DEFINE c == Last(calls)
             s == split_bounding_box(c.index, c.n, c.lo, c.hi)
             r == Call(2 * c.p, c.index + s.n_lo, c.n - s.n_lo, UpperCell(c.lo, s), c.hi)
             l == Call(2 * c.p, c.index, s.n_lo, c.lo, LowerCell(c.hi, s))
  <2>1. calls' = Front(calls) \o <<r, l>> /\ calls # <<>>
    BY <1>2 DEF RecursiveSplit
  <2>2. r.p = 2 * c.p /\ l.p = 2 * c.p
    BY DEF Call
  <2>3. c \in CallType
    <3> HIDE DEF c
    <3>1. Last(calls) \in CallType
      BY <1>1, <2>1, FrontIs
    <3>2. QED
      BY <3>1 DEF c
  <2>4. 2 * c.p # 1
    <3>1. c.p \in {1, 2, 4}
      BY <2>3 DEF CallType
    <3> HIDE DEF c
    <3>2. QED
      BY <3>1
  <2>5. r.p # 1 /\ l.p # 1
    BY <2>2, <2>4
  <2> HIDE DEF r, l, c, s
  <2> DEFINE cs == calls
             V == CallType \cup {r, l}
  <2>6. Replaces(V, cs, r, l, Front(cs) \o <<r, l>>)
    <3>1. cs \in Seq(V) /\ cs # <<>> /\ r \in V /\ l \in V
      BY <1>1, <2>1
    <3> HIDE DEF cs, V
    <3>2. QED
      BY <3>1, Replaced
  <2>7. /\ Len(calls') = Len(calls) + 1
        /\ \A j \in 1 .. Len(calls) - 1 : calls'[j] = calls[j]
        /\ calls'[Len(calls)] = r /\ calls'[Len(calls) + 1] = l
    BY <2>1, <2>6 DEF Replaces
  <2>8. Len(calls) \in Nat \ {0}
    BY <1>1, <2>1, FrontIs
  <2>9. ASSUME NEW j \in 1 .. Len(calls'), calls'[j].p = 1
        PROVE  calls'[j].n = N
    <3>1. j \in 1 .. Len(calls) - 1
      BY <2>5, <2>7, <2>8, <2>9, OneOfLastTwo
    <3>2. j \in 1 .. Len(calls) /\ calls'[j] = calls[j]
      BY <2>7, <2>8, <3>1
    <3>3. QED
      BY <2>9, <3>2 DEF WholeCalls
  <2>10. QED
    BY <2>9 DEF WholeCalls
<1>3. CASE BeginTree
  <2>1. calls' = Front(calls) /\ calls # <<>>
    BY <1>3 DEF BeginTree
  <2>2. /\ Len(calls) \in Nat \ {0} /\ Len(Front(calls)) = Len(calls) - 1
        /\ \A j \in 1 .. Len(calls) - 1 : Front(calls)[j] = calls[j]
    BY <1>1, <2>1, FrontIs
  <2>3. \A j \in 1 .. Len(calls') : j \in 1 .. Len(calls) /\ calls'[j] = calls[j]
    BY <2>1, <2>2
  <2>4. QED
    BY <2>3 DEF WholeCalls
<1>4. CASE calls' = calls
  BY <1>4 DEF WholeCalls
<1>5. QED
  BY <1>2, <1>3, <1>4
  DEF BuildNext, BuildNode, NextTraversal, UpdateSums, ScaleSums, ReadoutNode, EndTree

(* With one kernel or two, and a point for each, no part of one point is   *)
(* split again, whatever the data: the theorems above need no premise.     *)
THEOREM TwoPartsHaveEnough ==
  ASSUME P <= 2, P <= N
  PROVE  ClusteringSpec => []EnoughPoints
<1> DEFINE I == ClusteringInv /\ WholeCalls
<1>1. ClusteringInit => I
  BY ClusteringStarts, WholeStart DEF ClusteringInit
<1>2. I /\ [ClusteringNext]_clusteringVars => I'
  <2> SUFFICES ASSUME ClusteringInv, WholeCalls, [ClusteringNext]_clusteringVars
               PROVE  I'
    OBVIOUS
  <2>1. BuildInv
    BY DEF ClusteringInv
  <2>2. ClusteringInv'
    BY <2>1, WholeEnough, ClusteringStep
  <2>3. BuildNext \/ UNCHANGED building
    BY DEF ClusteringNext, Build, Load, Cluster, clusteringVars
  <2>4. CASE BuildNext
    BY <2>1, <2>2, <2>4, WholeStep
  <2>5. CASE UNCHANGED building
    BY <2>2, <2>5 DEF building, WholeCalls
  <2>6. QED
    BY <2>3, <2>4, <2>5
<1>3. I => EnoughPoints
  BY WholeEnough DEF ClusteringInv
<1>4. QED
  BY <1>1, <1>2, <1>3, PTL DEF ClusteringSpec

==============================================================================
