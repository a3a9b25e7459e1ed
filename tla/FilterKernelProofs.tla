-------------------------- MODULE FilterKernelProofs --------------------------
(***************************************************************************)
(* Proofs about the clustering kernel, for every number of kernels, trees, *)
(* centres, points and iterations: the lists that visits still need are    *)
(* intact and all are deleted in the end, memory and leaked cells are      *)
(* bounded, the heap is used as FreeList asks, and each point is added     *)
(* exactly once.  The heaps must have room (RoomForCalls); the last        *)
(* theorem also needs that shared records are used for one iteration only  *)
(* (SharedRecordsUsedOnce; without it the run filter_accumulates fails).   *)
(*                                                                         *)
(* Order: recursion over a tree and over sets; heights; what a heap and a  *)
(* walk look like at each stage and what each step does to them; the       *)
(* invariant IInv with one lemma per action; its consequences; then the    *)
(* records, with an invariant of their own (BufferInv).                    *)
(***************************************************************************)
EXTENDS FilterKernel, FunctionTheorems, FiniteSetTheorems, SequenceTheorems,
        WellFoundedInduction, TLAPS

------------------------------------------------------------------------------
LEMMA LeastSubset ==
  ASSUME NEW X, IsFiniteSet(X), NEW T \in SUBSET (SUBSET X), T # {}
  PROVE  \E s \in T : \A t \in T : ~ (t \subseteq s /\ t # s)
<1> DEFINE R == StrictSubsetOrdering(X)
<1>1. IsWellFoundedOn(R, SUBSET X)
  <2>1. IsWellFoundedOn(R, FiniteSubsetsOf(X))
    BY FS_StrictSubsetOrderingWellFounded
  <2>2. FiniteSubsetsOf(X) = SUBSET X
    BY FS_FiniteSubsetsOfFinite
  <2>3. QED
    BY <2>1, <2>2, Zenon
<1>2. \A s, t \in SUBSET X : <<t, s>> \in R <=> t \subseteq s /\ t # s
  BY DEF StrictSubsetOrdering
<1> HIDE DEF R
<1>3. PICK s \in T : \A t \in T : ~ (<<t, s>> \in R)
  BY <1>1, WFMin
<1>4. ASSUME NEW t \in T, t \subseteq s, t # s
      PROVE  FALSE
  <2>1. t \in SUBSET X /\ s \in SUBSET X
    BY <1>3
  <2>2. <<t, s>> \in R
    BY <1>2, <1>4, <2>1
  <2>3. QED
    BY <1>3, <2>2
<1>5. QED
  BY <1>3, <1>4

(* Recursion.  A function that is defined by what it is at two smaller     *)
(* arguments exists: of the sets of arguments that a partial one leaves    *)
(* out, a least one is empty.                                              *)
Extends(f, D, Z, a, b, base, node) ==
  \A x \in D : f[x] = IF x \in Z THEN base[x] ELSE node[<<x, f[a[x]], f[b[x]]>>]

LEMMA Recursion ==
  ASSUME NEW X, IsFiniteSet(X), NEW V, NEW Z, NEW a, NEW b,
         NEW base \in [X -> V], NEW node \in [X \X V \X V -> V],
         \A x \in X : x \in Z \/ (a[x] \in X /\ b[x] \in X),
         \A T \in SUBSET X :
           T # {} => \E x \in T : x \in Z \/ (a[x] \notin T /\ b[x] \notin T)
  PROVE  \E f \in [X -> V] : Extends(f, X, Z, a, b, base, node)
<1> DEFINE Closed(D) == \A x \in D : x \in Z \/ (a[x] \in D /\ b[x] \in D)
           Good(D) == Closed(D) /\ \E f \in [D -> V] : Extends(f, D, Z, a, b, base, node)
           Rests == {R \in SUBSET X : Good(X \ R)}
<1>1. X \in Rests
  <2>1. X \ X = {}
    OBVIOUS
  <2>2. [x \in {} |-> x] \in [{} -> V]
    OBVIOUS
  <2>3. QED
    BY <2>1, <2>2 DEF Extends
<1>2. PICK R \in Rests : \A Q \in Rests : ~ (Q \subseteq R /\ Q # R)
  <2>1. Rests \in SUBSET (SUBSET X) /\ Rests # {}
    BY <1>1
  <2> HIDE DEF Rests
  <2>2. QED
    BY <2>1, LeastSubset
<1>3. R = {}
  <2> SUFFICES ASSUME R # {}
               PROVE  FALSE
    OBVIOUS
  <2> DEFINE D == X \ R
  <2>1. PICK x \in R : x \in Z \/ (a[x] \notin R /\ b[x] \notin R)
    OBVIOUS
  <2>2. PICK f \in [D -> V] : Extends(f, D, Z, a, b, base, node)
    OBVIOUS
  <2> DEFINE Q == R \ {x}
             v == IF x \in Z THEN base[x] ELSE node[<<x, f[a[x]], f[b[x]]>>]
             g == [y \in X \ Q |-> IF y = x THEN v ELSE f[y]]
  <2>3. X \ Q = D \cup {x} /\ x \notin D /\ Closed(D)
    OBVIOUS
  <2>4. v \in V
    <3>1. CASE x \in Z
      BY <3>1
    <3>2. CASE x \notin Z
      <4>1. a[x] \in D /\ b[x] \in D
        BY <2>1, <3>2
      <4>2. <<x, f[a[x]], f[b[x]]>> \in X \X V \X V
        BY <4>1
      <4>3. QED
        BY <3>2, <4>2
    <3>3. QED
      BY <3>1, <3>2
  <2>5. g \in [X \ Q -> V]
    BY <2>3, <2>4
  <2>6. Closed(X \ Q)
    BY <2>1, <2>3
  <2>7. Extends(g, X \ Q, Z, a, b, base, node)
    <3> SUFFICES ASSUME NEW y \in X \ Q
                 PROVE  g[y] = IF y \in Z THEN base[y] ELSE node[<<y, g[a[y]], g[b[y]]>>]
      BY DEF Extends
    <3>1. y \in Z \/ (a[y] \in D /\ b[y] \in D)
      BY <2>1, <2>3
    <3>2. \A z \in D : g[z] = f[z]
      BY <2>3
    <3> HIDE DEF v
    <3>3. CASE y = x
      BY <3>1, <3>2, <3>3 DEF v
    <3>4. CASE y # x
      BY <2>2, <2>3, <3>1, <3>2, <3>4 DEF Extends
    <3>5. QED
      BY <3>3, <3>4
  <2>8. Q \in Rests
    BY <2>5, <2>6, <2>7
  <2>9. QED
    BY <1>2, <2>8
<1>4. QED
  BY <1>2, <1>3

(* The points below a node and its height.                                 *)
LEMMA NodeFacts ==
  ASSUME NEW u \in Nodes
  PROVE  IF IsLeaf(u) THEN u \in Points
                      ELSE Left[u] \in Nodes /\ Right[u] \in Nodes
BY KernelAssumption, TreeAssumption DEF IsLeaf, Points, NULL_PTR

LEMMA NoCycle ==
  ASSUME NEW S \in SUBSET Nodes, S # {}
  PROVE  \E u \in S : IsLeaf(u) \/ (Left[u] \notin S /\ Right[u] \notin S)
BY TreeAssumption

LEMMA TreeRecursion ==
  ASSUME NEW V, NEW base \in [Nodes -> V], NEW node \in [Nodes \X V \X V -> V]
  PROVE  \E f \in [Nodes -> V] : Extends(f, Nodes, Points, Left, Right, base, node)
<1>1. \A x \in Nodes : x \in Points \/ (Left[x] \in Nodes /\ Right[x] \in Nodes)
  BY NodeFacts
<1>2. \A S \in SUBSET Nodes :
        S # {} => \E u \in S : u \in Points \/ (Left[u] \notin S /\ Right[u] \notin S)
  BY TreeAssumption
<1>3. IsFiniteSet(Nodes)
  BY KernelAssumption
<1>4. QED
  BY <1>1, <1>2, <1>3, Recursion

LEMMA UnderIs ==
  ASSUME NEW u \in Nodes
  PROVE  Under[u] = IF IsLeaf(u) THEN {u} ELSE Under[Left[u]] \cup Under[Right[u]]
<1> DEFINE V == SUBSET Nodes
           node == [t \in Nodes \X V \X V |-> t[2] \cup t[3]]
           base == [x \in Nodes |-> {x}]
<1>1. base \in [Nodes -> V]
  OBVIOUS
<1>2. \A t \in Nodes \X V \X V : t[2] \in V /\ t[3] \in V
  <2> HIDE DEF V
  <2>1. QED
    OBVIOUS
<1>3. \A v, w \in V : v \cup w \in V
  OBVIOUS
<1>4. node \in [Nodes \X V \X V -> V]
  <2> HIDE DEF V
  <2>1. QED
    BY <1>2, <1>3
<1>5. PICK f \in [Nodes -> V] : Extends(f, Nodes, Points, Left, Right, base, node)
  <2> HIDE DEF node, base, V
  <2>1. QED
    BY <1>1, <1>4, TreeRecursion
<1>6. f = [x \in Nodes |-> IF IsLeaf(x) THEN {x} ELSE f[Left[x]] \cup f[Right[x]]]
  <2> SUFFICES ASSUME NEW x \in Nodes
               PROVE  f[x] = IF IsLeaf(x) THEN {x} ELSE f[Left[x]] \cup f[Right[x]]
    OBVIOUS
  <2> HIDE DEF V
  <2>1. CASE IsLeaf(x)
    BY <1>5, <2>1 DEF Extends, Points
  <2>2. CASE ~IsLeaf(x)
    <3>1. f[Left[x]] \in V /\ f[Right[x]] \in V
      BY <2>2, NodeFacts
    <3>2. f[x] = node[<<x, f[Left[x]], f[Right[x]]>>]
      BY <1>5, <2>2 DEF Extends, Points
    <3>3. QED
      BY <2>2, <3>1, <3>2
  <2>3. QED
    BY <2>1, <2>2
<1>7. Under = [x \in Nodes |-> IF IsLeaf(x) THEN {x} ELSE Under[Left[x]] \cup Under[Right[x]]]
  BY <1>6 DEF Under
<1>8. QED
  BY <1>7

LEMMA UnderType ==
  ASSUME NEW u \in Nodes
  PROVE  Under[u] \in SUBSET Points
<1> DEFINE S == {v \in Nodes : Under[v] \notin SUBSET Points}
<1>1. ASSUME S # {}
      PROVE  FALSE
  <2>1. PICK v \in S : IsLeaf(v) \/ (Left[v] \notin S /\ Right[v] \notin S)
    BY <1>1, NoCycle
  <2>2. Under[v] = IF IsLeaf(v) THEN {v} ELSE Under[Left[v]] \cup Under[Right[v]]
    BY UnderIs
  <2>3. QED
    BY <2>1, <2>2, NodeFacts
<1>2. QED
  BY <1>1

LEMMA MaxOfTwo ==
  ASSUME NEW i \in Nat, NEW j \in Nat
  PROVE  /\ Max({i, j}) \in {i, j} /\ Max({i, j}) >= i /\ Max({i, j}) >= j
<1>1. \E x \in {i, j} : \A y \in {i, j} : x >= y
  OBVIOUS
<1>2. QED
  BY <1>1 DEF Max

LEMMA HeightIs ==
  ASSUME NEW u \in Nodes
  PROVE  Height[u] = IF IsLeaf(u) THEN 0 ELSE 1 + Max({Height[Left[u]], Height[Right[u]]})
<1> DEFINE node == [t \in Nodes \X Nat \X Nat |-> 1 + Max({t[2], t[3]})]
           base == [x \in Nodes |-> 0]
<1>1. base \in [Nodes -> Nat]
  OBVIOUS
<1>2. \A i, j \in Nat : 1 + Max({i, j}) \in Nat
  BY MaxOfTwo
<1>3. node \in [Nodes \X Nat \X Nat -> Nat]
  <2>1. \A t \in Nodes \X Nat \X Nat : t[2] \in Nat /\ t[3] \in Nat
    OBVIOUS
  <2>2. QED
    BY <1>2, <2>1
<1>4. PICK f \in [Nodes -> Nat] : Extends(f, Nodes, Points, Left, Right, base, node)
  <2> HIDE DEF node, base
  <2>1. QED
    BY <1>1, <1>3, TreeRecursion
<1>5. f = [x \in Nodes |-> IF IsLeaf(x) THEN 0 ELSE 1 + Max({f[Left[x]], f[Right[x]]})]
  <2> SUFFICES ASSUME NEW x \in Nodes
               PROVE  f[x] = IF IsLeaf(x) THEN 0 ELSE 1 + Max({f[Left[x]], f[Right[x]]})
    OBVIOUS
  <2>1. CASE IsLeaf(x)
    BY <1>4, <2>1 DEF Extends, Points
  <2>2. CASE ~IsLeaf(x)
    <3>1. f[Left[x]] \in Nat /\ f[Right[x]] \in Nat
      BY <2>2, NodeFacts
    <3>2. f[x] = node[<<x, f[Left[x]], f[Right[x]]>>]
      BY <1>4, <2>2 DEF Extends, Points
    <3>3. QED
      BY <2>2, <3>1, <3>2
  <2>3. QED
    BY <2>1, <2>2
<1>6. Height = [x \in Nodes |->
                  IF IsLeaf(x) THEN 0 ELSE 1 + Max({Height[Left[x]], Height[Right[x]]})]
  BY <1>5 DEF Height
<1>7. QED
  BY <1>6

LEMMA HeightType ==
  ASSUME NEW u \in Nodes
  PROVE  Height[u] \in Nat
<1> DEFINE S == {v \in Nodes : Height[v] \notin Nat}
<1>1. ASSUME S # {}
      PROVE  FALSE
  <2>1. PICK v \in S : IsLeaf(v) \/ (Left[v] \notin S /\ Right[v] \notin S)
    BY <1>1, NoCycle
  <2>2. Height[v] = IF IsLeaf(v) THEN 0 ELSE 1 + Max({Height[Left[v]], Height[Right[v]]})
    BY HeightIs
  <2>3. CASE IsLeaf(v)
    BY <2>2, <2>3
  <2>4. CASE ~IsLeaf(v)
    <3>1. Height[Left[v]] \in Nat /\ Height[Right[v]] \in Nat
      BY <2>1, <2>4, NodeFacts
    <3>2. Max({Height[Left[v]], Height[Right[v]]}) \in {Height[Left[v]], Height[Right[v]]}
      BY <3>1, MaxOfTwo
    <3>3. QED
      BY <2>2, <2>4, <3>1, <3>2
  <2>5. QED
    BY <2>3, <2>4
<1>2. QED
  BY <1>1

LEMMA Lower ==
  ASSUME NEW u \in Nodes, ~IsLeaf(u)
  PROVE  Height[Left[u]] < Height[u] /\ Height[Right[u]] < Height[u]
<1> DEFINE h == Max({Height[Left[u]], Height[Right[u]]})
<1>1. Height[Left[u]] \in Nat /\ Height[Right[u]] \in Nat
  BY NodeFacts, HeightType
<1>2. h \in Nat /\ h >= Height[Left[u]] /\ h >= Height[Right[u]]
  BY <1>1, MaxOfTwo
<1>3. Height[u] = 1 + h
  BY HeightIs
<1> HIDE DEF h
<1>4. QED
  BY <1>1, <1>2, <1>3

------------------------------------------------------------------------------
(* The sum over the kernels.                                               *)
LEMMA SumIs ==
  ASSUME NEW r \in [Kernels -> [Points -> Nat]], NEW y \in Points
  PROVE  \E f \in [SUBSET Kernels -> Nat] :
           /\ \A s \in SUBSET Kernels :
                f[s] = IF s = {} THEN 0 ELSE LET x == CHOOSE x \in s : TRUE
                                             IN r[x][y] + f[s \ {x}]
           /\ MapThenSumSet(LAMBDA p : r[p][y], Kernels) = f[Kernels]
<1> DEFINE one(s) == CHOOSE x \in s : TRUE
           X == SUBSET Kernels
           rest == [s \in X |-> s \ {one(s)}]
           node == [t \in X \X Nat \X Nat |-> IF t[1] = {} THEN 0 ELSE r[one(t[1])][y] + t[2]]
           base == [s \in X |-> 0]
<1>1. \A s \in X : s # {} => one(s) \in s /\ s \ {one(s)} \in X
  OBVIOUS
<1>2. PICK f \in [X -> Nat] : Extends(f, X, {{}}, rest, rest, base, node)
  <2>1. IsFiniteSet(X)
    BY KernelAssumption, FS_SUBSET
  <2>2. base \in [X -> Nat]
    OBVIOUS
  <2>3. node \in [X \X Nat \X Nat -> Nat]
    <3>1. \A t \in X \X Nat \X Nat : t[1] \in X /\ t[2] \in Nat
      <4> HIDE DEF X
      <4>1. QED
        OBVIOUS
    <3>2. \A s \in X, i \in Nat : s # {} => r[one(s)][y] + i \in Nat
      BY <1>1
    <3> HIDE DEF X
    <3>3. QED
      BY <3>1, <3>2
  <2>4. \A s \in X : s \in {{}} \/ (rest[s] \in X /\ rest[s] \in X)
    BY <1>1
  <2>5. ASSUME NEW T \in SUBSET X, T # {}
        PROVE  \E s \in T : s \in {{}} \/ (rest[s] \notin T /\ rest[s] \notin T)
    <3>1. PICK s \in T : \A t \in T : ~ (t \subseteq s /\ t # s)
      BY <2>5, KernelAssumption, LeastSubset
    <3>2. s = {} \/ (rest[s] \subseteq s /\ rest[s] # s)
      BY <1>1
    <3> HIDE DEF rest
    <3>3. QED
      BY <3>1, <3>2
  <2> HIDE DEF X, rest, base, node
  <2>6. QED
    BY <2>1, <2>2, <2>3, <2>4, <2>5, Recursion
<1>3. f = [s \in X |-> IF s = {} THEN 0 ELSE r[one(s)][y] + f[s \ {one(s)}]]
  <2> SUFFICES ASSUME NEW s \in X
               PROVE  f[s] = IF s = {} THEN 0 ELSE r[one(s)][y] + f[s \ {one(s)}]
    OBVIOUS
  <2>1. CASE s = {}
    BY <1>2, <2>1 DEF Extends
  <2>2. CASE s # {}
    <3>1. rest[s] = s \ {one(s)} /\ f[rest[s]] \in Nat
      BY <1>1, <2>2
    <3>2. f[s] = node[<<s, f[rest[s]], f[rest[s]]>>]
      BY <1>2, <2>2 DEF Extends
    <3> HIDE DEF rest, X
    <3>3. QED
      BY <2>2, <3>1, <3>2
  <2>3. QED
    BY <2>1, <2>2
<1> DEFINE iter == CHOOSE iter :
             iter = [s \in X |-> IF s = {} THEN 0 ELSE r[one(s)][y] + iter[s \ {one(s)}]]
<1>4. MapThenSumSet(LAMBDA p : r[p][y], Kernels) = iter[Kernels]
  BY DEF MapThenSumSet, MapThenFoldSet
<1>5. iter = [s \in X |-> IF s = {} THEN 0 ELSE r[one(s)][y] + iter[s \ {one(s)}]]
  BY <1>3
<1> HIDE DEF iter
<1>6. \A s \in X : iter[s] \in Nat
  <2> DEFINE T == {s \in X : iter[s] \notin Nat}
  <2>1. ASSUME T # {}
        PROVE  FALSE
    <3>1. PICK s \in T : \A t \in T : ~ (t \subseteq s /\ t # s)
      <4>1. T \in SUBSET (SUBSET Kernels) /\ IsFiniteSet(Kernels)
        BY KernelAssumption
      <4> HIDE DEF T
      <4>2. QED
        BY <2>1, <4>1, LeastSubset
    <3>2. CASE s = {}
      BY <1>5, <3>2
    <3>3. CASE s # {}
      <4>1. one(s) \in s /\ s \ {one(s)} \in X /\ s \ {one(s)} \notin T
        BY <1>1, <3>1, <3>3
      <4>2. iter[s \ {one(s)}] \in Nat /\ r[one(s)][y] \in Nat
        BY <4>1
      <4>3. iter[s] = r[one(s)][y] + iter[s \ {one(s)}]
        BY <1>5, <3>3
      <4>4. QED
        BY <4>2, <4>3
    <3>4. QED
      BY <3>2, <3>3
  <2>2. QED
    BY <2>1
<1>7. QED
  BY <1>4, <1>5, <1>6

LEMMA SumType ==
  ASSUME NEW r \in [Kernels -> [Points -> Nat]]
  PROVE  Sum(r) \in [Points -> Nat]
<1>1. ASSUME NEW y \in Points
      PROVE  MapThenSumSet(LAMBDA p : r[p][y], Kernels) \in Nat
  <2>1. PICK f \in [SUBSET Kernels -> Nat] :
          /\ \A s \in SUBSET Kernels :
               f[s] = IF s = {} THEN 0 ELSE LET x == CHOOSE x \in s : TRUE
                                            IN r[x][y] + f[s \ {x}]
          /\ MapThenSumSet(LAMBDA p : r[p][y], Kernels) = f[Kernels]
    BY SumIs
  <2>2. QED
    BY <2>1
<1>2. QED
  BY <1>1 DEF Sum

(* Where only one of the records is not zero, the sum is that one.         *)
LEMMA SumOfOne ==
  ASSUME NEW r \in [Kernels -> [Points -> Nat]], NEW y \in Points, NEW q \in Kernels,
         \A p \in Kernels \ {q} : r[p][y] = 0
  PROVE  Sum(r)[y] = r[q][y]
<1>1. PICK f \in [SUBSET Kernels -> Nat] :
        /\ \A s \in SUBSET Kernels :
             f[s] = IF s = {} THEN 0 ELSE LET x == CHOOSE x \in s : TRUE
                                          IN r[x][y] + f[s \ {x}]
        /\ MapThenSumSet(LAMBDA p : r[p][y], Kernels) = f[Kernels]
  BY SumIs
<1> DEFINE T == {s \in SUBSET Kernels : f[s] # IF q \in s THEN r[q][y] ELSE 0}
<1>2. ASSUME T # {}
      PROVE  FALSE
  <2>1. PICK s \in T : \A t \in T : ~ (t \subseteq s /\ t # s)
    <3>1. T \in SUBSET (SUBSET Kernels) /\ IsFiniteSet(Kernels)
      BY KernelAssumption
    <3> HIDE DEF T
    <3>2. QED
      BY <1>2, <3>1, LeastSubset
  <2>2. CASE s = {}
    BY <1>1, <2>2
  <2>3. CASE s # {}
    <3>1. PICK x \in s : f[s] = r[x][y] + f[s \ {x}]
      BY <1>1, <2>3
    <3>2. s \ {x} \in SUBSET Kernels /\ s \ {x} \notin T
      BY <2>1, <3>1
    <3>3. f[s \ {x}] = IF q \in s \ {x} THEN r[q][y] ELSE 0
      BY <3>2
    <3>4. r[q][y] \in Nat
      OBVIOUS
    <3>5. CASE x = q
      BY <3>1, <3>3, <3>4, <3>5
    <3>6. CASE x # q
      BY <3>1, <3>3, <3>4, <3>6
    <3>7. QED
      BY <3>5, <3>6
  <2>4. QED
    BY <2>2, <2>3
<1>3. f[Kernels] = r[q][y]
  BY <1>2
<1>4. QED
  BY <1>1, <1>3 DEF Sum

------------------------------------------------------------------------------
(* The heap of one kernel: f is its free list, h the head, o its owners.   *)

(* A list as a function from its places: cells, each once, each linked to  *)
(* the next and the last to the word behind the memory.                    *)
Linked(f, h, s, n) ==
  /\ \A i, j \in 1 .. n : s[i] = s[j] => i = j
  /\ h = IF n = 0 THEN HeapSize ELSE s[1]
  /\ \A i \in 1 .. n : f[s[i]] = IF i = n THEN HeapSize ELSE s[i + 1]

HeldIn(o) == {c \in Cells : o[c] # 0}

(* The list has all cells but those that are held and some lost ones.  Cell*)
(* 1, where the next call starts, is held or on the list, and the cells in *)
(* front of it, which the next call will lose, are few: they were all held *)
(* when it was freed last.                                                 *)
FreeOnes(h, o, s, n, lost, depth) ==
  /\ \A i \in 1 .. n : o[s[i]] = 0
  /\ HeapSize - 1 <= n + Cardinality(HeldIn(o)) + lost
  /\ o[1] = 0 =>
       \E i \in 1 .. n : s[i] = 1 /\ (i - 1) + Cardinality(HeldIn(o)) <= depth

HeapGood(f, h, o, lost, depth) ==
  /\ f \in [Links -> Nat] /\ h \in Nat /\ o \in [Cells -> {0, 1}]
  /\ \E n \in Nat : \E s \in [1 .. n -> Cells] :
       Linked(f, h, s, n) /\ FreeOnes(h, o, s, n, lost, depth)

LEMMA CellFacts ==
  /\ 1 \in Cells /\ HeapSize \in Nat /\ HeapSize >= 2 /\ HeapSize \notin Cells
  /\ Cells \subseteq Links /\ Cells \subseteq Nat
  /\ IsFiniteSet(Cells) /\ Cardinality(Cells) = HeapSize - 1
<1>1. IsFiniteSet(1 .. HeapSize - 1) /\ Cardinality(1 .. HeapSize - 1) = HeapSize - 1
  BY HeapAssumption, FS_Interval
<1>2. QED
  BY <1>1, HeapAssumption DEF Cells, Links

LEMMA HeldFinite ==
  ASSUME NEW o
  PROVE  IsFiniteSet(HeldIn(o)) /\ Cardinality(HeldIn(o)) \in Nat
<1>1. HeldIn(o) \in SUBSET Cells
  BY DEF HeldIn
<1>2. QED
  BY <1>1, CellFacts, FS_Subset, FS_CardinalityType

LEMMA HoldOne ==
  ASSUME NEW o \in [Cells -> {0, 1}], NEW c \in Cells, o[c] = 0,
         NEW o2, o2 = [o EXCEPT ![c] = 1]
  PROVE  /\ o2 \in [Cells -> {0, 1}] /\ HeldIn(o2) = HeldIn(o) \cup {c}
         /\ Cardinality(HeldIn(o2)) = Cardinality(HeldIn(o)) + 1
<1>1. o2 \in [Cells -> {0, 1}] /\ HeldIn(o2) = HeldIn(o) \cup {c} /\ c \notin HeldIn(o)
  BY DEF HeldIn
<1>2. IsFiniteSet(HeldIn(o))
  BY HeldFinite
<1>3. Cardinality(HeldIn(o) \cup {c}) = Cardinality(HeldIn(o)) + 1
  BY <1>1, <1>2, FS_AddElement
<1>4. QED
  BY <1>1, <1>3

LEMMA DropOne ==
  ASSUME NEW o \in [Cells -> {0, 1}], NEW c \in Cells, o[c] = 1,
         NEW o2, o2 = [o EXCEPT ![c] = 0]
  PROVE  /\ o2 \in [Cells -> {0, 1}] /\ HeldIn(o2) = HeldIn(o) \ {c}
         /\ Cardinality(HeldIn(o2)) = Cardinality(HeldIn(o)) - 1
<1>1. o2 \in [Cells -> {0, 1}] /\ HeldIn(o2) = HeldIn(o) \ {c} /\ c \in HeldIn(o)
  BY DEF HeldIn
<1>2. QED
  BY <1>1, HeldFinite, FS_RemoveElement

(* malloc, while cells are neither held nor lost.                          *)
LEMMA HeapMalloc ==
  ASSUME NEW f, NEW h, NEW o, NEW lost \in Nat, NEW depth \in Nat,
         HeapGood(f, h, o, lost, depth),
         Cardinality(HeldIn(o)) + lost < HeapSize - 1
  PROVE  /\ h \in Cells /\ o[h] = 0
         /\ HeapGood(f, f[h], [o EXCEPT ![h] = 1], lost, depth)
<1> DEFINE o2 == [o EXCEPT ![h] = 1]
<1>0. PICK n \in Nat : \E s \in [1 .. n -> Cells] :
        Linked(f, h, s, n) /\ FreeOnes(h, o, s, n, lost, depth)
  BY DEF HeapGood
<1>1. PICK s \in [1 .. n -> Cells] :
        Linked(f, h, s, n) /\ FreeOnes(h, o, s, n, lost, depth)
  BY <1>0
<1>2. f \in [Links -> Nat] /\ h \in Nat /\ o \in [Cells -> {0, 1}]
  BY DEF HeapGood
<1>3. n >= 1 /\ h = s[1] /\ h \in Cells /\ o[h] = 0
  <2>1. Cardinality(HeldIn(o)) \in Nat /\ HeapSize \in Nat
    BY HeldFinite, CellFacts
  <2>2. HeapSize - 1 <= n + Cardinality(HeldIn(o)) + lost
    BY <1>1 DEF FreeOnes
  <2>3. n >= 1
    BY <2>1, <2>2
  <2>4. QED
    BY <1>1, <2>3 DEF Linked, FreeOnes
<1>4. /\ o2 \in [Cells -> {0, 1}] /\ HeldIn(o2) = HeldIn(o) \cup {h}
      /\ Cardinality(HeldIn(o2)) = Cardinality(HeldIn(o)) + 1
  BY <1>2, <1>3, HoldOne
<1> DEFINE t == [i \in 1 .. n - 1 |-> s[i + 1]]
<1>5. t \in [1 .. n - 1 -> Cells] /\ n - 1 \in Nat
  BY <1>3
<1>6. Linked(f, f[h], t, n - 1)
  BY <1>1, <1>3 DEF Linked
<1>7. \A i \in 1 .. n - 1 : t[i] # h
  BY <1>1, <1>3 DEF Linked
<1>8. FreeOnes(f[h], o2, t, n - 1, lost, depth)
  <2>1. \A i \in 1 .. n - 1 : o2[t[i]] = 0
    BY <1>1, <1>2, <1>5, <1>7 DEF FreeOnes
  <2>2. HeapSize - 1 <= (n - 1) + Cardinality(HeldIn(o2)) + lost
    BY <1>1, <1>4, HeldFinite, CellFacts DEF FreeOnes
  <2>3. ASSUME o2[1] = 0
        PROVE  \E i \in 1 .. n - 1 : t[i] = 1 /\ (i - 1) + Cardinality(HeldIn(o2)) <= depth
    <3>1. h # 1 /\ o[1] = 0
      BY <1>2, <2>3, CellFacts
    <3>2. PICK i \in 1 .. n : s[i] = 1 /\ (i - 1) + Cardinality(HeldIn(o)) <= depth
      BY <1>1, <3>1 DEF FreeOnes
    <3>3. i # 1
      BY <1>3, <3>1, <3>2
    <3>4. i - 1 \in 1 .. n - 1 /\ t[i - 1] = 1
      BY <3>2, <3>3
    <3> HIDE DEF t, o2
    <3>5. ((i - 1) - 1) + Cardinality(HeldIn(o2)) <= depth
      BY <1>4, <3>2, HeldFinite
    <3>6. QED
      BY <3>4, <3>5
  <2>4. QED
    BY <2>1, <2>2, <2>3 DEF FreeOnes
<1>9. f[h] \in Nat
  BY <1>2, <1>3, CellFacts
<1>10. QED
  BY <1>2, <1>3, <1>4, <1>5, <1>6, <1>8, <1>9 DEF HeapGood

(* free, of a cell that is held.                                           *)
LEMMA HeapFree ==
  ASSUME NEW f, NEW h, NEW o, NEW lost \in Nat, NEW depth \in Nat,
         HeapGood(f, h, o, lost, depth), NEW c \in Cells, o[c] # 0,
         Cardinality(HeldIn(o)) <= depth + 1
  PROVE  HeapGood([f EXCEPT ![c] = h], c, [o EXCEPT ![c] = 0], lost, depth)
<1> DEFINE o2 == [o EXCEPT ![c] = 0]
           f2 == [f EXCEPT ![c] = h]
<1>0. PICK n \in Nat : \E s \in [1 .. n -> Cells] :
        Linked(f, h, s, n) /\ FreeOnes(h, o, s, n, lost, depth)
  BY DEF HeapGood
<1>1. PICK s \in [1 .. n -> Cells] :
        Linked(f, h, s, n) /\ FreeOnes(h, o, s, n, lost, depth)
  BY <1>0
<1>2. f \in [Links -> Nat] /\ h \in Nat /\ o \in [Cells -> {0, 1}] /\ o[c] = 1
  BY DEF HeapGood
<1>3. /\ o2 \in [Cells -> {0, 1}] /\ HeldIn(o2) = HeldIn(o) \ {c}
      /\ Cardinality(HeldIn(o2)) = Cardinality(HeldIn(o)) - 1
  BY <1>2, DropOne
<1>4. f2 \in [Links -> Nat] /\ c \in Nat
  BY <1>2, CellFacts
<1> DEFINE t == [i \in 1 .. n + 1 |-> IF i = 1 THEN c ELSE s[i - 1]]
<1>5. t \in [1 .. n + 1 -> Cells] /\ n + 1 \in Nat
  OBVIOUS
<1>6. \A i \in 1 .. n : s[i] # c
  BY <1>1, <1>2 DEF FreeOnes
<1>7. Linked(f2, c, t, n + 1)
  <2>1. \A i, j \in 1 .. n + 1 : t[i] = t[j] => i = j
    BY <1>1, <1>6 DEF Linked
  <2>2. \A i \in 1 .. n + 1 : f2[t[i]] = IF i = n + 1 THEN HeapSize ELSE t[i + 1]
    <3> TAKE i \in 1 .. n + 1
    <3>1. CASE i = 1
      <4>1. f2[t[i]] = h
        BY <1>2, <3>1, CellFacts
      <4>2. h = IF n = 0 THEN HeapSize ELSE s[1]
        BY <1>1 DEF Linked
      <4>3. QED
        BY <3>1, <4>1, <4>2
    <3>2. CASE i # 1
      <4>1. i - 1 \in 1 .. n /\ t[i] = s[i - 1] /\ s[i - 1] \in Cells
        BY <3>2
      <4>2. f2[t[i]] = f[s[i - 1]]
        BY <1>2, <1>6, <4>1, CellFacts
      <4>3. f[s[i - 1]] = IF i - 1 = n THEN HeapSize ELSE s[(i - 1) + 1]
        BY <1>1, <4>1 DEF Linked
      <4>4. i # n + 1 => t[i + 1] = s[(i - 1) + 1]
        BY <3>2
      <4> HIDE DEF t, f2
      <4>5. QED
        BY <4>2, <4>3, <4>4
    <3>3. QED
      BY <3>1, <3>2
  <2>3. t[1] = c
    OBVIOUS
  <2> HIDE DEF t, f2
  <2>4. QED
    BY <2>1, <2>2, <2>3 DEF Linked
<1>8. FreeOnes(c, o2, t, n + 1, lost, depth)
  <2>1. \A i \in 1 .. n + 1 : o2[t[i]] = 0
    BY <1>1, <1>2, <1>5, <1>6 DEF FreeOnes
  <2>2. HeapSize - 1 <= (n + 1) + Cardinality(HeldIn(o2)) + lost
    <3>1. HeapSize - 1 <= n + Cardinality(HeldIn(o)) + lost
      BY <1>1 DEF FreeOnes
    <3> HIDE DEF o2
    <3>2. QED
      BY <1>1, <1>3, <3>1, HeldFinite, CellFacts
  <2>3. ASSUME o2[1] = 0
        PROVE  \E i \in 1 .. n + 1 : t[i] = 1 /\ (i - 1) + Cardinality(HeldIn(o2)) <= depth
    <3>1. CASE c = 1
      <4>1. 1 \in 1 .. n + 1 /\ t[1] = 1
        BY <3>1
      <4> HIDE DEF t, o2
      <4>2. (1 - 1) + Cardinality(HeldIn(o2)) <= depth
        BY <1>3, HeldFinite
      <4>3. QED
        BY <4>1, <4>2
    <3>2. CASE c # 1
      <4>1. o[1] = 0
        BY <1>2, <2>3, <3>2, CellFacts
      <4>2. PICK i \in 1 .. n : s[i] = 1 /\ (i - 1) + Cardinality(HeldIn(o)) <= depth
        BY <1>1, <4>1 DEF FreeOnes
      <4>3. i + 1 \in 1 .. n + 1 /\ t[i + 1] = 1
        BY <4>2
      <4> HIDE DEF t, o2
      <4>4. ((i + 1) - 1) + Cardinality(HeldIn(o2)) <= depth
        BY <1>3, <4>2, HeldFinite
      <4>5. QED
        BY <4>3, <4>4
    <3>3. QED
      BY <3>1, <3>2
  <2>4. QED
    BY <2>1, <2>2, <2>3 DEF FreeOnes
<1>9. QED
  BY <1>3, <1>4, <1>5, <1>7, <1>8 DEF HeapGood

(* A new call starts at cell 1, when nothing is held.                      *)
LEMMA HeapRestart ==
  ASSUME NEW f, NEW h, NEW o, NEW lost \in Nat, NEW depth \in Nat,
         HeapGood(f, h, o, lost, depth), HeldIn(o) = {}
  PROVE  HeapGood(f, 1, o, lost + depth, depth)
<1>0. PICK n \in Nat : \E s \in [1 .. n -> Cells] :
        Linked(f, h, s, n) /\ FreeOnes(h, o, s, n, lost, depth)
  BY DEF HeapGood
<1>1. PICK s \in [1 .. n -> Cells] :
        Linked(f, h, s, n) /\ FreeOnes(h, o, s, n, lost, depth)
  BY <1>0
<1>2. f \in [Links -> Nat] /\ o \in [Cells -> {0, 1}]
  BY DEF HeapGood
<1>3. Cardinality(HeldIn(o)) = 0 /\ o[1] = 0
  BY <1>2, CellFacts, FS_EmptySet DEF HeldIn
<1>4. PICK k \in 1 .. n : s[k] = 1 /\ (k - 1) + Cardinality(HeldIn(o)) <= depth
  BY <1>1, <1>3 DEF FreeOnes
<1> DEFINE m == n - k + 1
           t == [i \in 1 .. m |-> s[i + k - 1]]
<1>5. m \in Nat /\ m >= 1 /\ \A i \in 1 .. m : i + k - 1 \in 1 .. n
  OBVIOUS
<1>6. t \in [1 .. m -> Cells] /\ t[1] = 1
  BY <1>4, <1>5
<1>7. Linked(f, 1, t, m)
  <2>1. \A i, j \in 1 .. m : t[i] = t[j] => i = j
    BY <1>1, <1>5 DEF Linked
  <2>2. \A i \in 1 .. m : f[t[i]] = IF i = m THEN HeapSize ELSE t[i + 1]
    BY <1>1, <1>5 DEF Linked
  <2> HIDE DEF t, m
  <2>3. QED
    BY <1>5, <1>6, <2>1, <2>2 DEF Linked
<1>8. FreeOnes(1, o, t, m, lost + depth, depth)
  <2>1. \A i \in 1 .. m : o[t[i]] = 0
    BY <1>1, <1>5 DEF FreeOnes
  <2>2. HeapSize - 1 <= m + Cardinality(HeldIn(o)) + (lost + depth)
    BY <1>1, <1>3, <1>4, CellFacts DEF FreeOnes
  <2>3. 1 \in 1 .. m /\ (1 - 1) + Cardinality(HeldIn(o)) <= depth
    BY <1>3, <1>5
  <2> HIDE DEF t, m
  <2>4. QED
    BY <1>6, <2>1, <2>2, <2>3 DEF FreeOnes
<1>9. 1 \in Nat
  OBVIOUS
<1> HIDE DEF t, m
<1>10. QED
  BY <1>2, <1>5, <1>6, <1>7, <1>8 DEF HeapGood

LEMMA HeapStart ==
  ASSUME NEW f, f = [i \in Links |-> i + 1], NEW o, o = [c \in Cells |-> 0],
         NEW depth \in Nat
  PROVE  HeapGood(f, 1, o, 0, depth) /\ HeldIn(o) = {}
<1> DEFINE n == HeapSize - 1
           s == [i \in 1 .. n |-> i]
<1>1. n \in Nat /\ s \in [1 .. n -> Cells] /\ n >= 1
  BY CellFacts DEF Cells
<1>2. f \in [Links -> Nat] /\ o \in [Cells -> {0, 1}] /\ HeldIn(o) = {}
  BY DEF Links, HeldIn
<1>3. Linked(f, 1, s, n)
  BY CellFacts DEF Linked, Links
<1>4. FreeOnes(1, o, s, n, 0, depth)
  <2>1. Cardinality(HeldIn(o)) = 0
    BY <1>2, FS_EmptySet
  <2>2. 1 \in 1 .. n /\ s[1] = 1
    BY <1>1
  <2>3. QED
    BY <1>1, <2>1, <2>2 DEF FreeOnes
<1> HIDE DEF n, s
<1>5. QED
  BY <1>1, <1>2, <1>3, <1>4 DEF HeapGood

------------------------------------------------------------------------------
(* The walk of one kernel p: st is its stack, v its visit, li its lists, o *)
(* the owners of its cells and near the nearest centres.                   *)
Depth(p) == Max({1, Height[Root[p]]})

Serves(l, k, u, near) ==
  Cardinality(l) = k + 1 /\ \A x \in Under[u] : near[x] \in l

ListsOf(st) == {st[i].c : i \in 1 .. Len(st)}

(* A pending node lies at least as deep as its place in the stack tells,   *)
(* or one less when its sibling lies just below it; or it is the root.     *)
Level(p, st, i) ==
  IF i = 1 /\ st[i].u = Root[p] THEN st[i].d
  ELSE i + Height[st[i].u] <= Height[Root[p]] + IF st[i].d THEN 0 ELSE 1

(* The entries of the stack: each with a list for the points below it, the *)
(* lists to be deleted all different, the points below one root and below  *)
(* no two entries.                                                         *)
StackOK(p, st, li, near) ==
  /\ st \in Seq(Entries)
  /\ \A i \in 1 .. Len(st) :
       /\ Serves(li[st[i].c], st[i].k, st[i].u, near)
       /\ Under[st[i].u] \subseteq Under[Root[p]]
       /\ Level(p, st, i)
  /\ \A i, j \in 1 .. Len(st) :
       i # j => /\ Under[st[i].u] \cap Under[st[j].u] = {}
                /\ st[i].d /\ st[j].d => st[i].c # st[j].c

(* Only the entry on top may be a list's first reader; the second one is   *)
(* just below it.                                                          *)
AllDelete(st) == \A i \in 1 .. Len(st) : st[i].d
TopReads(st) ==
  \A i \in 1 .. Len(st) :
    st[i].d \/ (i = Len(st) /\ i > 1 /\ st[i - 1].c = st[i].c)

(* A node that is visited lies deeper than the stack is high.              *)
VisitOK(p, st, u) ==
  /\ u \in Nodes
  /\ AllDelete(st)
  /\ Under[u] \subseteq Under[Root[p]]
  /\ \A i \in 1 .. Len(st) : Under[st[i].u] \cap Under[u] = {}
  /\ Len(st) + Height[u] <= Height[Root[p]]

(* The lists of a visit: the one it popped is on the stack still if it is  *)
(* the first reader, and the one it allocated is its own.                  *)
ListsOK(p, st, v) ==
  /\ v.in \in Cells /\ v.out \in Cells
  /\ v.out \notin ListsOf(st) \cup {v.in}
  /\ v.d \in BOOLEAN
  /\ IF v.d THEN v.in \notin ListsOf(st) /\ Len(st) < Depth(p)
            ELSE v.in \in ListsOf(st)

Walks(p, at, st, v, li, o, near) ==
  /\ StackOK(p, st, li, near)
  /\ at \in {"call", "alloc", "done"} => st = <<>> /\ HeldIn(o) = {}
  /\ at = "loop" => TopReads(st) /\ HeldIn(o) = ListsOf(st)
  /\ at \in {"process", "decide", "enter", "read", "write"} => VisitOK(p, st, v.u)
  /\ at = "process" =>
       /\ ListsOK(p, st, v) /\ HeldIn(o) = ListsOf(st) \cup {v.in, v.out}
       /\ Serves(li[v.in], v.k, v.u, near) /\ v.k \in Int
  /\ at = "decide" =>
       /\ v.out \in Cells \ ListsOf(st) /\ HeldIn(o) = ListsOf(st) \cup {v.out}
       /\ v.z \in li[v.out] /\ Serves(li[v.out], v.new_k, v.u, near) /\ v.new_k \in Nat
       /\ IsLeaf(v.u) => v.z = near[v.u]
  /\ at \in {"enter", "read", "write"} =>
       HeldIn(o) = ListsOf(st) /\ \A x \in Under[v.u] : near[x] = v.z

------------------------------------------------------------------------------
(* How much memory a walk uses.                                            *)

LEMMA DepthFacts ==
  ASSUME NEW p \in Kernels
  PROVE  /\ Height[Root[p]] \in Nat /\ Depth(p) \in Nat
         /\ Depth(p) >= 1 /\ Depth(p) >= Height[Root[p]]
         /\ Max({2, Height[Root[p]] + 1}) = Depth(p) + 1
<1>1. Height[Root[p]] \in Nat
  BY KernelAssumption, HeightType
<1>2. /\ Depth(p) \in {1, Height[Root[p]]}
      /\ Depth(p) >= 1 /\ Depth(p) >= Height[Root[p]]
  BY <1>1, MaxOfTwo DEF Depth
<1> DEFINE h == Height[Root[p]]
           m == Max({2, h + 1})
<1>3. m \in {2, h + 1} /\ m >= 2 /\ m >= h + 1
  BY <1>1, MaxOfTwo
<1> HIDE DEF m
<1>4. m = Depth(p) + 1
  BY <1>1, <1>2, <1>3
<1>5. QED
  BY <1>1, <1>2, <1>4 DEF m

LEMMA ListsOfCount ==
  ASSUME NEW st \in Seq(Entries), NEW n \in 0 .. Len(st),
         NEW T, T = {st[i].c : i \in 1 .. n}
  PROVE  IsFiniteSet(T) /\ Cardinality(T) \in Nat /\ Cardinality(T) <= n
<1> DEFINE f == [i \in 1 .. n |-> st[i].c]
<1>1. f \in Surjection(1 .. n, T)
  BY DEF Surjection
<1>2. IsFiniteSet(1 .. n) /\ Cardinality(1 .. n) = n
  BY FS_Interval
<1> HIDE DEF f
<1>3. IsFiniteSet(T) /\ Cardinality(T) <= Cardinality(1 .. n)
  BY <1>1, <1>2, FS_Surjection
<1>4. QED
  BY <1>2, <1>3, FS_CardinalityType

LEMMA AddAtMost ==
  ASSUME NEW S, NEW x, IsFiniteSet(S), NEW n \in Nat, Cardinality(S) <= n
  PROVE  /\ IsFiniteSet(S \cup {x}) /\ Cardinality(S \cup {x}) \in Nat
         /\ Cardinality(S \cup {x}) <= n + 1
<1>1. IsFiniteSet(S \cup {x}) /\ Cardinality(S \cup {x}) \in {Cardinality(S), Cardinality(S) + 1}
  BY FS_AddElement
<1>2. Cardinality(S) \in Nat
  BY FS_CardinalityType
<1>3. QED
  BY <1>1, <1>2

LEMMA EntryFacts ==
  ASSUME NEW st \in Seq(Entries)
  PROVE  /\ Len(st) \in Nat
         /\ \A i \in 1 .. Len(st) :
              /\ st[i] \in Entries
              /\ st[i].u \in Nodes /\ st[i].c \in Cells /\ st[i].d \in BOOLEAN
              /\ st[i].k \in 0 .. Cardinality(Centres) - 1
              /\ Height[st[i].u] \in Nat
<1>1. \A i \in 1 .. Len(st) : st[i] \in Entries
  OBVIOUS
<1>2. \A e \in Entries : /\ e.u \in Nodes /\ e.c \in Cells /\ e.d \in BOOLEAN
                         /\ e.k \in 0 .. Cardinality(Centres) - 1
  BY DEF Entries
<1>3. QED
  BY <1>1, <1>2, HeightType

LEMMA WalkBounds ==
  ASSUME NEW p \in Kernels, NEW at, NEW st, NEW v, NEW li, NEW o, NEW near,
         Walks(p, at, st, v, li, o, near),
         at \in {"call", "alloc", "loop", "process", "decide", "enter", "read", "write", "done"}
  PROVE  /\ Len(st) \in Nat /\ Len(st) <= Height[Root[p]] + 1
         /\ Cardinality(HeldIn(o)) <= Depth(p) + 1
         /\ at \in {"alloc", "loop"} => Cardinality(HeldIn(o)) <= Depth(p)
<1> DEFINE H == Height[Root[p]]
           m == Len(st)
<1>1. st \in Seq(Entries) /\ m \in Nat /\ H \in Nat /\ Depth(p) \in Nat
      /\ Depth(p) >= 1 /\ Depth(p) >= H
  <2>1. st \in Seq(Entries)
    BY DEF Walks, StackOK
  <2>2. H \in Nat /\ Depth(p) \in Nat /\ Depth(p) >= 1 /\ Depth(p) >= H
    BY DepthFacts
  <2>3. m \in Nat
    BY <2>1
  <2>4. QED
    BY <2>1, <2>2, <2>3
<1>2. \A i \in 1 .. m : Height[st[i].u] \in Nat /\ st[i].d \in BOOLEAN
  BY <1>1, EntryFacts
<1>3. \A i \in 1 .. m : i <= H + 1 /\ (st[i].d => i <= Depth(p)) /\ (~st[i].d => i <= H + 1)
  <2> TAKE i \in 1 .. m
  <2>1. Level(p, st, i)
    BY DEF Walks, StackOK
  <2>2. CASE i = 1 /\ st[i].u = Root[p]
    BY <1>1, <1>2, <2>1, <2>2 DEF Level
  <2>3. CASE ~(i = 1 /\ st[i].u = Root[p])
    <3>1. i + Height[st[i].u] <= H + IF st[i].d THEN 0 ELSE 1
      BY <2>1, <2>3 DEF Level
    <3>2. QED
      BY <1>1, <1>2, <3>1
  <2>4. QED
    BY <2>2, <2>3
<1>4. m <= H + 1
  BY <1>1, <1>3
<1> HIDE DEF m, H
<1>5. IsFiniteSet(ListsOf(st)) /\ Cardinality(ListsOf(st)) \in Nat /\ Cardinality(ListsOf(st)) <= m
  <2>1. m \in 0 .. Len(st) /\ ListsOf(st) = {st[i].c : i \in 1 .. m}
    BY <1>1 DEF ListsOf, m
  <2>2. QED
    BY <1>1, <2>1, ListsOfCount
<1>6. CASE at \in {"call", "alloc", "done"}
  <2>1. Cardinality(HeldIn(o)) = 0
    BY <1>6, FS_EmptySet DEF Walks
  <2>2. QED
    BY <1>1, <1>4, <1>6, <2>1 DEF m, H
<1>7. CASE at = "loop"
  <2>1. TopReads(st) /\ HeldIn(o) = ListsOf(st)
    BY <1>7 DEF Walks
  <2>2. CASE m = 0
    BY <1>1, <1>4, <1>5, <2>1, <2>2 DEF m, H
  <2>3. CASE m > 0 /\ st[m].d
    <3>1. m <= Depth(p)
      BY <1>1, <1>3, <2>3
    <3>2. QED
      BY <1>1, <1>4, <1>5, <2>1, <3>1 DEF m, H
  <2>4. CASE m > 0 /\ ~st[m].d
    <3>1. m > 1 /\ st[m - 1].c = st[m].c
      BY <1>1, <2>1, <2>4 DEF TopReads, m
    <3>2. ListsOf(st) = {st[i].c : i \in 1 .. m - 1}
      BY <1>1, <3>1 DEF ListsOf, m
    <3>3. Cardinality(ListsOf(st)) <= m - 1
      <4>1. m - 1 \in 0 .. Len(st)
        BY <1>1, <3>1 DEF m
      <4>2. QED
        BY <1>1, <3>2, <4>1, ListsOfCount
    <3>4. m - 1 <= Depth(p)
      BY <1>1, <1>4
    <3>5. QED
      BY <1>1, <1>4, <1>5, <2>1, <3>3, <3>4 DEF m, H
  <2>5. QED
    BY <1>1, <2>2, <2>3, <2>4
<1>8. CASE at \in {"process", "decide", "enter", "read", "write"}
  <2>1. VisitOK(p, st, v.u)
    BY <1>8 DEF Walks
  <2>2. m + Height[v.u] <= H /\ Height[v.u] \in Nat
    BY <2>1, HeightType DEF VisitOK, m, H
  <2>3. m <= H
    BY <1>1, <2>2
  <2>4. CASE at # "process" \/ ~v.d
    <3>1. \/ HeldIn(o) = ListsOf(st)
          \/ HeldIn(o) = ListsOf(st) \cup {v.out}
      <4>1. CASE at = "process"
        <5>1. v.in \in ListsOf(st) /\ HeldIn(o) = ListsOf(st) \cup {v.in, v.out}
          BY <2>4, <4>1 DEF Walks, ListsOK
        <5>2. QED
          BY <5>1
      <4>2. CASE at # "process"
        BY <1>8, <4>2 DEF Walks
      <4>3. QED
        BY <4>1, <4>2
    <3>2. Cardinality(ListsOf(st) \cup {v.out}) <= m + 1
      BY <1>1, <1>5, AddAtMost
    <3>3. Cardinality(HeldIn(o)) <= m + 1
      <4>1. Cardinality(ListsOf(st)) <= m + 1
        BY <1>1, <1>5
      <4>2. QED
        BY <3>1, <3>2, <4>1
    <3>4. Cardinality(HeldIn(o)) \in Nat
      BY HeldFinite
    <3>5. QED
      BY <1>1, <1>8, <2>3, <3>3, <3>4 DEF m, H
  <2>5. CASE at = "process" /\ v.d
    <3>1. HeldIn(o) = (ListsOf(st) \cup {v.in}) \cup {v.out} /\ m < Depth(p)
      BY <2>5 DEF Walks, ListsOK, m
    <3>2. IsFiniteSet(ListsOf(st) \cup {v.in}) /\ Cardinality(ListsOf(st) \cup {v.in}) <= m + 1
      BY <1>1, <1>5, AddAtMost
    <3>3. m + 1 \in Nat /\ (m + 1) + 1 = m + 2
      BY <1>1
    <3>4. Cardinality(HeldIn(o)) <= m + 2
      BY <3>1, <3>2, <3>3, AddAtMost
    <3>5. Cardinality(HeldIn(o)) \in Nat
      BY HeldFinite
    <3>6. QED
      BY <1>1, <1>4, <2>5, <3>1, <3>4, <3>5 DEF m, H
  <2>6. QED
    BY <2>4, <2>5
<1>9. QED
  BY <1>6, <1>7, <1>8

------------------------------------------------------------------------------
(* What each action does to the walk of its kernel.                        *)
LEMMA FrontLast ==
  ASSUME NEW st \in Seq(Entries), st # <<>>
  PROVE  /\ Len(st) \in Nat \ {0}
         /\ Front(st) \in Seq(Entries) /\ Len(Front(st)) = Len(st) - 1
         /\ \A i \in 1 .. Len(st) - 1 : Front(st)[i] = st[i]
         /\ Last(st) = st[Len(st)]
<1>1. Len(st) \in Nat \ {0} /\ \A i \in 1 .. Len(st) - 1 : st[i] \in Entries
  OBVIOUS
<1> DEFINE m == Len(st) - 1
<1>2. m \in Nat /\ 1 \in Int /\ (m - 1) + 1 = m /\ \A i \in 1 .. m : (1 + i) - 1 = i
  BY <1>1
<1>3. /\ SubSeq(st, 1, m) \in Seq(Entries)
      /\ Len(SubSeq(st, 1, m)) = IF 1 <= m THEN m - 1 + 1 ELSE 0
      /\ \A i \in 1 .. m - 1 + 1 : SubSeq(st, 1, m)[i] = st[1 + i - 1]
  BY <1>1, <1>2, SubSeqProperties
<1>4. Front(st) = SubSeq(st, 1, m) /\ Last(st) = st[Len(st)]
  BY DEF Front, Last
<1> HIDE DEF m
<1>5. Len(SubSeq(st, 1, m)) = m /\ \A i \in 1 .. m : SubSeq(st, 1, m)[i] = st[i]
  BY <1>2, <1>3
<1>6. QED
  BY <1>1, <1>3, <1>4, <1>5 DEF m

LEMMA PushTwo ==
  ASSUME NEW st \in Seq(Entries), NEW a \in Entries, NEW b \in Entries,
         NEW st2, st2 = st \o <<a, b>>
  PROVE  /\ st2 \in Seq(Entries) /\ Len(st) \in Nat /\ Len(st2) = Len(st) + 2
         /\ \A i \in 1 .. Len(st) : st2[i] = st[i]
         /\ st2[Len(st) + 1] = a /\ st2[Len(st) + 2] = b
OBVIOUS

LEMMA PushOne ==
  ASSUME NEW x \in Entries
  PROVE  /\ <<x>> \in Seq(Entries) /\ Len(<<x>>) = 1 /\ <<x>>[1] = x
         /\ Append(<<>>, x) = <<x>>
OBVIOUS

LEMMA RootEntry ==
  ASSUME NEW p \in Kernels, NEW c \in Cells
  PROVE  LET e == Entry(Root[p], c, Cardinality(Centres) - 1, TRUE)
             st == Append(<<>>, e)
         IN  /\ e \in Entries /\ e.u = Root[p] /\ e.c = c /\ e.k = Cardinality(Centres) - 1
             /\ e.d = TRUE
             /\ st \in Seq(Entries) /\ Len(st) = 1 /\ st[1] = e
<1> DEFINE e == Entry(Root[p], c, Cardinality(Centres) - 1, TRUE)
<1>1. Cardinality(Centres) \in Nat /\ Cardinality(Centres) # 0
  BY KernelAssumption, FS_CardinalityType, FS_EmptySet
<1>2. Root[p] \in Nodes
  BY KernelAssumption
<1>3. e \in Entries /\ e.u = Root[p] /\ e.c = c /\ e.k = Cardinality(Centres) - 1
      /\ e.d = TRUE
  BY <1>1, <1>2 DEF Entries, Entry
<1> HIDE DEF e
<1>4. /\ <<e>> \in Seq(Entries) /\ Len(<<e>>) = 1 /\ <<e>>[1] = e
      /\ Append(<<>>, e) = <<e>>
  BY <1>3, PushOne
<1>5. Append(<<>>, e) \in Seq(Entries) /\ Len(Append(<<>>, e)) = 1 /\ Append(<<>>, e)[1] = e
  BY <1>4, Zenon
<1>6. QED
  BY <1>3, <1>5 DEF e

LEMMA PushRootWalk ==
  ASSUME NEW p \in Kernels, NEW st, NEW v, NEW li, NEW o, NEW near,
         Walks(p, "alloc", st, v, li, o, near),
         near \in [Points -> Centres], li \in [Cells -> SUBSET Centres],
         NEW c \in Cells,
         NEW e \in Entries, e.u = Root[p], e.c = c, e.k = Cardinality(Centres) - 1,
         e.d = TRUE,
         NEW st2 \in Seq(Entries), Len(st2) = 1, st2[1] = e,
         NEW li2, li2 = [li EXCEPT ![c] = Centres],
         o \in [Cells -> {0, 1}], o[c] = 0, NEW o2, o2 = [o EXCEPT ![c] = 1]
  PROVE  Walks(p, "loop", st2, v, li2, o2, near)
<1>1. Serves(li2[e.c], e.k, e.u, near)
  <2>1. Cardinality(Centres) \in Nat
    BY KernelAssumption, FS_CardinalityType
  <2>2. li2[c] = Centres
    OBVIOUS
  <2>3. \A x \in Under[Root[p]] : near[x] \in Centres
    BY KernelAssumption, UnderType
  <2>4. QED
    BY <2>1, <2>2, <2>3 DEF Serves
<1>2. HeldIn(o2) = {e.c}
  BY DEF HeldIn, Walks
<1>3. 1 .. Len(st2) = {1}
  OBVIOUS
<1>4. \A i \in 1 .. Len(st2) : Level(p, st2, i)
  BY <1>3 DEF Level
<1>5. StackOK(p, st2, li2, near)
  BY <1>1, <1>3, <1>4 DEF StackOK
<1>6. ListsOf(st2) = {e.c} /\ TopReads(st2)
  BY <1>3 DEF ListsOf, TopReads
<1>7. QED
  BY <1>2, <1>5, <1>6 DEF Walks

LEMMA PopWalk ==
  ASSUME NEW p \in Kernels, NEW st, NEW v, NEW li, NEW o, NEW near,
         Walks(p, "loop", st, v, li, o, near), st # <<>>,
         o \in [Cells -> {0, 1}], NEW c \in Cells, o[c] = 0,
         NEW e, e = Last(st),
         NEW v2, v2.u = e.u, v2.in = e.c, v2.k = e.k, v2.d = e.d, v2.out = c,
         NEW o2, o2 = [o EXCEPT ![c] = 1]
  PROVE  Walks(p, "process", Front(st), v2, li, o2, near)
<1> DEFINE w == Front(st)
           m == Len(st) - 1
<1>1. /\ st \in Seq(Entries) /\ StackOK(p, st, li, near) /\ TopReads(st)
      /\ HeldIn(o) = ListsOf(st)
  BY DEF Walks, StackOK
<1>2. /\ m \in Nat /\ Len(st) = m + 1 /\ w \in Seq(Entries) /\ Len(w) = m
      /\ \A i \in 1 .. m : w[i] = st[i]
      /\ e = st[m + 1]
  <2>1. Len(st) \in Nat \ {0}
    BY <1>1, FrontLast
  <2>2. QED
    BY <1>1, <2>1, FrontLast
<1>3. \A i \in 1 .. m + 1 :
        /\ st[i] \in Entries
        /\ st[i].u \in Nodes /\ st[i].c \in Cells /\ st[i].d \in BOOLEAN
        /\ st[i].k \in 0 .. Cardinality(Centres) - 1
        /\ Height[st[i].u] \in Nat
  BY <1>1, <1>2, EntryFacts
<1> HIDE DEF m, w
<1>4. \A i \in 1 .. m + 1 :
        /\ Serves(li[st[i].c], st[i].k, st[i].u, near)
        /\ Under[st[i].u] \subseteq Under[Root[p]]
        /\ Level(p, st, i)
  BY <1>1, <1>2 DEF StackOK
<1>5. \A i, j \in 1 .. m + 1 :
        i # j => /\ Under[st[i].u] \cap Under[st[j].u] = {}
                 /\ st[i].d /\ st[j].d => st[i].c # st[j].c
  BY <1>1, <1>2 DEF StackOK
<1>6. m + 1 \in 1 .. m + 1 /\ \A i \in 1 .. m : i \in 1 .. m + 1 /\ i # m + 1
  BY <1>2
<1>7. StackOK(p, w, li, near)
  <2>1. \A i \in 1 .. m : Level(p, w, i)
    BY <1>2, <1>4, <1>6 DEF Level
  <2>2. \A i \in 1 .. m : /\ Serves(li[w[i].c], w[i].k, w[i].u, near)
                           /\ Under[w[i].u] \subseteq Under[Root[p]]
    BY <1>2, <1>4, <1>6
  <2>3. \A i, j \in 1 .. m :
          i # j => /\ Under[w[i].u] \cap Under[w[j].u] = {}
                   /\ w[i].d /\ w[j].d => w[i].c # w[j].c
    <3> TAKE i, j \in 1 .. m
    <3>1. i \in 1 .. m + 1 /\ j \in 1 .. m + 1 /\ w[i] = st[i] /\ w[j] = st[j]
      BY <1>2
    <3>2. QED
      BY <1>5, <3>1
  <2>4. QED
    BY <1>2, <2>1, <2>2, <2>3 DEF StackOK
<1>8. \A i \in 1 .. m : st[i].d
  BY <1>1, <1>2, <1>6 DEF TopReads
<1>9. \/ m = 0 /\ e.u = Root[p] /\ e.d
      \/ m + 1 + Height[e.u] <= Height[Root[p]] + IF e.d THEN 0 ELSE 1
  BY <1>2, <1>4, <1>6 DEF Level
<1>10. VisitOK(p, w, e.u)
  <2>1. AllDelete(w)
    BY <1>2, <1>8 DEF AllDelete
  <2>2. \A i \in 1 .. m : Under[w[i].u] \cap Under[e.u] = {}
    BY <1>2, <1>5, <1>6
  <2>3. m + Height[e.u] <= Height[Root[p]]
    <3>1. Height[e.u] \in Nat /\ Height[Root[p]] \in Nat
      BY <1>2, <1>3, <1>6, DepthFacts
    <3>2. QED
      BY <1>2, <1>9, <3>1
  <2>4. QED
    BY <1>2, <1>3, <1>4, <1>6, <2>1, <2>2, <2>3 DEF VisitOK
<1>11. c \notin ListsOf(st)
  BY <1>1 DEF HeldIn
<1>12. ListsOf(st) = ListsOf(w) \cup {e.c}
  BY <1>2, <1>6 DEF ListsOf
<1>13. IF e.d THEN e.c \notin ListsOf(w) /\ m < Depth(p) ELSE e.c \in ListsOf(w)
  <2>1. CASE e.d
    <3>1. e.c \notin ListsOf(w)
      BY <1>2, <1>5, <1>6, <1>8, <2>1 DEF ListsOf
    <3>2. m < Depth(p)
      <4>1. /\ Height[e.u] \in Nat /\ Height[Root[p]] \in Nat /\ Depth(p) \in Nat
            /\ Depth(p) >= 1 /\ Depth(p) >= Height[Root[p]]
        BY <1>2, <1>3, <1>6, DepthFacts
      <4>2. QED
        BY <1>2, <1>9, <2>1, <4>1
    <3>3. QED
      BY <2>1, <3>1, <3>2
  <2>2. CASE ~e.d
    <3>1. m + 1 > 1 /\ st[m + 1 - 1].c = e.c
      BY <1>1, <1>2, <1>6, <2>2 DEF TopReads
    <3>2. m \in 1 .. m /\ w[m].c = e.c
      BY <1>2, <3>1
    <3>3. QED
      BY <1>2, <2>2, <3>2 DEF ListsOf
  <2>3. QED
    BY <2>1, <2>2
<1>14. ListsOK(p, w, v2)
  <2>1. e.c \in Cells /\ e.d \in BOOLEAN /\ c # e.c
    BY <1>2, <1>3, <1>6, <1>11, <1>12
  <2>2. QED
    BY <1>2, <1>11, <1>12, <1>13, <2>1 DEF ListsOK
<1>15. HeldIn(o2) = ListsOf(w) \cup {v2.in, v2.out}
  <2>1. HeldIn(o2) = HeldIn(o) \cup {c}
    BY DEF HeldIn
  <2>2. HeldIn(o) = ListsOf(w) \cup {e.c}
    BY <1>1, <1>12
  <2>3. QED
    BY <2>1, <2>2
<1>16. Serves(li[v2.in], v2.k, v2.u, near) /\ v2.k \in Int
  BY <1>2, <1>3, <1>4, <1>6
<1>17. QED
  BY <1>7, <1>10, <1>14, <1>15, <1>16 DEF Walks, w

(* The entries 0 .. k of a list of k + 1 are all of them.                  *)
LEMMA AllCandidates ==
  ASSUME NEW row \in SUBSET Centres, NEW k \in Int, Cardinality(row) = k + 1
  PROVE  {c \in row : Cardinality({b \in row : b < c}) <= k} = row
<1>1. IsFiniteSet(row)
  BY KernelAssumption, FS_Subset
<1>2. ASSUME NEW c \in row
      PROVE  Cardinality({b \in row : b < c}) <= k
  <2> DEFINE S == {b \in row : b < c}
  <2>1. S \in SUBSET row /\ S # row
    <3>1. c \in Nat
      BY KernelAssumption
    <3>2. c \notin S
      BY <3>1
    <3>3. QED
      BY <3>2
  <2> HIDE DEF S
  <2>2. Cardinality(S) <= Cardinality(row) /\ Cardinality(S) # Cardinality(row)
    BY <1>1, <2>1, FS_Subset
  <2>3. Cardinality(S) \in Nat
    BY <1>1, <2>1, FS_Subset, FS_CardinalityType
  <2>4. Cardinality(S) <= k
    BY <2>2, <2>3
  <2>5. QED
    BY <2>4 DEF S
<1>3. QED
  BY <1>2

LEMMA ProcessWalk ==
  ASSUME NEW p \in Kernels, NEW st, NEW v, NEW li, NEW o, NEW near,
         Walks(p, "process", st, v, li, o, near),
         near \in [Points -> Centres], li \in [Cells -> SUBSET Centres],
         o \in [Cells -> {0, 1}],
         NEW z \in Centres, NEW S \in SUBSET Centres,
         IsLeaf(v.u) /\ near[v.u] \in li[v.in] => z = near[v.u],
         z \in S, S \subseteq li[v.in],
         \A x \in Under[v.u] : near[x] \in li[v.in] => near[x] \in S,
         NEW li2, li2 = [li EXCEPT ![v.out] = S],
         NEW v2, v2.u = v.u, v2.out = v.out, v2.z = z, v2.new_k = Cardinality(S) - 1,
         NEW o2, IF v.d THEN o2 = [o EXCEPT ![v.in] = 0] ELSE o2 = o
  PROVE  Walks(p, "decide", st, v2, li2, o2, near)
<1>1. /\ StackOK(p, st, li, near) /\ st \in Seq(Entries)
      /\ VisitOK(p, st, v.u) /\ ListsOK(p, st, v)
      /\ HeldIn(o) = ListsOf(st) \cup {v.in, v.out}
      /\ Serves(li[v.in], v.k, v.u, near)
  BY DEF Walks, StackOK
<1>2. v.in \in Cells /\ v.out \in Cells /\ v.out \notin ListsOf(st) \cup {v.in}
      /\ (IF v.d THEN v.in \notin ListsOf(st) ELSE v.in \in ListsOf(st))
  BY <1>1 DEF ListsOK
<1>3. /\ \A c \in Cells \ {v.out} : li2[c] = li[c]
      /\ li2[v.out] = S
  BY <1>2
<1>4. \A i \in 1 .. Len(st) : st[i].c \in Cells \ {v.out}
  <2>1. \A i \in 1 .. Len(st) : st[i].c \in Cells
    BY <1>1, EntryFacts
  <2>2. QED
    BY <1>2, <2>1 DEF ListsOf
<1>5. StackOK(p, st, li2, near)
  <2>1. \A i \in 1 .. Len(st) : li2[st[i].c] = li[st[i].c]
    BY <1>3, <1>4
  <2>2. QED
    BY <1>1, <2>1 DEF StackOK
<1>6. v2.out \in Cells \ ListsOf(st)
  BY <1>2
<1>7. HeldIn(o2) = ListsOf(st) \cup {v2.out}
  <2>1. CASE v.d
    <3>1. HeldIn(o2) = HeldIn(o) \ {v.in}
      BY <1>2, <2>1 DEF HeldIn
    <3>2. QED
      BY <1>1, <1>2, <2>1, <3>1
  <2>2. CASE ~v.d
    BY <1>1, <1>2, <2>2
  <2>3. QED
    BY <2>1, <2>2
<1>8. Serves(S, v2.new_k, v2.u, near) /\ v2.new_k \in Nat
  <2>1. IsFiniteSet(S) /\ S # {}
    BY KernelAssumption, FS_Subset
  <2>2. Cardinality(S) \in Nat /\ Cardinality(S) # 0
    BY <2>1, FS_CardinalityType, FS_EmptySet
  <2>3. v2.new_k \in Nat /\ Cardinality(S) = v2.new_k + 1
    BY <2>2
  <2>4. \A x \in Under[v.u] : near[x] \in S
    BY <1>1 DEF Serves
  <2>5. QED
    BY <2>3, <2>4 DEF Serves
<1>9. IsLeaf(v2.u) => v2.z = near[v2.u]
  <2>1. CASE IsLeaf(v.u)
    <3>1. v.u \in Under[v.u]
      BY <1>1, <2>1, UnderIs DEF VisitOK
    <3>2. near[v.u] \in li[v.in]
      BY <1>1, <3>1 DEF Serves
    <3>3. QED
      BY <2>1, <3>2
  <2>2. QED
    BY <2>1
<1>10. VisitOK(p, st, v2.u)
  BY <1>1
<1>11. v2.z \in li2[v2.out] /\ Serves(li2[v2.out], v2.new_k, v2.u, near)
  BY <1>3, <1>8
<1>12. QED
  BY <1>5, <1>6, <1>7, <1>8, <1>9, <1>10, <1>11 DEF Walks

LEMMA StopWalk ==
  ASSUME NEW p \in Kernels, NEW st, NEW v, NEW li, NEW o, NEW near,
         Walks(p, "decide", st, v, li, o, near), v.new_k = 0 \/ IsLeaf(v.u),
         li \in [Cells -> SUBSET Centres], o \in [Cells -> {0, 1}],
         NEW o2, o2 = [o EXCEPT ![v.out] = 0]
  PROVE  Walks(p, "enter", st, v, li, o2, near)
<1>1. /\ StackOK(p, st, li, near) /\ VisitOK(p, st, v.u)
      /\ v.out \in Cells \ ListsOf(st) /\ HeldIn(o) = ListsOf(st) \cup {v.out}
      /\ v.z \in li[v.out] /\ Serves(li[v.out], v.new_k, v.u, near)
      /\ IsLeaf(v.u) => v.z = near[v.u]
  BY DEF Walks
<1>2. HeldIn(o2) = ListsOf(st)
  <2>1. HeldIn(o2) = HeldIn(o) \ {v.out}
    BY <1>1 DEF HeldIn
  <2>2. QED
    BY <1>1, <2>1
<1>3. \A x \in Under[v.u] : near[x] = v.z
  <2>1. CASE IsLeaf(v.u)
    <3>1. v.u \in Nodes
      BY <1>1 DEF VisitOK
    <3>2. Under[v.u] = {v.u}
      BY <2>1, <3>1, UnderIs
    <3>3. QED
      BY <1>1, <2>1, <3>2
  <2>2. CASE v.new_k = 0
    <3> DEFINE S == li[v.out]
    <3>1. S \in SUBSET Centres
      BY <1>1
    <3>2. IsFiniteSet(S)
      BY <3>1, KernelAssumption, FS_Subset
    <3>3. Cardinality(S) = 1 /\ v.z \in S /\ \A x \in Under[v.u] : near[x] \in S
      BY <1>1, <2>2 DEF Serves
    <3> HIDE DEF S
    <3>4. PICK c : S = {c}
      BY <3>2, <3>3, FS_Singleton
    <3>5. QED
      BY <3>3, <3>4
  <2>3. QED
    BY <2>1, <2>2
<1>4. QED
  BY <1>1, <1>2, <1>3 DEF Walks

(* Both children are pushed.                                               *)
LEMMA DescendWalk ==
  ASSUME NEW p \in Kernels, NEW st, NEW v, NEW li, NEW o, NEW near,
         Walks(p, "decide", st, v, li, o, near), v.new_k # 0, ~IsLeaf(v.u),
         li \in [Cells -> SUBSET Centres], NEW v2
  PROVE  Walks(p, "loop", st \o Children(v), v2, li, o, near)
<1> DEFINE m == Len(st)
           st2 == st \o Children(v)
           u == v.u
           a == Entry(Right[u], v.out, v.new_k, TRUE)
           b == Entry(Left[u], v.out, v.new_k, FALSE)
<1>1. /\ StackOK(p, st, li, near) /\ st \in Seq(Entries) /\ VisitOK(p, st, u)
      /\ v.out \in Cells \ ListsOf(st) /\ HeldIn(o) = ListsOf(st) \cup {v.out}
      /\ Serves(li[v.out], v.new_k, u, near) /\ v.new_k \in Nat
  BY DEF Walks, StackOK
<1>2. /\ u \in Nodes /\ Left[u] \in Nodes /\ Right[u] \in Nodes
      /\ Under[u] = Under[Left[u]] \cup Under[Right[u]]
      /\ Under[Left[u]] \cap Under[Right[u]] = {}
  <2>1. u \in Nodes
    BY <1>1 DEF VisitOK
  <2>2. QED
    BY <2>1, NodeFacts, UnderIs, TreeAssumption
<1>3. v.new_k \in 0 .. Cardinality(Centres) - 1
  <2>1. li[v.out] \in SUBSET Centres
    BY <1>1
  <2>2. Cardinality(li[v.out]) <= Cardinality(Centres) /\ Cardinality(Centres) \in Nat
    BY <2>1, KernelAssumption, FS_Subset, FS_CardinalityType
  <2>3. Cardinality(li[v.out]) = v.new_k + 1
    BY <1>1 DEF Serves
  <2> HIDE DEF u
  <2>4. QED
    BY <1>1, <2>2, <2>3
<1>4. /\ a \in Entries /\ a.u = Right[u] /\ a.c = v.out /\ a.k = v.new_k /\ a.d = TRUE
      /\ b \in Entries /\ b.u = Left[u] /\ b.c = v.out /\ b.k = v.new_k /\ b.d = FALSE
  BY <1>1, <1>2, <1>3 DEF Entries, Entry
<1>5. st2 = st \o <<a, b>>
  BY DEF Children
<1> HIDE DEF a, b, u
<1>6. /\ st2 \in Seq(Entries) /\ m \in Nat /\ Len(st2) = m + 2
      /\ \A i \in 1 .. m : st2[i] = st[i]
      /\ st2[m + 1] = a /\ st2[m + 2] = b
  BY <1>1, <1>4, <1>5, PushTwo
<1> HIDE DEF st2
<1>7. /\ m + Height[u] <= Height[Root[p]] /\ Height[u] \in Nat /\ Height[Root[p]] \in Nat
      /\ Height[Left[u]] \in Nat /\ Height[Right[u]] \in Nat
      /\ Height[Left[u]] < Height[u] /\ Height[Right[u]] < Height[u]
  <2>1. ~IsLeaf(u)
    BY DEF u
  <2>2. Height[Left[u]] < Height[u] /\ Height[Right[u]] < Height[u]
    BY <1>2, <2>1, Lower
  <2>3. m + Height[u] <= Height[Root[p]]
    BY <1>1 DEF VisitOK, m, u
  <2>4. QED
    BY <1>2, <2>2, <2>3, HeightType, DepthFacts
<1>8. /\ \A i \in 1 .. m : st[i].d
      /\ Under[u] \subseteq Under[Root[p]]
      /\ \A i \in 1 .. m : Under[st[i].u] \cap Under[u] = {}
  BY <1>1 DEF VisitOK, AllDelete
<1>9. \A i \in 1 .. m : st[i].c # v.out
  BY <1>1 DEF ListsOf
<1> HIDE DEF m
<1>10. /\ \A i \in 1 .. m :
            /\ Serves(li[st[i].c], st[i].k, st[i].u, near)
            /\ Under[st[i].u] \subseteq Under[Root[p]]
            /\ Level(p, st, i)
       /\ \A i, j \in 1 .. m :
            i # j => /\ Under[st[i].u] \cap Under[st[j].u] = {}
                     /\ st[i].d /\ st[j].d => st[i].c # st[j].c
  BY <1>1 DEF StackOK, m
<1>11. \A i \in 1 .. m + 2 : i \in 1 .. m \/ i = m + 1 \/ i = m + 2
  BY <1>6
<1>12. \A i \in 1 .. m + 2 :
         /\ Serves(li[st2[i].c], st2[i].k, st2[i].u, near)
         /\ Under[st2[i].u] \subseteq Under[Root[p]]
  <2>1. Serves(li[v.out], v.new_k, Left[u], near) /\ Serves(li[v.out], v.new_k, Right[u], near)
    BY <1>1, <1>2 DEF Serves, u
  <2>2. QED
    BY <1>2, <1>4, <1>6, <1>8, <1>10, <1>11, <2>1
<1>13. \A i \in 1 .. m + 2 : Level(p, st2, i)
  <2>1. \A i \in 1 .. m : Level(p, st2, i)
    BY <1>6, <1>10 DEF Level
  <2>2. Level(p, st2, m + 1)
    <3>1. m + 1 + Height[Right[u]] <= Height[Root[p]] + 0
      BY <1>6, <1>7
    <3>2. QED
      BY <1>4, <1>6, <3>1 DEF Level
  <2>3. Level(p, st2, m + 2)
    <3>1. m + 2 + Height[Left[u]] <= Height[Root[p]] + 1 /\ m + 2 # 1
      BY <1>6, <1>7
    <3>2. QED
      BY <1>4, <1>6, <3>1 DEF Level
  <2>4. QED
    BY <1>11, <2>1, <2>2, <2>3
<1>14. \A i, j \in 1 .. m + 2 :
         i # j => Under[st2[i].u] \cap Under[st2[j].u] = {}
  <2>1. \A i \in 1 .. m : Under[st2[i].u] \cap (Under[Left[u]] \cup Under[Right[u]]) = {}
    BY <1>2, <1>6, <1>8
  <2>2. Under[st2[m + 1].u] = Under[Right[u]] /\ Under[st2[m + 2].u] = Under[Left[u]]
    BY <1>4, <1>6
  <2>3. \A i, j \in 1 .. m : i # j => Under[st2[i].u] \cap Under[st2[j].u] = {}
    BY <1>6, <1>10
  <2> TAKE i, j \in 1 .. m + 2
  <2>4. CASE i \in 1 .. m
    BY <1>11, <2>1, <2>2, <2>3, <2>4
  <2>5. CASE j \in 1 .. m
    BY <1>11, <2>1, <2>2, <2>3, <2>5
  <2>6. CASE i \notin 1 .. m /\ j \notin 1 .. m
    BY <1>2, <1>11, <2>2, <2>6
  <2>7. QED
    BY <2>4, <2>5, <2>6
<1>15. \A i, j \in 1 .. m + 2 :
         i # j => (st2[i].d /\ st2[j].d => st2[i].c # st2[j].c)
  <2>1. ~st2[m + 2].d /\ st2[m + 1].c = v.out
    BY <1>4, <1>6
  <2>2. \A i \in 1 .. m : st2[i].d => st2[i].c # v.out
    BY <1>6, <1>9
  <2>3. \A i, j \in 1 .. m :
          i # j => (st2[i].d /\ st2[j].d => st2[i].c # st2[j].c)
    BY <1>6, <1>10
  <2>4. QED
    BY <1>11, <2>1, <2>2, <2>3
<1>16. StackOK(p, st2, li, near)
  BY <1>6, <1>12, <1>13, <1>14, <1>15 DEF StackOK
<1>17. TopReads(st2)
  <2>1. m + 2 > 1 /\ m + 2 - 1 = m + 1
    BY <1>6
  <2>2. \A i \in 1 .. m + 1 : st2[i].d
    <3>1. \A i \in 1 .. m + 1 : i \in 1 .. m \/ i = m + 1
      BY <1>6
    <3>2. QED
      BY <1>4, <1>6, <1>8, <3>1
  <2>3. \A i \in 1 .. m + 2 : i \in 1 .. m + 1 \/ i = m + 2
    BY <1>6
  <2>4. st2[m + 2 - 1].c = st2[m + 2].c
    BY <1>4, <1>6, <2>1
  <2>5. QED
    BY <1>6, <2>1, <2>2, <2>3, <2>4 DEF TopReads
<1>18. HeldIn(o) = ListsOf(st2)
  <2>1. ListsOf(st2) = {st2[i].c : i \in 1 .. m + 2}
    BY <1>6 DEF ListsOf
  <2>2. ListsOf(st) = {st[i].c : i \in 1 .. m}
    BY DEF ListsOf, m
  <2>3. m + 1 \in 1 .. m + 2 /\ \A i \in 1 .. m : i \in 1 .. m + 2
    BY <1>6
  <2>4. \A i \in 1 .. m + 2 : st2[i].c \in ListsOf(st) \cup {v.out}
    BY <1>4, <1>6, <1>11, <2>2
  <2>5. \A c \in ListsOf(st) \cup {v.out} : \E i \in 1 .. m + 2 : st2[i].c = c
    BY <1>4, <1>6, <2>2, <2>3
  <2>6. QED
    BY <1>1, <2>1, <2>4, <2>5
<1>19. QED
  BY <1>16, <1>17, <1>18 DEF Walks, st2

(* The other steps leave the stack and the heap alone.                     *)
LEMMA QuietWalk ==
  ASSUME NEW p \in Kernels, NEW st, NEW v, NEW li, NEW o, NEW near, NEW v2
  PROVE  /\ Walks(p, "enter", st, v, li, o, near) => Walks(p, "read", st, v, li, o, near)
         /\ Walks(p, "read", st, v, li, o, near) /\ v2.u = v.u /\ v2.z = v.z
              => Walks(p, "write", st, v2, li, o, near)
         /\ Walks(p, "write", st, v, li, o, near) => Walks(p, "loop", st, v2, li, o, near)
         /\ Walks(p, "loop", <<>>, v, li, o, near) => Walks(p, "done", <<>>, v, li, o, near)
         /\ Walks(p, "call", st, v, li, o, near) => Walks(p, "alloc", <<>>, v, li, o, near)
<1>1. Walks(p, "enter", st, v, li, o, near) => Walks(p, "read", st, v, li, o, near)
  BY DEF Walks
<1>2. Walks(p, "read", st, v, li, o, near) /\ v2.u = v.u /\ v2.z = v.z
        => Walks(p, "write", st, v2, li, o, near)
  BY DEF Walks
<1>3. Walks(p, "write", st, v, li, o, near) => Walks(p, "loop", st, v2, li, o, near)
  BY DEF Walks, VisitOK, AllDelete, TopReads
<1>4. Walks(p, "loop", <<>>, v, li, o, near) => Walks(p, "done", <<>>, v, li, o, near)
  BY DEF Walks, ListsOf
<1>5. Walks(p, "call", st, v, li, o, near) => Walks(p, "alloc", <<>>, v, li, o, near)
  BY DEF Walks
<1>6. QED
  BY <1>1, <1>2, <1>3, <1>4, <1>5

LEMMA IdleWalk ==
  ASSUME NEW p \in Kernels, NEW v, NEW li, NEW o, HeldIn(o) = {}, NEW near,
         NEW at \in {"call", "done"}
  PROVE  Walks(p, at, <<>>, v, li, o, near)
<1>1. <<>> \in Seq(Entries) /\ Len(<<>>) = 0 /\ 1 .. 0 = {}
  OBVIOUS
<1>2. StackOK(p, <<>>, li, near)
  BY <1>1 DEF StackOK
<1>3. QED
  BY <1>2 DEF Walks

------------------------------------------------------------------------------
(* The inductive invariant.  A call gives up at most Depth(p) cells when it*)
(* starts over at cell 1; the first one has nothing to give up.            *)
Calls(p) == IF phase = "run" /\ pc[p] # "call" THEN iterations
            ELSE IF iterations = 0 THEN 0 ELSE iterations - 1
Lost(p) == Calls(p) * Depth(p)

WalkInv(p) == Walks(p, pc[p], stack[p], local[p], lists[p], owner[p], nearest)

HeapInv(p) ==
  /\ HeapGood(flist[p], next_free_location[p], owner[p], Lost(p), Depth(p))
  /\ iterations = 0 /\ (phase # "run" \/ pc[p] = "call") => next_free_location[p] = 1

PhaseInv ==
  /\ phase # "run" => \A p \in Kernels : pc[p] = "done"
  /\ phase = "run" => iterations < build.l
  /\ phase \in {"init", "copy"} => iterations = 0
  /\ phase = "reduced" => iterations >= 1

LockInv == \A p \in Kernels : lock = p <=> pc[p] \in {"read", "write"}

IInv ==
  /\ TypeOK /\ PhaseInv /\ LockInv
  /\ \A p \in Kernels : WalkInv(p) /\ HeapInv(p)

(* Each heap has room for one call and for what the earlier ones gave up.  *)
RoomForCalls ==
  \A p \in Kernels, b \in Builds : HeapSize >= b.l * Depth(p) + 2

Stages == {"call", "alloc", "loop", "process", "decide", "enter", "read", "write", "done"}

LEMMA BuildFacts ==
  ASSUME TypeOK
  PROVE  build.l \in Nat /\ build.onchip \in BOOLEAN /\ iterations \in Nat
BY KernelAssumption DEF TypeOK

(* A step of p: what its parts of the state become.                        *)
After(p, at, st, v, li, f, h, o) ==
  /\ pc' = [pc EXCEPT ![p] = at] /\ stack' = [stack EXCEPT ![p] = st]
  /\ local' = [local EXCEPT ![p] = v] /\ lists' = [lists EXCEPT ![p] = li]
  /\ flist' = [flist EXCEPT ![p] = f] /\ owner' = [owner EXCEPT ![p] = o]
  /\ next_free_location' = [next_free_location EXCEPT ![p] = h]
  /\ UNCHANGED top

(* What is left to show then is that the lock goes with the stages.        *)
Keeps(p) ==
  /\ TypeOK' /\ PhaseInv' /\ \A q \in Kernels : WalkInv(q)' /\ HeapInv(q)'
  /\ \A q \in Kernels \ {p} : pc'[q] = pc[q]

LEMMA Moved ==
  ASSUME IInv, NEW p \in Kernels, phase = "run",
         NEW at \in Stages \ {"call"}, NEW st, NEW v \in Visit,
         NEW li \in [Cells -> SUBSET Centres], NEW f, NEW h, NEW o,
         After(p, at, st, v, li, f, h, o),
         Walks(p, at, st, v, li, o, nearest),
         HeapGood(f, h, o, iterations * Depth(p), Depth(p)),
         lock' \in Kernels \cup {NoKernel},
         centre_buffer' \in [Kernels \cup {NoKernel} -> [Centres -> [Points -> Nat]]]
  PROVE  Keeps(p) /\ pc'[p] = at
<1>1. st \in Seq(Entries)
  BY DEF Walks, StackOK
<1>2. f \in [Links -> Nat] /\ h \in Nat /\ o \in [Cells -> Int]
  BY DEF HeapGood
<1>3. UNCHANGED <<build, iterations, phase, nearest, reduced>>
  BY DEF After, top
<1>4. /\ pc' \in [Kernels -> Stages] /\ stack' \in [Kernels -> Seq(Entries)]
      /\ local' \in [Kernels -> Visit] /\ lists' \in [Kernels -> [Cells -> SUBSET Centres]]
  BY <1>1 DEF After, IInv, TypeOK, Stages
<1>5. HeapTypeOK'
  BY <1>2 DEF After, IInv, TypeOK, HeapTypeOK
<1>6. TypeOK'
  BY <1>3, <1>4, <1>5 DEF IInv, TypeOK, Stages
<1>7. PhaseInv'
  BY <1>3 DEF IInv, PhaseInv
<1>8. /\ pc'[p] = at /\ stack'[p] = st /\ local'[p] = v /\ lists'[p] = li
      /\ flist'[p] = f /\ next_free_location'[p] = h /\ owner'[p] = o
  BY DEF After, IInv, TypeOK, HeapTypeOK
<1>9. \A q \in Kernels \ {p} :
        /\ pc'[q] = pc[q] /\ stack'[q] = stack[q] /\ local'[q] = local[q]
        /\ lists'[q] = lists[q] /\ flist'[q] = flist[q]
        /\ next_free_location'[q] = next_free_location[q] /\ owner'[q] = owner[q]
  BY DEF After, IInv, TypeOK, HeapTypeOK
<1>10. WalkInv(p)' /\ HeapInv(p)'
  <2>1. WalkInv(p)'
    BY <1>3, <1>8 DEF WalkInv
  <2>2. Lost(p)' = iterations * Depth(p)
    BY <1>3, <1>8 DEF Lost, Calls
  <2>3. HeapInv(p)'
    BY <1>3, <1>8, <2>2 DEF HeapInv
  <2>4. QED
    BY <2>1, <2>3
<1>11. ASSUME NEW q \in Kernels \ {p}
       PROVE  WalkInv(q)' /\ HeapInv(q)'
  <2>1. WalkInv(q) /\ HeapInv(q)
    BY DEF IInv
  <2>2. WalkInv(q)'
    BY <1>3, <1>9, <2>1 DEF WalkInv
  <2>3. Lost(q)' = Lost(q)
    BY <1>3, <1>9 DEF Lost, Calls
  <2>4. HeapInv(q)'
    BY <1>3, <1>9, <2>1, <2>3 DEF HeapInv
  <2>5. QED
    BY <2>2, <2>4
<1>12. QED
  BY <1>6, <1>7, <1>8, <1>9, <1>10, <1>11 DEF Keeps

(* malloc and free inside a call.                                          *)
LEMMA MallocStep ==
  ASSUME RoomForCalls, IInv, NEW p \in Kernels, pc[p] \in {"alloc", "loop"}, Malloc(p),
         NEW c, c = next_free_location[p]
  PROVE  /\ c \in Cells /\ owner[p][c] = 0
         /\ HeapGood(flist[p], flist[p][c], [owner[p] EXCEPT ![c] = 1],
                     iterations * Depth(p), Depth(p))
         /\ flist' = [flist EXCEPT ![p] = flist[p]]
         /\ next_free_location' = [next_free_location EXCEPT ![p] = flist[p][c]]
         /\ owner' = [owner EXCEPT ![p] = [owner[p] EXCEPT ![c] = 1]]
<1>1. TypeOK /\ PhaseInv /\ WalkInv(p) /\ HeapInv(p)
  BY DEF IInv
<1>2. phase = "run" /\ iterations < build.l
  BY <1>1 DEF PhaseInv
<1> DEFINE lost == iterations * Depth(p)
           o == owner[p]
           f == flist[p]
<1>3. /\ iterations \in Nat /\ build.l \in Nat /\ Depth(p) \in Nat /\ HeapSize \in Nat
      /\ HeapSize >= build.l * Depth(p) + 2
  <2>1. iterations \in Nat /\ build.l \in Nat
    BY <1>1, BuildFacts
  <2>2. Depth(p) \in Nat /\ HeapSize \in Nat
    BY DepthFacts, HeapAssumption
  <2>3. HeapSize >= build.l * Depth(p) + 2
    BY <1>1 DEF RoomForCalls, TypeOK
  <2>4. QED
    BY <2>1, <2>2, <2>3
<1>4. HeapGood(f, c, o, lost, Depth(p))
  BY <1>1, <1>2 DEF HeapInv, Lost, Calls
<1>5. Cardinality(HeldIn(o)) <= Depth(p) /\ Cardinality(HeldIn(o)) \in Nat
  <2>1. Walks(p, pc[p], stack[p], local[p], lists[p], o, nearest)
    BY <1>1 DEF WalkInv
  <2>2. Cardinality(HeldIn(o)) <= Depth(p)
    BY <2>1, WalkBounds
  <2>3. QED
    BY <2>2, HeldFinite
<1>6. lost \in Nat /\ lost + Depth(p) <= build.l * Depth(p)
  <2> DEFINE d == Depth(p)
  <2>1. d \in Nat
    BY <1>3
  <2> HIDE DEF d
  <2>2. iterations * d \in Nat /\ (iterations + 1) * d = iterations * d + d
    BY <1>3, <2>1
  <2>3. (iterations + 1) * d <= build.l * d
    BY <1>2, <1>3, <2>1
  <2>4. QED
    BY <2>2, <2>3 DEF d
<1>7. Cardinality(HeldIn(o)) + lost < HeapSize - 1
  <2> DEFINE m == build.l * Depth(p)
  <2>1. m \in Nat
    BY <1>3
  <2> HIDE DEF lost, o
  <2>2. lost + Depth(p) <= m /\ HeapSize >= m + 2
    BY <1>3, <1>6
  <2> HIDE DEF m
  <2>3. QED
    BY <1>3, <1>5, <1>6, <2>1, <2>2
<1> HIDE DEF lost
<1>8. c \in Cells /\ o[c] = 0 /\ HeapGood(f, f[c], [o EXCEPT ![c] = 1], lost, Depth(p))
  <2> HIDE DEF f, o
  <2>1. QED
    BY <1>3, <1>4, <1>6, <1>7, HeapMalloc
<1>9. c \in Links
  BY <1>8, CellFacts
<1>10. /\ flist' = flist
       /\ next_free_location' = [next_free_location EXCEPT ![p] = flist[p][c]]
       /\ owner' = [owner EXCEPT ![p] = [owner[p] EXCEPT ![c] = 1]]
  BY <1>1, <1>8, <1>9 DEF Malloc, Link, Count, TypeOK, HeapTypeOK
<1>11. flist = [flist EXCEPT ![p] = flist[p]]
  BY <1>1 DEF TypeOK, HeapTypeOK
<1>12. QED
  BY <1>8, <1>10, <1>11 DEF lost

LEMMA FreeStep ==
  ASSUME IInv, NEW p \in Kernels, pc[p] \notin {"call", "done"},
         NEW c \in Cells, owner[p][c] # 0, Free(p, c)
  PROVE  /\ HeapGood([flist[p] EXCEPT ![c] = next_free_location[p]], c,
                     [owner[p] EXCEPT ![c] = 0], iterations * Depth(p), Depth(p))
         /\ flist' = [flist EXCEPT ![p] = [flist[p] EXCEPT ![c] = next_free_location[p]]]
         /\ next_free_location' = [next_free_location EXCEPT ![p] = c]
         /\ owner' = [owner EXCEPT ![p] = [owner[p] EXCEPT ![c] = 0]]
<1>1. TypeOK /\ PhaseInv /\ WalkInv(p) /\ HeapInv(p)
  BY DEF IInv
<1>2. phase = "run"
  BY <1>1 DEF PhaseInv
<1>3. HeapGood(flist[p], next_free_location[p], owner[p], iterations * Depth(p), Depth(p))
  BY <1>1, <1>2 DEF HeapInv, Lost, Calls
<1>4. iterations * Depth(p) \in Nat /\ Depth(p) \in Nat
  <2> DEFINE d == Depth(p)
  <2>1. iterations \in Nat /\ d \in Nat
    BY <1>1, BuildFacts, DepthFacts
  <2> HIDE DEF d
  <2>2. iterations * d \in Nat
    BY <2>1
  <2>3. QED
    BY <2>1, <2>2 DEF d
<1>5. Cardinality(HeldIn(owner[p])) <= Depth(p) + 1
  <2>1. Walks(p, pc[p], stack[p], local[p], lists[p], owner[p], nearest) /\ pc[p] \in Stages
    BY <1>1 DEF WalkInv, TypeOK, Stages
  <2>2. QED
    BY <2>1, WalkBounds DEF Stages
<1>6. HeapGood([flist[p] EXCEPT ![c] = next_free_location[p]], c,
               [owner[p] EXCEPT ![c] = 0], iterations * Depth(p), Depth(p))
  BY <1>3, <1>4, <1>5, HeapFree
<1>7. c \in Links /\ owner[p] \in [Cells -> {0, 1}] /\ owner[p][c] + (-1) = 0
  <2>1. c \in Links /\ owner[p] \in [Cells -> {0, 1}]
    BY <1>3, CellFacts DEF HeapGood
  <2>2. QED
    BY <2>1
<1>8. QED
  BY <1>1, <1>6, <1>7 DEF Free, Store, Count, TypeOK, HeapTypeOK

------------------------------------------------------------------------------
(* The invariant holds at first, and every action keeps it.                *)
LEMMA NoVisitType == NoVisit \in Visit
<1>1. (CHOOSE c \in Centres : TRUE) \in Centres
  BY KernelAssumption
<1>2. EmptyRecord \in [Points -> Nat]
  BY DEF EmptyRecord
<1>3. QED
  BY <1>1, <1>2 DEF NoVisit, Visit, NULL_PTR

LEMMA PlusType ==
  ASSUME NEW record \in [Points -> Nat], NEW xs
  PROVE  Plus(record, xs) \in [Points -> Nat]
BY DEF Plus

LEMMA EmptyTypes ==
  /\ EmptyRecord \in [Points -> Nat]
  /\ EmptyBuffer \in [Centres -> [Points -> Nat]]
BY DEF EmptyRecord, EmptyBuffer

LEMMA Inits == Init => IInv
<1> SUFFICES ASSUME Init PROVE IInv
  OBVIOUS
<1>1. build \in Builds /\ iterations \in 0 .. build.l
  BY KernelAssumption DEF Init
<1>2. nearest \in [Points -> Centres] /\ local \in [Kernels -> Visit]
  <2>1. NoVisit.z \in Centres
    BY NoVisitType DEF Visit
  <2>2. QED
    BY <2>1, NoVisitType DEF Init
<1>3. HeapTypeOK
  BY HeapAssumption DEF Init, HeapInit, HeapTypeOK, Links
<1>4. centre_buffer \in [Kernels \cup {NoKernel} -> [Centres -> [Points -> Nat]]]
  <2>1. PICK old \in {{}, Points} :
          centre_buffer = [p \in Kernels \cup {NoKernel} |->
                             [c \in Centres |-> Plus(EmptyRecord, old)]]
    BY DEF Init
  <2>2. Plus(EmptyRecord, old) \in [Points -> Nat]
    BY PlusType, EmptyTypes
  <2>3. QED
    BY <2>1, <2>2
<1>5. TypeOK
  <2>1. <<>> \in Seq(Entries)
    OBVIOUS
  <2>2. /\ stack \in [Kernels -> Seq(Entries)]
        /\ lists \in [Kernels -> [Cells -> SUBSET Centres]]
        /\ pc \in [Kernels -> Stages]
        /\ lock \in Kernels \cup {NoKernel} /\ phase = "init"
        /\ reduced \in [Centres -> [Points -> Nat]]
    BY <2>1, EmptyTypes DEF Init, Stages
  <2>3. QED
    BY <1>1, <1>2, <1>3, <1>4, <2>2 DEF TypeOK, Stages
<1>6. PhaseInv /\ LockInv
  BY KernelAssumption DEF Init, PhaseInv, LockInv
<1>7. ASSUME NEW p \in Kernels
      PROVE  WalkInv(p) /\ HeapInv(p)
  <2>1. Depth(p) \in Nat
    BY DepthFacts
  <2>2. /\ flist[p] = [i \in Links |-> i + 1] /\ next_free_location[p] = 1
        /\ owner[p] = [c \in Cells |-> 0]
    BY DEF Init, HeapInit
  <2>3. HeapGood(flist[p], 1, owner[p], 0, Depth(p)) /\ HeldIn(owner[p]) = {}
    BY <2>1, <2>2, HeapStart
  <2>4. Lost(p) = 0
    BY <2>1 DEF Init, Lost, Calls
  <2>5. HeapInv(p)
    BY <2>2, <2>3, <2>4 DEF HeapInv
  <2>6. WalkInv(p)
    <3>1. Walks(p, "done", <<>>, local[p], lists[p], owner[p], nearest)
      BY <2>3, IdleWalk
    <3>2. pc[p] = "done" /\ stack[p] = <<>>
      BY DEF Init
    <3>3. QED
      BY <3>1, <3>2 DEF WalkInv
  <2>7. QED
    BY <2>5, <2>6
<1>8. QED
  BY <1>5, <1>6, <1>7 DEF IInv

LEMMA LockKept ==
  ASSUME IInv, NEW p \in Kernels, Keeps(p),
         \/ /\ UNCHANGED lock
            /\ pc[p] \in {"read", "write"} <=> pc'[p] \in {"read", "write"}
         \/ lock = NoKernel /\ lock' = p /\ pc'[p] = "read"
         \/ lock' = NoKernel /\ pc[p] = "write" /\ pc'[p] = "loop"
  PROVE  IInv'
<1>1. LockInv /\ NoKernel \notin Kernels
  BY KernelAssumption DEF IInv
<1>2. LockInv'
  <2> SUFFICES ASSUME NEW q \in Kernels
               PROVE  lock' = q <=> pc'[q] \in {"read", "write"}
    BY DEF LockInv
  <2>1. lock = q <=> pc[q] \in {"read", "write"}
    BY <1>1 DEF LockInv
  <2>2. lock = p <=> pc[p] \in {"read", "write"}
    BY <1>1 DEF LockInv
  <2>3. QED
    BY <1>1, <2>1, <2>2 DEF Keeps
<1>3. QED
  BY <1>2 DEF Keeps, IInv

(* The parts of the state that belong to p.                                *)
LEMMA Parts ==
  ASSUME IInv, NEW p \in Kernels
  PROVE  /\ pc[p] \in Stages /\ stack[p] \in Seq(Entries) /\ local[p] \in Visit
         /\ lists[p] \in [Cells -> SUBSET Centres] /\ nearest \in [Points -> Centres]
         /\ owner[p] \in [Cells -> {0, 1}]
         /\ pc[p] # "done" => phase = "run"
         /\ pc[p] \notin {"call", "done"} =>
              HeapGood(flist[p], next_free_location[p], owner[p],
                       iterations * Depth(p), Depth(p))
         /\ Walks(p, pc[p], stack[p], local[p], lists[p], owner[p], nearest)
<1>1. TypeOK /\ PhaseInv /\ WalkInv(p) /\ HeapInv(p)
  BY DEF IInv
<1>2. pc[p] # "done" => phase = "run"
  BY <1>1 DEF PhaseInv
<1>3. owner[p] \in [Cells -> {0, 1}]
  BY <1>1 DEF HeapInv, HeapGood
<1>4. pc[p] \notin {"call", "done"} => Lost(p) = iterations * Depth(p)
  BY <1>2 DEF Lost, Calls
<1>5. QED
  BY <1>1, <1>2, <1>3, <1>4 DEF TypeOK, Stages, WalkInv, HeapInv

LEMMA SameParts ==
  ASSUME IInv, NEW p \in Kernels
  PROVE  /\ stack = [stack EXCEPT ![p] = stack[p]] /\ local = [local EXCEPT ![p] = local[p]]
         /\ lists = [lists EXCEPT ![p] = lists[p]]
         /\ flist = [flist EXCEPT ![p] = flist[p]] /\ owner = [owner EXCEPT ![p] = owner[p]]
         /\ next_free_location = [next_free_location EXCEPT ![p] = next_free_location[p]]
BY DEF IInv, TypeOK, HeapTypeOK

LEMMA CallKeeps ==
  ASSUME IInv, NEW p \in Kernels, Call(p)
  PROVE  IInv'
<1> DEFINE lost == iterations * Depth(p)
<1>1. /\ pc[p] = "call" /\ phase = "run"
      /\ Walks(p, "call", stack[p], local[p], lists[p], owner[p], nearest)
  BY Parts DEF Call, Goto
<1>2. After(p, "alloc", <<>>, local[p], lists[p], flist[p], 1, owner[p])
  BY SameParts DEF Call, Goto, After
<1>3. Walks(p, "alloc", <<>>, local[p], lists[p], owner[p], nearest)
  BY <1>1, QuietWalk
<1>4. HeapGood(flist[p], 1, owner[p], lost, Depth(p))
  <2>1. HeapInv(p) /\ iterations \in Nat /\ Depth(p) \in Nat
    BY BuildFacts, DepthFacts DEF IInv
  <2>2. CASE iterations = 0
    <3>1. Lost(p) = 0 * Depth(p) /\ next_free_location[p] = 1
      BY <1>1, <2>1, <2>2 DEF HeapInv, Lost, Calls
    <3>2. QED
      BY <2>1, <2>2, <3>1 DEF HeapInv
  <2>3. CASE iterations # 0
    <3> DEFINE d == Depth(p)
               n == iterations - 1
    <3>1. n \in Nat /\ d \in Nat
      BY <2>1, <2>3
    <3>2. HeapGood(flist[p], next_free_location[p], owner[p], n * d, d)
      BY <1>1, <2>1, <2>3 DEF HeapInv, Lost, Calls
    <3>3. HeldIn(owner[p]) = {}
      BY <1>1 DEF Walks
    <3>4. iterations = n + 1
      BY <2>1
    <3> HIDE DEF n, d
    <3>5. n * d \in Nat /\ (n + 1) * d = n * d + d
      BY <3>1
    <3>6. HeapGood(flist[p], 1, owner[p], n * d + d, d)
      BY <3>1, <3>2, <3>3, <3>5, HeapRestart
    <3>7. QED
      BY <3>4, <3>5, <3>6 DEF d
  <2>4. QED
    BY <2>2, <2>3
<1>5. centre_buffer' \in [Kernels \cup {NoKernel} -> [Centres -> [Points -> Nat]]]
  BY EmptyTypes DEF Call, ClearBuffer, IInv, TypeOK
<1>6. lock' = lock /\ lock \in Kernels \cup {NoKernel}
  BY DEF Call, IInv, TypeOK
<1>7. local[p] \in Visit /\ lists[p] \in [Cells -> SUBSET Centres]
  BY Parts
<1> HIDE DEF lost
<1>8. Keeps(p) /\ pc'[p] = "alloc"
  BY <1>1, <1>2, <1>3, <1>4, <1>5, <1>6, <1>7, Moved DEF lost, Stages
<1>9. QED
  BY <1>1, <1>6, <1>8, LockKept

(* Actions that neither take the lock nor write the records.               *)
LEMMA Shared ==
  ASSUME IInv
  PROVE  /\ UNCHANGED lock => lock' \in Kernels \cup {NoKernel}
         /\ UNCHANGED centre_buffer =>
              centre_buffer' \in [Kernels \cup {NoKernel} -> [Centres -> [Points -> Nat]]]
BY DEF IInv, TypeOK

LEMMA PushRootKeeps ==
  ASSUME RoomForCalls, IInv, NEW p \in Kernels, PushRoot(p)
  PROVE  IInv'
<1> DEFINE c == next_free_location[p]
           e == Entry(Root[p], c, Cardinality(Centres) - 1, TRUE)
           st == Append(<<>>, e)
           li == [lists[p] EXCEPT ![c] = Centres]
           o == [owner[p] EXCEPT ![c] = 1]
           lost == iterations * Depth(p)
<1>1. /\ pc[p] = "alloc" /\ phase = "run" /\ local[p] \in Visit
      /\ lists[p] \in [Cells -> SUBSET Centres] /\ nearest \in [Points -> Centres]
      /\ owner[p] \in [Cells -> {0, 1}]
      /\ Walks(p, "alloc", stack[p], local[p], lists[p], owner[p], nearest)
  BY Parts DEF PushRoot, Goto
<1>2. stack[p] = <<>>
  BY <1>1 DEF Walks
<1>3. /\ c \in Cells /\ owner[p][c] = 0
      /\ HeapGood(flist[p], flist[p][c], o, lost, Depth(p))
      /\ flist' = [flist EXCEPT ![p] = flist[p]]
      /\ next_free_location' = [next_free_location EXCEPT ![p] = flist[p][c]]
      /\ owner' = [owner EXCEPT ![p] = o]
  BY <1>1, MallocStep DEF PushRoot
<1>4. /\ e \in Entries /\ e.u = Root[p] /\ e.c = c /\ e.k = Cardinality(Centres) - 1
      /\ e.d = TRUE
      /\ st \in Seq(Entries) /\ Len(st) = 1 /\ st[1] = e
  <2> HIDE DEF c
  <2>1. QED
    BY <1>3, RootEntry, Zenon
<1>5. After(p, "loop", st, local[p], li, flist[p], flist[p][c], o)
  <2>1. /\ pc' = [pc EXCEPT ![p] = "loop"] /\ stack' = [stack EXCEPT ![p] = st]
        /\ lists' = [lists EXCEPT ![p] = li] /\ UNCHANGED <<top, local>>
    BY <1>2 DEF PushRoot, Goto
  <2> HIDE DEF st, li, c, o
  <2>2. QED
    BY <1>3, <2>1, SameParts DEF After, c
<1>6. li \in [Cells -> SUBSET Centres]
  BY <1>1, <1>3
<1> HIDE DEF c, e, st
<1>7. Walks(p, "loop", st, local[p], li, o, nearest)
  BY <1>1, <1>2, <1>3, <1>4, PushRootWalk
<1>8. /\ UNCHANGED lock /\ lock' \in Kernels \cup {NoKernel}
      /\ centre_buffer' \in [Kernels \cup {NoKernel} -> [Centres -> [Points -> Nat]]]
  BY Shared DEF PushRoot, shared
<1> HIDE DEF li, o, lost
<1>9. Keeps(p) /\ pc'[p] = "loop"
  BY <1>1, <1>3, <1>5, <1>6, <1>7, <1>8, Moved DEF lost, Stages
<1>10. QED
  BY <1>1, <1>8, <1>9, LockKept

LEMMA PopKeeps ==
  ASSUME RoomForCalls, IInv, NEW p \in Kernels, Pop(p)
  PROVE  IInv'
<1> DEFINE c == next_free_location[p]
           e == Last(stack[p])
           st == Front(stack[p])
           v == [local[p] EXCEPT !.u = e.u, !.in = e.c, !.k = e.k, !.d = e.d, !.out = c]
           o == [owner[p] EXCEPT ![c] = 1]
           lost == iterations * Depth(p)
<1>1. /\ pc[p] = "loop" /\ phase = "run" /\ local[p] \in Visit /\ stack[p] # <<>>
      /\ stack[p] \in Seq(Entries)
      /\ lists[p] \in [Cells -> SUBSET Centres] /\ nearest \in [Points -> Centres]
      /\ owner[p] \in [Cells -> {0, 1}]
      /\ Walks(p, "loop", stack[p], local[p], lists[p], owner[p], nearest)
  BY Parts DEF Pop, Goto
<1>2. /\ c \in Cells /\ owner[p][c] = 0
      /\ HeapGood(flist[p], flist[p][c], o, lost, Depth(p))
      /\ flist' = [flist EXCEPT ![p] = flist[p]]
      /\ next_free_location' = [next_free_location EXCEPT ![p] = flist[p][c]]
      /\ owner' = [owner EXCEPT ![p] = o]
  BY <1>1, MallocStep DEF Pop
<1>3. /\ e \in Entries /\ e.u \in Nodes /\ e.c \in Nat /\ e.k \in Int /\ e.d \in BOOLEAN
      /\ c \in Nat
  <2>1. e \in Entries
    BY <1>1, FrontLast, EntryFacts
  <2>2. QED
    BY <1>2, <2>1, CellFacts DEF Entries
<1>4. /\ v \in Visit
      /\ v.u = e.u /\ v.in = e.c /\ v.k = e.k /\ v.d = e.d /\ v.out = c
  <2> HIDE DEF e, c
  <2>1. QED
    BY <1>1, <1>3 DEF Visit
<1>5. After(p, "process", st, v, lists[p], flist[p], flist[p][c], o)
  <2>1. /\ pc' = [pc EXCEPT ![p] = "process"] /\ stack' = [stack EXCEPT ![p] = st]
        /\ UNCHANGED <<top, lists>>
    BY DEF Pop, Goto
  <2>2. local' = [local EXCEPT ![p].u = e.u, ![p].in = e.c, ![p].k = e.k,
                               ![p].d = e.d, ![p].out = c]
    BY DEF Pop
  <2>3. local' = [local EXCEPT ![p] = v]
    <3> HIDE DEF e, c
    <3>1. local \in [Kernels -> Visit]
      BY DEF IInv, TypeOK
    <3>2. QED
      BY <1>1, <2>2, <3>1 DEF Visit
  <2> HIDE DEF st, v, c, o
  <2>4. QED
    BY <1>2, <2>1, <2>3, SameParts DEF After, c
<1> HIDE DEF c, e, v
<1>6. Walks(p, "process", st, v, lists[p], o, nearest)
  BY <1>1, <1>2, <1>4, PopWalk DEF e
<1>7. /\ UNCHANGED lock /\ lock' \in Kernels \cup {NoKernel}
      /\ centre_buffer' \in [Kernels \cup {NoKernel} -> [Centres -> [Points -> Nat]]]
  BY Shared DEF Pop, shared
<1> HIDE DEF st, o, lost
<1>8. Keeps(p) /\ pc'[p] = "process"
  BY <1>1, <1>2, <1>4, <1>5, <1>6, <1>7, Moved DEF lost, Stages
<1>9. QED
  BY <1>1, <1>7, <1>8, LockKept

LEMMA ProcessNodeKeeps ==
  ASSUME IInv, NEW p \in Kernels, ProcessNode(p)
  PROVE  IInv'
<1>1. /\ pc[p] = "process" /\ phase = "run" /\ local[p] \in Visit
      /\ stack[p] \in Seq(Entries)
      /\ lists[p] \in [Cells -> SUBSET Centres] /\ nearest \in [Points -> Centres]
      /\ owner[p] \in [Cells -> {0, 1}]
      /\ Walks(p, "process", stack[p], local[p], lists[p], owner[p], nearest)
      /\ HeapGood(flist[p], next_free_location[p], owner[p], iterations * Depth(p), Depth(p))
  BY Parts DEF ProcessNode, Goto
<1>2. PICK z \in Centres, S \in SUBSET Centres :
        /\ Closest(p, z) /\ Survives(p, z, S)
        /\ lists' = [lists EXCEPT ![p][local[p].out] = S]
        /\ local' = [local EXCEPT ![p].z = z, ![p].new_k = Cardinality(S) - 1]
  BY DEF ProcessNode
<1> DEFINE v == local[p]
           li == [lists[p] EXCEPT ![v.out] = S]
           v2 == [v EXCEPT !.z = z, !.new_k = Cardinality(S) - 1]
           f == IF v.d THEN [flist[p] EXCEPT ![v.in] = next_free_location[p]] ELSE flist[p]
           h == IF v.d THEN v.in ELSE next_free_location[p]
           o == IF v.d THEN [owner[p] EXCEPT ![v.in] = 0] ELSE owner[p]
           lost == iterations * Depth(p)
<1>3. /\ v.in \in Cells /\ v.out \in Cells /\ owner[p][v.in] # 0
      /\ Serves(lists[p][v.in], v.k, v.u, nearest) /\ v.k \in Int
  BY <1>1 DEF Walks, ListsOK, HeldIn
<1>4. Candidates(p) = lists[p][v.in]
  <2> DEFINE row == lists[p][v.in]
  <2>1. row \in SUBSET Centres /\ Cardinality(row) = v.k + 1
    BY <1>1, <1>3 DEF Serves
  <2>2. Candidates(p) = {c \in row : Cardinality({b \in row : b < c}) <= v.k}
    BY DEF Candidates
  <2> HIDE DEF row, v
  <2>3. {c \in row : Cardinality({b \in row : b < c}) <= v.k} = row
    BY <1>3, <2>1, AllCandidates
  <2>4. QED
    BY <2>2, <2>3 DEF row
<1>5. /\ IsLeaf(v.u) /\ nearest[v.u] \in lists[p][v.in] => z = nearest[v.u]
      /\ z \in S /\ S \subseteq lists[p][v.in]
      /\ \A x \in Under[v.u] : nearest[x] \in lists[p][v.in] => nearest[x] \in S
  BY <1>2, <1>4 DEF Closest, Survives
<1>6. Cardinality(S) - 1 \in Int
  <2>1. Cardinality(S) \in Nat
    BY KernelAssumption, FS_Subset, FS_CardinalityType
  <2>2. QED
    BY <2>1
<1>7. v2 \in Visit /\ v2.u = v.u /\ v2.out = v.out /\ v2.z = z
      /\ v2.new_k = Cardinality(S) - 1
  BY <1>1, <1>6 DEF Visit
<1>8. After(p, "decide", stack[p], v2, li, f, h, o)
  <2>1. pc' = [pc EXCEPT ![p] = "decide"] /\ UNCHANGED <<top, stack>>
    BY DEF ProcessNode, Goto
  <2>2. local' = [local EXCEPT ![p] = v2]
    <3>1. local \in [Kernels -> Visit]
      BY DEF IInv, TypeOK
    <3>2. QED
      BY <1>1, <1>2, <3>1 DEF Visit
  <2>3. lists' = [lists EXCEPT ![p] = li]
    BY <1>2
  <2>4. /\ flist' = [flist EXCEPT ![p] = f] /\ next_free_location' = [next_free_location EXCEPT ![p] = h]
        /\ owner' = [owner EXCEPT ![p] = o]
    <3>1. CASE v.d
      <4>1. Free(p, v.in)
        BY <3>1 DEF ProcessNode, LastReader
      <4>2. QED
        BY <1>1, <1>3, <3>1, <4>1, FreeStep
    <3>2. CASE ~v.d
      BY <3>2, SameParts DEF ProcessNode, LastReader, heap
    <3>3. QED
      BY <3>1, <3>2
  <2> HIDE DEF v2, li, f, h, o
  <2>5. QED
    BY <2>1, <2>2, <2>3, <2>4, SameParts DEF After
<1>9. HeapGood(f, h, o, lost, Depth(p))
  <2>1. CASE v.d
    <3>1. Free(p, v.in)
      BY <2>1 DEF ProcessNode, LastReader
    <3>2. QED
      BY <1>1, <1>3, <2>1, <3>1, FreeStep
  <2>2. CASE ~v.d
    BY <1>1, <2>2
  <2>3. QED
    BY <2>1, <2>2
<1>10. li \in [Cells -> SUBSET Centres]
  BY <1>1, <1>3
<1>11. Walks(p, "decide", stack[p], v2, li, o, nearest)
  <2>1. IF v.d THEN o = [owner[p] EXCEPT ![v.in] = 0] ELSE o = owner[p]
    OBVIOUS
  <2>2. li = [lists[p] EXCEPT ![v.out] = S]
    OBVIOUS
  <2> HIDE DEF o, li, v2, v
  <2>3. QED
    BY <1>1, <1>5, <1>7, <2>1, <2>2, ProcessWalk DEF v
<1>12. /\ UNCHANGED lock /\ lock' \in Kernels \cup {NoKernel}
       /\ centre_buffer' \in [Kernels \cup {NoKernel} -> [Centres -> [Points -> Nat]]]
  BY Shared DEF ProcessNode, shared
<1> HIDE DEF v2, li, f, h, o, lost
<1>13. Keeps(p) /\ pc'[p] = "decide"
  BY <1>1, <1>7, <1>8, <1>9, <1>10, <1>11, <1>12, Moved DEF lost, Stages
<1>14. QED
  BY <1>1, <1>12, <1>13, LockKept

LEMMA StopKeeps ==
  ASSUME IInv, NEW p \in Kernels, Stop(p)
  PROVE  IInv'
<1> DEFINE v == local[p]
           f == [flist[p] EXCEPT ![v.out] = next_free_location[p]]
           o == [owner[p] EXCEPT ![v.out] = 0]
           lost == iterations * Depth(p)
<1>1. /\ pc[p] = "decide" /\ phase = "run" /\ v \in Visit
      /\ lists[p] \in [Cells -> SUBSET Centres] /\ owner[p] \in [Cells -> {0, 1}]
      /\ Walks(p, "decide", stack[p], v, lists[p], owner[p], nearest)
  BY Parts DEF Stop, Goto
<1>2. v.out \in Cells /\ owner[p][v.out] # 0
  BY <1>1 DEF Walks, HeldIn
<1>3. /\ HeapGood(f, v.out, o, lost, Depth(p))
      /\ flist' = [flist EXCEPT ![p] = f] /\ owner' = [owner EXCEPT ![p] = o]
      /\ next_free_location' = [next_free_location EXCEPT ![p] = v.out]
  BY <1>1, <1>2, FreeStep DEF Stop, DropSurvivors
<1>4. After(p, "enter", stack[p], v, lists[p], f, v.out, o)
  <2>1. pc' = [pc EXCEPT ![p] = "enter"] /\ UNCHANGED <<top, local, stack, lists>>
    BY DEF Stop, Goto
  <2> HIDE DEF f, o
  <2>2. QED
    BY <1>3, <2>1, SameParts DEF After
<1>5. Walks(p, "enter", stack[p], v, lists[p], o, nearest)
  <2>1. v.new_k = 0 \/ IsLeaf(v.u)
    BY DEF Stop, DeadEnd
  <2> HIDE DEF v
  <2>2. QED
    BY <1>1, <2>1, StopWalk
<1>6. /\ UNCHANGED lock /\ lock' \in Kernels \cup {NoKernel}
      /\ centre_buffer' \in [Kernels \cup {NoKernel} -> [Centres -> [Points -> Nat]]]
  BY Shared DEF Stop, shared
<1> HIDE DEF f, o, lost, v
<1>7. Keeps(p) /\ pc'[p] = "enter"
  BY <1>1, <1>3, <1>4, <1>5, <1>6, Moved DEF lost, Stages
<1>8. QED
  BY <1>1, <1>6, <1>7, LockKept

LEMMA DescendKeeps ==
  ASSUME IInv, NEW p \in Kernels, Descend(p)
  PROVE  IInv'
<1> DEFINE v == local[p]
           st == stack[p] \o Children(v)
           lost == iterations * Depth(p)
<1>1. /\ pc[p] = "decide" /\ phase = "run" /\ lists[p] \in [Cells -> SUBSET Centres]
      /\ Walks(p, "decide", stack[p], v, lists[p], owner[p], nearest)
      /\ HeapGood(flist[p], next_free_location[p], owner[p], lost, Depth(p))
  BY Parts DEF Descend, Goto
<1>2. After(p, "loop", st, NoVisit, lists[p], flist[p], next_free_location[p], owner[p])
  <2>1. /\ pc' = [pc EXCEPT ![p] = "loop"] /\ local' = [local EXCEPT ![p] = NoVisit]
        /\ stack' = [stack EXCEPT ![p] = st] /\ UNCHANGED <<top, heap, lists>>
    BY DEF Descend, Goto
  <2> HIDE DEF st
  <2>2. QED
    BY <2>1, SameParts DEF After, heap
<1>3. Walks(p, "loop", st, NoVisit, lists[p], owner[p], nearest)
  <2>1. v.new_k # 0 /\ ~IsLeaf(v.u)
    BY DEF Descend, DeadEnd
  <2>2. QED
    BY <1>1, <2>1, DescendWalk
<1>4. /\ UNCHANGED lock /\ lock' \in Kernels \cup {NoKernel}
      /\ centre_buffer' \in [Kernels \cup {NoKernel} -> [Centres -> [Points -> Nat]]]
  BY Shared DEF Descend, shared
<1> HIDE DEF st, lost, v
<1>5. Keeps(p) /\ pc'[p] = "loop"
  BY <1>1, <1>2, <1>3, <1>4, NoVisitType, Moved DEF lost, Stages
<1>6. QED
  BY <1>1, <1>4, <1>5, LockKept

LEMMA EnterKeeps ==
  ASSUME IInv, NEW p \in Kernels, Enter(p)
  PROVE  IInv'
<1> DEFINE lost == iterations * Depth(p)
<1>1. /\ pc[p] = "enter" /\ phase = "run" /\ local[p] \in Visit
      /\ lists[p] \in [Cells -> SUBSET Centres]
      /\ Walks(p, "enter", stack[p], local[p], lists[p], owner[p], nearest)
      /\ HeapGood(flist[p], next_free_location[p], owner[p], lost, Depth(p))
  BY Parts DEF Enter, Goto
<1>2. After(p, "read", stack[p], local[p], lists[p], flist[p], next_free_location[p], owner[p])
  BY SameParts DEF Enter, Goto, After, heap
<1>3. Walks(p, "read", stack[p], local[p], lists[p], owner[p], nearest)
  BY <1>1, QuietWalk
<1>4. /\ lock = NoKernel /\ lock' = p
      /\ centre_buffer' \in [Kernels \cup {NoKernel} -> [Centres -> [Points -> Nat]]]
  BY Shared DEF Enter, Acquire
<1> HIDE DEF lost
<1>5. Keeps(p) /\ pc'[p] = "read"
  BY <1>1, <1>2, <1>3, <1>4, Moved DEF lost, Stages
<1>6. QED
  BY <1>4, <1>5, LockKept

LEMMA BufferType ==
  ASSUME IInv, NEW p \in Kernels, NEW c \in Centres
  PROVE  /\ Buffer(p) \in Kernels \cup {NoKernel}
         /\ centre_buffer[Buffer(p)] \in [Centres -> [Points -> Nat]]
         /\ centre_buffer[Buffer(p)][c] \in [Points -> Nat]
<1>1. Buffer(p) \in Kernels \cup {NoKernel}
  BY DEF Buffer
<1>2. QED
  BY <1>1 DEF IInv, TypeOK

LEMMA ReadRecordKeeps ==
  ASSUME IInv, NEW p \in Kernels, ReadRecord(p)
  PROVE  IInv'
<1> DEFINE r == centre_buffer[Buffer(p)][local[p].z]
           v == [local[p] EXCEPT !.record = r]
           lost == iterations * Depth(p)
<1>1. /\ pc[p] = "read" /\ phase = "run" /\ local[p] \in Visit
      /\ lists[p] \in [Cells -> SUBSET Centres]
      /\ Walks(p, "read", stack[p], local[p], lists[p], owner[p], nearest)
      /\ HeapGood(flist[p], next_free_location[p], owner[p], lost, Depth(p))
  BY Parts DEF ReadRecord, Goto
<1>2. r \in [Points -> Nat]
  <2>1. local[p].z \in Centres
    BY <1>1 DEF Visit
  <2>2. QED
    BY <2>1, BufferType
<1>3. v \in Visit /\ v.u = local[p].u /\ v.z = local[p].z
  <2> HIDE DEF r
  <2>1. QED
    BY <1>1, <1>2 DEF Visit
<1>4. After(p, "write", stack[p], v, lists[p], flist[p], next_free_location[p], owner[p])
  <2>1. local' = [local EXCEPT ![p] = v]
    BY DEF ReadRecord
  <2> HIDE DEF v
  <2>2. QED
    BY <2>1, SameParts DEF ReadRecord, Goto, After, heap
<1> HIDE DEF v, r
<1>5. Walks(p, "write", stack[p], v, lists[p], owner[p], nearest)
  BY <1>1, <1>3, QuietWalk
<1>6. /\ UNCHANGED lock /\ lock' \in Kernels \cup {NoKernel}
      /\ centre_buffer' \in [Kernels \cup {NoKernel} -> [Centres -> [Points -> Nat]]]
  BY Shared DEF ReadRecord, shared
<1> HIDE DEF lost
<1>7. Keeps(p) /\ pc'[p] = "write"
  BY <1>1, <1>3, <1>4, <1>5, <1>6, Moved DEF lost, Stages
<1>8. QED
  BY <1>1, <1>6, <1>7, LockKept

LEMMA WriteRecordKeeps ==
  ASSUME IInv, NEW p \in Kernels, WriteRecord(p)
  PROVE  IInv'
<1> DEFINE lost == iterations * Depth(p)
           new == Plus(local[p].record, Under[local[p].u])
<1>1. /\ pc[p] = "write" /\ phase = "run" /\ local[p] \in Visit
      /\ lists[p] \in [Cells -> SUBSET Centres]
      /\ Walks(p, "write", stack[p], local[p], lists[p], owner[p], nearest)
      /\ HeapGood(flist[p], next_free_location[p], owner[p], lost, Depth(p))
  BY Parts DEF WriteRecord, Goto
<1>2. After(p, "loop", stack[p], NoVisit, lists[p], flist[p], next_free_location[p], owner[p])
  BY SameParts DEF WriteRecord, Goto, After, heap
<1>3. Walks(p, "loop", stack[p], NoVisit, lists[p], owner[p], nearest)
  BY <1>1, QuietWalk
<1>4. lock' = NoKernel
  BY DEF WriteRecord, Release
<1>5. centre_buffer' \in [Kernels \cup {NoKernel} -> [Centres -> [Points -> Nat]]]
  <2>1. new \in [Points -> Nat]
    BY <1>1, PlusType DEF Visit
  <2>2. centre_buffer' = [centre_buffer EXCEPT ![Buffer(p)][local[p].z] = new]
    BY DEF WriteRecord
  <2>3. centre_buffer \in [Kernels \cup {NoKernel} -> [Centres -> [Points -> Nat]]]
    BY DEF IInv, TypeOK
  <2> HIDE DEF new
  <2>4. QED
    BY <2>1, <2>2, <2>3
<1> HIDE DEF lost
<1>6. Keeps(p) /\ pc'[p] = "loop"
  BY <1>1, <1>2, <1>3, <1>4, <1>5, NoVisitType, Moved DEF lost, Stages
<1>7. QED
  BY <1>1, <1>4, <1>6, LockKept

LEMMA ReturnKeeps ==
  ASSUME IInv, NEW p \in Kernels, Return(p)
  PROVE  IInv'
<1> DEFINE lost == iterations * Depth(p)
<1>1. /\ pc[p] = "loop" /\ stack[p] = <<>> /\ phase = "run" /\ local[p] \in Visit
      /\ lists[p] \in [Cells -> SUBSET Centres]
      /\ Walks(p, "loop", stack[p], local[p], lists[p], owner[p], nearest)
      /\ HeapGood(flist[p], next_free_location[p], owner[p], lost, Depth(p))
  BY Parts DEF Return, Goto
<1>2. After(p, "done", stack[p], local[p], lists[p], flist[p], next_free_location[p], owner[p])
  BY SameParts DEF Return, Goto, After, heap
<1>3. Walks(p, "done", stack[p], local[p], lists[p], owner[p], nearest)
  BY <1>1, QuietWalk
<1>4. /\ UNCHANGED lock /\ lock' \in Kernels \cup {NoKernel}
      /\ centre_buffer' \in [Kernels \cup {NoKernel} -> [Centres -> [Points -> Nat]]]
  BY Shared DEF Return, shared
<1> HIDE DEF lost
<1>5. Keeps(p) /\ pc'[p] = "done"
  BY <1>1, <1>2, <1>3, <1>4, Moved DEF lost, Stages
<1>6. QED
  BY <1>1, <1>4, <1>5, LockKept

LEMMA ReductionType ==
  ASSUME TypeOK
  PROVE  Reduction \in [Centres -> [Points -> Nat]]
<1>1. centre_buffer \in [Kernels \cup {NoKernel} -> [Centres -> [Points -> Nat]]]
  BY DEF TypeOK
<1>2. CASE build.onchip
  <2>1. ASSUME NEW c \in Centres
        PROVE  Sum([p \in Kernels |-> centre_buffer[p][c]]) \in [Points -> Nat]
    <3>1. [p \in Kernels |-> centre_buffer[p][c]] \in [Kernels -> [Points -> Nat]]
      BY <1>1
    <3>2. QED
      BY <3>1, SumType
  <2>2. QED
    BY <1>2, <2>1 DEF Reduction
<1>3. CASE ~build.onchip
  BY <1>1, <1>3 DEF Reduction
<1>4. QED
  BY <1>2, <1>3

LEMMA InitCentreBufferKeeps ==
  ASSUME IInv, InitCentreBuffer
  PROVE  IInv'
<1>1. /\ phase = "init" /\ phase' = "copy"
      /\ UNCHANGED <<build, iterations, nearest, reduced, flist, next_free_location, owner,
                     lock, pc, local, stack, lists>>
  BY DEF InitCentreBuffer, heap, kernel
<1>2. centre_buffer' \in [Kernels \cup {NoKernel} -> [Centres -> [Points -> Nat]]]
  BY EmptyTypes DEF InitCentreBuffer, IInv, TypeOK
<1>3. TypeOK'
  BY <1>1, <1>2 DEF IInv, TypeOK, HeapTypeOK
<1>4. PhaseInv' /\ LockInv'
  BY <1>1 DEF IInv, PhaseInv, LockInv
<1>5. ASSUME NEW p \in Kernels
      PROVE  WalkInv(p)' /\ HeapInv(p)'
  <2>1. WalkInv(p) /\ HeapInv(p)
    BY DEF IInv
  <2>2. Lost(p)' = Lost(p)
    BY <1>1 DEF Lost, Calls
  <2>3. WalkInv(p)'
    BY <1>1, <2>1 DEF WalkInv
  <2>4. HeapInv(p)'
    BY <1>1, <2>1, <2>2 DEF HeapInv
  <2>5. QED
    BY <2>3, <2>4
<1>6. QED
  BY <1>3, <1>4, <1>5 DEF IInv

LEMMA StartIterationKeeps ==
  ASSUME IInv, StartIteration
  PROVE  IInv'
<1>1. /\ phase \in {"copy", "reduced"} /\ phase' = "run" /\ iterations < build.l
      /\ nearest' \in [Points -> Centres] /\ pc' = [p \in Kernels |-> "call"]
      /\ UNCHANGED <<build, iterations, reduced, flist, next_free_location, owner,
                     lock, centre_buffer, local, stack, lists>>
  BY DEF StartIteration, heap, shared
<1>2. TypeOK'
  BY <1>1 DEF IInv, TypeOK, HeapTypeOK
<1>3. \A p \in Kernels : pc[p] = "done"
  BY <1>1 DEF IInv, PhaseInv
<1>4. PhaseInv' /\ LockInv'
  BY <1>1, <1>3 DEF IInv, PhaseInv, LockInv
<1>5. ASSUME NEW p \in Kernels
      PROVE  WalkInv(p)' /\ HeapInv(p)'
  <2>1. WalkInv(p) /\ HeapInv(p)
    BY DEF IInv
  <2>2. stack[p] = <<>> /\ HeldIn(owner[p]) = {}
    BY <1>3, <2>1 DEF WalkInv, Walks
  <2>3. Walks(p, "call", <<>>, local[p], lists[p], owner[p], nearest')
    BY <2>2, IdleWalk
  <2>4. WalkInv(p)'
    BY <1>1, <2>2, <2>3 DEF WalkInv
  <2>5. Lost(p)' = Lost(p)
    BY <1>1 DEF Lost, Calls
  <2>6. HeapInv(p)'
    BY <1>1, <2>1, <2>5 DEF HeapInv
  <2>7. QED
    BY <2>4, <2>6
<1>6. QED
  BY <1>2, <1>4, <1>5 DEF IInv

LEMMA ReduceKeeps ==
  ASSUME IInv, Reduce
  PROVE  IInv'
<1>1. /\ phase = "run" /\ phase' = "reduced" /\ iterations' = iterations + 1
      /\ \A p \in Kernels : pc[p] = "done"
      /\ reduced' \in [Centres -> [Points -> Nat]]
      /\ UNCHANGED <<build, nearest, flist, next_free_location, owner,
                     lock, centre_buffer, pc, local, stack, lists>>
  BY ReductionType DEF Reduce, heap, shared, kernel, IInv
<1>2. iterations \in Nat /\ build.l \in Nat /\ iterations < build.l
  BY <1>1, BuildFacts DEF IInv, PhaseInv
<1>3. iterations' \in 0 .. build.l /\ iterations' >= 1 /\ iterations' - 1 = iterations
  BY <1>1, <1>2
<1>4. TypeOK'
  BY <1>1, <1>3 DEF IInv, TypeOK, HeapTypeOK
<1>5. PhaseInv' /\ LockInv'
  BY <1>1, <1>3 DEF IInv, PhaseInv, LockInv
<1>6. ASSUME NEW p \in Kernels
      PROVE  WalkInv(p)' /\ HeapInv(p)'
  <2>1. WalkInv(p) /\ HeapInv(p)
    BY DEF IInv
  <2>2. Lost(p)' = Lost(p)
    BY <1>1, <1>2, <1>3 DEF Lost, Calls
  <2>3. WalkInv(p)'
    BY <1>1, <2>1 DEF WalkInv
  <2>4. HeapInv(p)'
    BY <1>1, <1>2, <1>3, <2>1, <2>2 DEF HeapInv
  <2>5. QED
    BY <2>3, <2>4
<1>7. QED
  BY <1>4, <1>5, <1>6 DEF IInv

LEMMA FinishKeeps ==
  ASSUME IInv, Finish
  PROVE  IInv'
<1>1. /\ phase \in {"copy", "reduced"} /\ phase' = "end"
      /\ UNCHANGED <<build, iterations, nearest, reduced, flist, next_free_location, owner,
                     lock, centre_buffer, pc, local, stack, lists>>
  BY DEF Finish, heap, shared, kernel
<1>2. TypeOK'
  BY <1>1 DEF IInv, TypeOK, HeapTypeOK
<1>3. PhaseInv' /\ LockInv'
  BY <1>1 DEF IInv, PhaseInv, LockInv
<1>4. ASSUME NEW p \in Kernels
      PROVE  WalkInv(p)' /\ HeapInv(p)'
  <2>1. WalkInv(p) /\ HeapInv(p)
    BY DEF IInv
  <2>2. Lost(p)' = Lost(p)
    BY <1>1 DEF Lost, Calls
  <2>3. WalkInv(p)'
    BY <1>1, <2>1 DEF WalkInv
  <2>4. HeapInv(p)'
    BY <1>1, <2>1, <2>2 DEF HeapInv
  <2>5. QED
    BY <2>3, <2>4
<1>5. QED
  BY <1>2, <1>3, <1>4 DEF IInv

LEMMA StutterKeeps ==
  ASSUME IInv, UNCHANGED vars
  PROVE  IInv'
<1>1. UNCHANGED <<build, iterations, phase, nearest, reduced, flist, next_free_location, owner,
                  lock, centre_buffer, pc, local, stack, lists>>
  BY DEF vars, top, heap, shared
<1>2. TypeOK'
  BY <1>1 DEF IInv, TypeOK, HeapTypeOK
<1>3. PhaseInv' /\ LockInv'
  BY <1>1 DEF IInv, PhaseInv, LockInv
<1>4. ASSUME NEW p \in Kernels
      PROVE  WalkInv(p)' /\ HeapInv(p)'
  <2>1. WalkInv(p) /\ HeapInv(p)
    BY DEF IInv
  <2>2. Lost(p)' = Lost(p)
    BY <1>1 DEF Lost, Calls
  <2>3. WalkInv(p)'
    BY <1>1, <2>1 DEF WalkInv
  <2>4. HeapInv(p)'
    BY <1>1, <2>1, <2>2 DEF HeapInv
  <2>5. QED
    BY <2>3, <2>4
<1>5. QED
  BY <1>2, <1>3, <1>4 DEF IInv

(* The walks, the heaps and the lock of the kernels, at every step.        *)
THEOREM KernelInvariant ==
  ASSUME RoomForCalls
  PROVE  Spec => []IInv
<1>1. IInv /\ [Next]_vars => IInv'
  <2> SUFFICES ASSUME IInv, [Next]_vars PROVE IInv'
    OBVIOUS
  <2>1. CASE InitCentreBuffer
    BY <2>1, InitCentreBufferKeeps
  <2>2. CASE StartIteration
    BY <2>2, StartIterationKeeps
  <2>3. CASE Reduce
    BY <2>3, ReduceKeeps
  <2>4. CASE Finish
    BY <2>4, FinishKeeps
  <2>5. ASSUME NEW p \in Kernels, KernelStep(p)
        PROVE  IInv'
    BY <2>5, CallKeeps, PushRootKeeps, PopKeeps, ProcessNodeKeeps, StopKeeps, DescendKeeps,
       EnterKeeps, ReadRecordKeeps, WriteRecordKeeps, ReturnKeeps DEF KernelStep
  <2>6. CASE UNCHANGED vars
    BY <2>6, StutterKeeps
  <2>7. QED
    BY <2>1, <2>2, <2>3, <2>4, <2>5, <2>6 DEF Next
<1>2. QED
  BY <1>1, Inits, PTL DEF Spec

(* Every part of the state keeps its type.                                 *)
THEOREM TypeCorrect ==
  ASSUME RoomForCalls
  PROVE  Spec => []TypeOK
<1>1. IInv => TypeOK
  BY DEF IInv
<1>2. QED
  BY <1>1, KernelInvariant, PTL

(* A list that somebody still has to read is held and holds the candidates.*)
THEOREM ListsIntact ==
  ASSUME RoomForCalls
  PROVE  Spec => []PendingListsIntact
<1>1. ASSUME IInv
      PROVE  PendingListsIntact
  <2> SUFFICES ASSUME NEW p \in Kernels, NEW i \in DOMAIN stack[p]
               PROVE  LET e == stack[p][i]
                      IN  /\ owner[p][e.c] = 1
                          /\ Cardinality(lists[p][e.c]) = e.k + 1
                          /\ \A x \in Under[e.u] : nearest[x] \in lists[p][e.c]
    BY DEF PendingListsIntact
  <2> DEFINE e == stack[p][i]
  <2>1. /\ pc[p] \in Stages /\ stack[p] \in Seq(Entries) /\ owner[p] \in [Cells -> {0, 1}]
        /\ Walks(p, pc[p], stack[p], local[p], lists[p], owner[p], nearest)
    BY <1>1, Parts
  <2>2. i \in 1 .. Len(stack[p])
    BY <2>1
  <2>3. Serves(lists[p][e.c], e.k, e.u, nearest)
    BY <2>1, <2>2 DEF Walks, StackOK
  <2>4. e.c \in ListsOf(stack[p])
    BY <2>2 DEF ListsOf
  <2>5. ListsOf(stack[p]) \subseteq HeldIn(owner[p])
    <3>1. CASE pc[p] \in {"call", "alloc", "done"}
      <4>1. stack[p] = <<>>
        BY <2>1, <3>1 DEF Walks
      <4>2. QED
        BY <4>1 DEF ListsOf
    <3>2. CASE pc[p] \notin {"call", "alloc", "done"}
      BY <2>1, <3>2 DEF Walks, Stages
    <3>3. QED
      BY <3>1, <3>2
  <2>6. owner[p][e.c] = 1
    BY <2>1, <2>4, <2>5 DEF HeldIn
  <2>7. QED
    BY <2>3, <2>6 DEF Serves
<1>2. QED
  BY <1>1, KernelInvariant, PTL

(* A call of filter that has returned has deleted its lists.               *)
THEOREM ListsDeleted ==
  ASSUME RoomForCalls
  PROVE  Spec => []AllListsDeleted
<1>1. ASSUME IInv
      PROVE  AllListsDeleted
  <2> SUFFICES ASSUME NEW p \in Kernels, pc[p] = "done"
               PROVE  HeldIn(owner[p]) = {}
    BY DEF AllListsDeleted, HeldIn
  <2>1. QED
    BY <1>1, Parts DEF Walks
<1>2. QED
  BY <1>1, KernelInvariant, PTL

(* The depth of the subtree bounds the stack and the lists in use.         *)
THEOREM MemoryBound ==
  ASSUME RoomForCalls
  PROVE  Spec => []MemoryBounded
<1>1. ASSUME IInv
      PROVE  MemoryBounded
  <2> SUFFICES ASSUME NEW p \in Kernels
               PROVE  /\ Len(stack[p]) <= Height[Root[p]] + 1
                      /\ Cardinality({c \in Cells : owner[p][c] > 0})
                           <= Max({2, Height[Root[p]] + 1})
    BY DEF MemoryBounded
  <2>1. /\ pc[p] \in Stages /\ owner[p] \in [Cells -> {0, 1}]
        /\ Walks(p, pc[p], stack[p], local[p], lists[p], owner[p], nearest)
    BY <1>1, Parts
  <2>2. /\ Len(stack[p]) <= Height[Root[p]] + 1
        /\ Cardinality(HeldIn(owner[p])) <= Depth(p) + 1
    BY <2>1, WalkBounds DEF Stages
  <2>3. HeldIn(owner[p]) = {c \in Cells : owner[p][c] > 0}
    BY <2>1 DEF HeldIn
  <2>4. QED
    BY <2>2, <2>3, DepthFacts
<1>2. QED
  BY <1>1, KernelInvariant, PTL

(* Every kernel is a client that FreeList admits.                          *)
THEOREM FreeListUse ==
  ASSUME RoomForCalls
  PROVE  Spec => UsesFreeList
<1>1. Init => \A p \in Kernels : List(p)!Init
  BY HeapAssumption DEF Init, HeapInit, List!Init, List!InitFlist, List!Links, List!Cells,
         List!FirstCell, Links, Cells
<1>2. IInv /\ [Next]_vars =>
        [\A p \in Kernels : List(p)!Next \/ UNCHANGED List(p)!vars]_heap
  <2> SUFFICES ASSUME IInv, [Next]_vars
               PROVE  (\A q \in Kernels : List(q)!Next \/ UNCHANGED List(q)!vars) \/ UNCHANGED heap
    OBVIOUS
  <2>1. ASSUME NEW p \in Kernels, NEW q \in Kernels, q # p, NEW f, NEW h, NEW o,
               flist' = [flist EXCEPT ![p] = f], owner' = [owner EXCEPT ![p] = o],
               next_free_location' = [next_free_location EXCEPT ![p] = h]
        PROVE  UNCHANGED List(q)!vars
    BY <2>1 DEF List!vars, IInv, TypeOK, HeapTypeOK
  <2>2. ASSUME NEW p \in Kernels, pc[p] \in {"alloc", "loop"}, Malloc(p)
        PROVE  \A q \in Kernels : List(q)!Next \/ UNCHANGED List(q)!vars
    <3> DEFINE c == next_free_location[p]
               o == [owner[p] EXCEPT ![c] = 1]
    <3>1. /\ c \in Cells /\ owner[p][c] = 0
          /\ flist' = [flist EXCEPT ![p] = flist[p]]
          /\ next_free_location' = [next_free_location EXCEPT ![p] = flist[p][c]]
          /\ owner' = [owner EXCEPT ![p] = o]
      BY <2>2, MallocStep
    <3>2. /\ flist'[p] = flist[p] /\ next_free_location'[p] = flist[p][c]
          /\ owner'[p] = o
      BY <3>1 DEF IInv, TypeOK, HeapTypeOK
    <3>3. o = [owner[p] EXCEPT ![c] = @ + 1]
      <4>1. owner[p] \in [Cells -> {0, 1}]
        BY Parts
      <4>2. QED
        BY <3>1, <4>1
    <3> HIDE DEF o
    <3>4. List(p)!Malloc
      BY <3>1, <3>2, <3>3 DEF List!Malloc, List!HasRoom, List!Cells, List!FirstCell, Cells
    <3> HIDE DEF c
    <3>5. QED
      BY <2>1, <3>1, <3>4 DEF List!Next
  <2>3. ASSUME NEW p \in Kernels, pc[p] \notin {"call", "done"},
               NEW c \in Cells, owner[p][c] # 0, Free(p, c)
        PROVE  \A q \in Kernels : List(q)!Next \/ UNCHANGED List(q)!vars
    <3> DEFINE f == [flist[p] EXCEPT ![c] = next_free_location[p]]
               o == [owner[p] EXCEPT ![c] = 0]
    <3>1. /\ flist' = [flist EXCEPT ![p] = f]
          /\ next_free_location' = [next_free_location EXCEPT ![p] = c]
          /\ owner' = [owner EXCEPT ![p] = o]
      BY <2>3, FreeStep
    <3>2. flist'[p] = f /\ next_free_location'[p] = c /\ owner'[p] = o
      BY <3>1 DEF IInv, TypeOK, HeapTypeOK
    <3>3. o = [owner[p] EXCEPT ![c] = @ - 1] /\ owner[p][c] > 0
      <4>1. owner[p] \in [Cells -> {0, 1}]
        BY Parts
      <4>2. owner[p][c] = 1
        BY <2>3, <4>1
      <4>3. QED
        BY <4>1, <4>2
    <3> HIDE DEF o
    <3>4. c \in List(p)!Cells /\ List(p)!Free(c)
      BY <3>2, <3>3 DEF List!Free, List!Cells, List!FirstCell, Cells
    <3> HIDE DEF f
    <3>5. QED
      BY <2>1, <3>1, <3>4 DEF List!Next
  <2>4. ASSUME NEW p \in Kernels, Call(p)
        PROVE  \A q \in Kernels : List(q)!Next \/ UNCHANGED List(q)!vars
    <3>1. HeldIn(owner[p]) = {}
      BY <2>4, Parts DEF Call, Goto, Walks
    <3>2. /\ flist' = [flist EXCEPT ![p] = flist[p]] /\ owner' = [owner EXCEPT ![p] = owner[p]]
          /\ next_free_location' = [next_free_location EXCEPT ![p] = 1]
      BY <2>4, SameParts DEF Call
    <3>3. next_free_location'[p] = 1 /\ flist'[p] = flist[p] /\ owner'[p] = owner[p]
      BY <3>2 DEF IInv, TypeOK, HeapTypeOK
    <3>4. List(p)!Held = {}
      BY <3>1, Parts DEF List!Held, List!Cells, List!FirstCell, Cells, HeldIn
    <3>5. List(p)!Restart
      BY <3>3, <3>4 DEF List!Restart, List!FirstCell
    <3>6. QED
      BY <2>1, <3>2, <3>5 DEF List!Next
  <2>5. ASSUME NEW p \in Kernels, KernelStep(p)
        PROVE  (\A q \in Kernels : List(q)!Next \/ UNCHANGED List(q)!vars) \/ UNCHANGED heap
    <3>1. CASE Call(p)
      BY <2>4, <3>1
    <3>2. CASE PushRoot(p)
      BY <2>2, <3>2 DEF PushRoot, Goto
    <3>3. CASE Pop(p)
      BY <2>2, <3>3 DEF Pop, Goto
    <3>4. CASE ProcessNode(p)
      <4>1. CASE local[p].d
        <5>1. pc[p] = "process" /\ local[p].in \in Cells /\ owner[p][local[p].in] # 0
          BY <3>4, Parts DEF ProcessNode, Goto, Walks, ListsOK, HeldIn
        <5>2. Free(p, local[p].in)
          BY <3>4, <4>1 DEF ProcessNode, LastReader
        <5>3. QED
          BY <2>3, <5>1, <5>2
      <4>2. CASE ~local[p].d
        BY <3>4, <4>2 DEF ProcessNode, LastReader
      <4>3. QED
        BY <4>1, <4>2
    <3>5. CASE Stop(p)
      <4>1. pc[p] = "decide" /\ local[p].out \in Cells /\ owner[p][local[p].out] # 0
        BY <3>5, Parts DEF Stop, Goto, Walks, HeldIn
      <4>2. QED
        BY <2>3, <3>5, <4>1 DEF Stop, DropSurvivors
    <3>6. CASE Descend(p) \/ Enter(p) \/ ReadRecord(p) \/ WriteRecord(p) \/ Return(p)
      BY <3>6 DEF Descend, Enter, ReadRecord, WriteRecord, Return
    <3>7. QED
      BY <2>5, <3>1, <3>2, <3>3, <3>4, <3>5, <3>6 DEF KernelStep
  <2>6. CASE InitCentreBuffer \/ StartIteration \/ Reduce \/ Finish
    BY <2>6 DEF InitCentreBuffer, StartIteration, Reduce, Finish
  <2>7. CASE UNCHANGED vars
    BY <2>7 DEF vars
  <2>8. QED
    BY <2>5, <2>6, <2>7 DEF Next
<1>3. QED
  BY <1>1, <1>2, KernelInvariant, PTL DEF Spec, UsesFreeList

------------------------------------------------------------------------------
(* The cells that are neither held nor on the list.                        *)
LEMMA ListInside ==
  ASSUME NEW f, NEW h, NEW n \in Nat, NEW s \in [1 .. n -> Cells], Linked(f, h, s, n),
         NEW S, h \in Cells => h \in S, \A c \in S : f[c] \in Cells => f[c] \in S
  PROVE  \A i \in 1 .. n : s[i] \in S
<1> DEFINE Bad == {i \in 1 .. n : s[i] \notin S}
           Starts == {1 .. i : i \in Bad}
<1> SUFFICES ASSUME Bad # {} PROVE FALSE
  OBVIOUS
<1>1. PICK A \in Starts : \A B \in Starts : ~ (B \subseteq A /\ B # A)
  <2> DEFINE X == 1 .. n
  <2>1. Starts \in SUBSET (SUBSET X) /\ Starts # {} /\ IsFiniteSet(X)
    BY FS_Interval
  <2> HIDE DEF Starts, Bad, X
  <2>2. QED
    BY <2>1, LeastSubset
<1>2. PICK i \in Bad : A = 1 .. i
  OBVIOUS
<1>3. i # 1
  BY DEF Linked
<1>4. i - 1 \in 1 .. n /\ 1 .. i - 1 \subseteq 1 .. i /\ 1 .. i - 1 # 1 .. i
  BY <1>3
<1>5. i - 1 \notin Bad
  BY <1>1, <1>2, <1>4
<1>6. f[s[i - 1]] = s[i]
  BY <1>3, <1>4 DEF Linked
<1>7. QED
  BY <1>4, <1>5, <1>6

(* A cell the list does not reach: some closed set does without it.        *)
Missed(f, h, c) ==
  \E S \in SUBSET Cells :
    /\ h \in Cells => h \in S
    /\ \A b \in S : f[b] \in Cells => f[b] \in S
    /\ c \notin S

LEMMA HeapLeak ==
  ASSUME NEW f, NEW h, NEW o, NEW lost \in Nat, NEW depth \in Nat,
         HeapGood(f, h, o, lost, depth),
         NEW T \in SUBSET Cells, T \cap HeldIn(o) = {},
         \A c \in T : Missed(f, h, c)
  PROVE  Cardinality(T) <= lost
<1>0. PICK n \in Nat : \E s \in [1 .. n -> Cells] :
        Linked(f, h, s, n) /\ FreeOnes(h, o, s, n, lost, depth)
  BY DEF HeapGood
<1>1. PICK s \in [1 .. n -> Cells] :
        Linked(f, h, s, n) /\ FreeOnes(h, o, s, n, lost, depth)
  BY <1>0
<1> DEFINE R == {s[i] : i \in 1 .. n}
           H == HeldIn(o)
<1>2. R \in SUBSET Cells /\ R \cap T = {}
  <2> SUFFICES ASSUME NEW i \in 1 .. n, s[i] \in T
               PROVE  FALSE
    OBVIOUS
  <2>1. PICK S \in SUBSET Cells :
          /\ h \in Cells => h \in S
          /\ \A b \in S : f[b] \in Cells => f[b] \in S
          /\ s[i] \notin S
    <3>1. Missed(f, h, s[i])
      OBVIOUS
    <3>2. QED
      BY <3>1 DEF Missed
  <2>2. \A j \in 1 .. n : s[j] \in S
    BY <1>1, <2>1, ListInside
  <2>3. QED
    BY <2>1, <2>2
<1>3. R \cap H = {} /\ H \in SUBSET Cells
  BY <1>1 DEF FreeOnes, HeldIn
<1>4. IsFiniteSet(R) /\ Cardinality(R) = n
  <2>1. s \in Bijection(1 .. n, R)
    BY <1>1 DEF Linked, Bijection, Injection, Surjection, IsInjective
  <2>2. IsFiniteSet(1 .. n) /\ Cardinality(1 .. n) = n
    BY FS_Interval
  <2> HIDE DEF R
  <2>3. QED
    BY <2>1, <2>2, FS_Bijection DEF ExistsBijection
<1>5. IsFiniteSet(H) /\ Cardinality(H) \in Nat /\ IsFiniteSet(T) /\ Cardinality(T) \in Nat
  BY HeldFinite, CellFacts, FS_Subset, FS_CardinalityType
<1>6. HeapSize - 1 <= n + Cardinality(H) + lost
  BY <1>1 DEF FreeOnes
<1> HIDE DEF R, H
<1>7. IsFiniteSet(R \cup H) /\ Cardinality(R \cup H) = n + Cardinality(H)
  <2>1. IsFiniteSet(R \cup H)
        /\ Cardinality(R \cup H) = Cardinality(R) + Cardinality(H) - Cardinality(R \cap H)
    BY <1>4, <1>5, FS_Union
  <2>2. Cardinality(R \cap H) = 0
    BY <1>3, FS_EmptySet
  <2>3. QED
    BY <1>4, <1>5, <2>1, <2>2
<1>8. Cardinality((R \cup H) \cup T) = n + Cardinality(H) + Cardinality(T)
  <2>1. Cardinality((R \cup H) \cup T)
          = Cardinality(R \cup H) + Cardinality(T) - Cardinality((R \cup H) \cap T)
    BY <1>5, <1>7, FS_Union
  <2>2. (R \cup H) \cap T = {}
    BY <1>2 DEF H
  <2>3. Cardinality((R \cup H) \cap T) = 0
    BY <2>2, FS_EmptySet
  <2>4. QED
    BY <1>5, <1>7, <2>1, <2>3
<1>9. Cardinality((R \cup H) \cup T) <= HeapSize - 1
  <2>1. (R \cup H) \cup T \in SUBSET Cells
    BY <1>2, <1>3
  <2>2. QED
    BY <2>1, CellFacts, FS_Subset
<1>10. HeapSize \in Nat
  BY CellFacts
<1>11. QED
  BY <1>5, <1>6, <1>8, <1>9, <1>10

(* No call loses more cells than the longest path of its subtree has edges.*)
THEOREM LeakBound ==
  ASSUME RoomForCalls
  PROVE  Spec => []LeakBounded
<1>1. ASSUME IInv
      PROVE  LeakBounded
  <2> SUFFICES ASSUME NEW p \in Kernels
               PROVE  Cardinality(List(p)!Leaked) <= iterations * Depth(p)
    BY DEF LeakBounded, Depth
  <2> DEFINE T == List(p)!Leaked
  <2>1. iterations \in Nat /\ Depth(p) \in Nat
    BY <1>1, BuildFacts, DepthFacts DEF IInv
  <2>2. Calls(p) \in Nat /\ Calls(p) <= iterations
    BY <2>1 DEF Calls
  <2>3. Lost(p) \in Nat /\ Lost(p) <= iterations * Depth(p)
    <3> DEFINE d == Depth(p)
               n == Calls(p)
    <3>1. d \in Nat /\ n \in Nat /\ n <= iterations
      BY <2>1, <2>2
    <3> HIDE DEF d, n
    <3>2. n * d \in Nat /\ n * d <= iterations * d
      BY <2>1, <3>1
    <3>3. QED
      BY <3>2 DEF d, n, Lost
  <2>4. HeapGood(flist[p], next_free_location[p], owner[p], Lost(p), Depth(p))
        /\ owner[p] \in [Cells -> {0, 1}]
    BY <1>1, Parts DEF IInv, HeapInv
  <2>5. T \in SUBSET Cells /\ T \cap HeldIn(owner[p]) = {}
    <3>1. List(p)!Cells = Cells
      BY DEF List!Cells, List!FirstCell, Cells
    <3>2. List(p)!Held = HeldIn(owner[p])
      BY <2>4, <3>1 DEF List!Held, HeldIn
    <3>3. QED
      BY <3>1, <3>2 DEF List!Leaked
  <2>6. \A c \in T : Missed(flist[p], next_free_location[p], c)
    BY DEF Missed, List!Leaked, List!FreeCells, List!Reach, List!Closed, List!Cells, List!FirstCell, Cells
  <2> HIDE DEF T
  <2>7. Cardinality(T) <= Lost(p)
    <3> DEFINE f == flist[p]
               h == next_free_location[p]
               o == owner[p]
               d == Depth(p)
               n == Lost(p)
    <3>1. n \in Nat /\ d \in Nat /\ HeapGood(f, h, o, n, d)
      BY <2>1, <2>3, <2>4
    <3>2. T \in SUBSET Cells /\ T \cap HeldIn(o) = {}
      BY <2>5
    <3>3. \A c \in T : Missed(f, h, c)
      BY <2>6
    <3> HIDE DEF f, h, o, d, n
    <3>4. Cardinality(T) <= n
      BY <3>1, <3>2, <3>3, HeapLeak
    <3>5. QED
      BY <3>4 DEF n
  <2>8. Cardinality(T) \in Nat
    BY <2>5, CellFacts, FS_Subset, FS_CardinalityType
  <2> DEFINE lost == Lost(p)
             most == iterations * Depth(p)
  <2>9. lost \in Nat /\ lost <= most /\ most \in Nat /\ Cardinality(T) <= lost
    <3> DEFINE d == Depth(p)
    <3> HIDE DEF d
    <3>1. d \in Nat
      BY <2>1 DEF d
    <3>2. iterations * d \in Nat
      BY <2>1, <3>1
    <3>3. QED
      BY <2>3, <2>7, <3>2 DEF d
  <2> HIDE DEF lost, most
  <2>10. Cardinality(T) <= most
    BY <2>8, <2>9
  <2>11. QED
    BY <2>10 DEF T, most
<1>2. QED
  BY <1>1, KernelInvariant, PTL

------------------------------------------------------------------------------
(* The points a kernel has still to serve: those below its root, the nodes *)
(* on its stack and the node it visits.                                    *)
Pending(st) == UNION {Under[st[i].u] : i \in 1 .. Len(st)}
Todo(p, at, st, u) ==
  IF at \in {"call", "alloc"} THEN Under[Root[p]]
  ELSE IF at \in {"loop", "done"} THEN Pending(st)
  ELSE Pending(st) \cup Under[u]

LEMMA TodoPushRoot ==
  ASSUME NEW p \in Kernels, NEW u, NEW c, NEW k
  PROVE  Todo(p, "loop", Append(<<>>, Entry(Root[p], c, k, TRUE)), u) = Under[Root[p]]
<1> DEFINE e == Entry(Root[p], c, k, TRUE)
<1>1. e.u = Root[p]
  BY DEF Entry
<1> HIDE DEF e
<1>2. Append(<<>>, e) = <<e>>
  OBVIOUS
<1>3. Len(<<e>>) = 1 /\ <<e>>[1] = e /\ 1 .. 1 = {1}
  OBVIOUS
<1>4. Pending(<<e>>) = Under[e.u]
  BY <1>3 DEF Pending
<1>5. Todo(p, "loop", <<e>>, u) = Under[Root[p]]
  BY <1>1, <1>4 DEF Todo
<1>6. Todo(p, "loop", Append(<<>>, e), u) = Under[Root[p]]
  BY <1>2, <1>5
<1>7. QED
  BY <1>6 DEF e

LEMMA TodoPop ==
  ASSUME NEW p \in Kernels, NEW st \in Seq(Entries), st # <<>>, NEW u, NEW e, e = Last(st)
  PROVE  Todo(p, "process", Front(st), e.u) = Todo(p, "loop", st, u)
<1> DEFINE m == Len(st) - 1
           w == Front(st)
<1>1. /\ m \in Nat /\ Len(st) = m + 1 /\ Len(w) = m
      /\ \A i \in 1 .. m : w[i] = st[i]
      /\ e = st[m + 1]
  <2>1. Len(st) \in Nat \ {0}
    BY FrontLast
  <2>2. QED
    BY <2>1, FrontLast
<1> HIDE DEF m, w
<1>2. Pending(w) = UNION {Under[st[i].u] : i \in 1 .. m}
  BY <1>1 DEF Pending
<1>3. Pending(st) = UNION {Under[st[i].u] : i \in 1 .. m + 1}
  BY <1>1 DEF Pending
<1>4. m + 1 \in 1 .. m + 1 /\ \A i \in 1 .. m + 1 : i \in 1 .. m \/ i = m + 1
  BY <1>1
<1>5. \A i \in 1 .. m : i \in 1 .. m + 1
  BY <1>1
<1>6. Pending(st) = Pending(w) \cup Under[e.u]
  <2>1. \A i \in 1 .. m + 1 : Under[st[i].u] \subseteq Pending(w) \cup Under[e.u]
    BY <1>1, <1>2, <1>4
  <2>2. Under[e.u] \subseteq Pending(st)
    BY <1>1, <1>3, <1>4
  <2>3. Pending(w) \subseteq Pending(st)
    BY <1>2, <1>3, <1>5
  <2>4. QED
    BY <1>3, <2>1, <2>2, <2>3
<1>7. QED
  BY <1>6 DEF Todo, w

LEMMA TodoDescend ==
  ASSUME NEW p \in Kernels, NEW st, NEW v, NEW li, NEW o, NEW near, NEW u2,
         Walks(p, "decide", st, v, li, o, near), v.new_k # 0, ~IsLeaf(v.u),
         li \in [Cells -> SUBSET Centres]
  PROVE  Todo(p, "loop", st \o Children(v), u2) = Todo(p, "decide", st, v.u)
<1> DEFINE m == Len(st)
           st2 == st \o Children(v)
<1>1. st \in Seq(Entries) /\ v.u \in Nodes /\ m \in Nat
  BY DEF Walks, StackOK, VisitOK
<1>2. Under[v.u] = Under[Left[v.u]] \cup Under[Right[v.u]]
  BY <1>1, UnderIs
<1> DEFINE a == Entry(Right[v.u], v.out, v.new_k, TRUE)
           b == Entry(Left[v.u], v.out, v.new_k, FALSE)
<1>3. a.u = Right[v.u] /\ b.u = Left[v.u] /\ st2 = st \o <<a, b>>
  BY DEF Entry, Children
<1> HIDE DEF a, b
<1>4. /\ Len(st2) = m + 2 /\ \A i \in 1 .. m : st2[i] = st[i]
      /\ st2[m + 1] = a /\ st2[m + 2] = b
  BY <1>1, <1>3
<1> HIDE DEF m
<1>5. Pending(st) = UNION {Under[st2[i].u] : i \in 1 .. m}
  BY <1>4 DEF Pending, m
<1>6. Pending(st2) = UNION {Under[st2[i].u] : i \in 1 .. m + 2}
  BY <1>4 DEF Pending
<1>7. /\ m + 1 \in 1 .. m + 2 /\ m + 2 \in 1 .. m + 2
      /\ \A i \in 1 .. m + 2 : i \in 1 .. m \/ i = m + 1 \/ i = m + 2
      /\ \A i \in 1 .. m : i \in 1 .. m + 2
  BY <1>1
<1>8. Pending(st2) = Pending(st) \cup Under[v.u]
  <2>1. \A i \in 1 .. m + 2 : Under[st2[i].u] \subseteq Pending(st) \cup Under[v.u]
    BY <1>2, <1>3, <1>4, <1>5, <1>7
  <2>2. Under[v.u] \subseteq Pending(st2)
    <3>1. Under[Right[v.u]] \subseteq Pending(st2)
      BY <1>3, <1>4, <1>6, <1>7
    <3>2. Under[Left[v.u]] \subseteq Pending(st2)
      BY <1>3, <1>4, <1>6, <1>7
    <3>3. QED
      BY <1>2, <3>1, <3>2
  <2>3. Pending(st) \subseteq Pending(st2)
    BY <1>5, <1>6, <1>7
  <2>4. QED
    BY <1>6, <2>1, <2>2, <2>3
<1>9. QED
  BY <1>8 DEF Todo

LEMMA TodoWrite ==
  ASSUME NEW p \in Kernels, NEW st, NEW u, VisitOK(p, st, u), NEW u2
  PROVE  /\ Todo(p, "loop", st, u2) = Todo(p, "write", st, u) \ Under[u]
         /\ Under[u] \subseteq Todo(p, "write", st, u)
<1>1. Pending(st) \cap Under[u] = {}
  BY DEF VisitOK, Pending
<1>2. QED
  BY <1>1 DEF Todo

LEMMA TodoDone ==
  ASSUME NEW p, NEW st, st = <<>>, NEW u
  PROVE  Todo(p, "loop", st, u) = {} /\ Todo(p, "done", st, u) = {}
<1>1. Len(<<>>) = 0 /\ 1 .. 0 = {}
  OBVIOUS
<1>2. Pending(<<>>) = {}
  BY <1>1 DEF Pending
<1>3. QED
  BY <1>2 DEF Todo

(* A record holds a one for each point that was served already and that is *)
(* nearest to its centre, and a kernel that is about to write one holds    *)
(* what is stored.                                                         *)
Unserved(p) == Todo(p, pc[p], stack[p], local[p].u)

Tally(p, q) ==
  \A c \in Centres, x \in Under[Root[q]] :
    centre_buffer[Buffer(p)][c][x] =
      IF Buffer(q) = Buffer(p) /\ x \notin Unserved(q) /\ nearest[x] = c THEN 1 ELSE 0

TallyInv ==
  phase = "run" =>
    \A p, q \in Kernels : Tally(p, q) \/ (build.onchip /\ pc[p] = "call")

RecordInv ==
  \A p \in Kernels :
    pc[p] = "write" => local[p].record = centre_buffer[Buffer(p)][local[p].z]

ClearInv == phase = "copy" /\ ~build.onchip => centre_buffer[NoKernel] = EmptyBuffer

BufferInv == TallyInv /\ RecordInv /\ ClearInv /\ EachPointOnce

(* The records in shared memory are cleared before the loop only.          *)
SharedRecordsUsedOnce == \A b \in Builds : b.onchip \/ b.l <= 1

LEMMA Frame ==
  ASSUME IInv, NEW p \in Kernels, KernelStep(p)
  PROVE  /\ UNCHANGED <<build, iterations, phase, nearest, reduced>>
         /\ \A q \in Kernels \ {p} :
              pc'[q] = pc[q] /\ stack'[q] = stack[q] /\ local'[q] = local[q]
<1> USE DEF Goto
<1>1. /\ pc \in [Kernels -> Stages] /\ stack \in [Kernels -> Seq(Entries)]
      /\ local \in [Kernels -> Visit]
  BY DEF IInv, TypeOK, Stages
<1>2. CASE Call(p)
  BY <1>1, <1>2 DEF Call, top
<1>3. CASE PushRoot(p)
  BY <1>1, <1>3 DEF PushRoot, top
<1>4. CASE Pop(p)
  BY <1>1, <1>4 DEF Pop, top
<1>5. CASE ProcessNode(p)
  BY <1>1, <1>5 DEF ProcessNode, top
<1>6. CASE Stop(p)
  BY <1>1, <1>6 DEF Stop, top
<1>7. CASE Descend(p)
  BY <1>1, <1>7 DEF Descend, top
<1>8. CASE Enter(p)
  BY <1>1, <1>8 DEF Enter, top
<1>9. CASE ReadRecord(p)
  BY <1>1, <1>9 DEF ReadRecord, top
<1>10. CASE WriteRecord(p)
  BY <1>1, <1>10 DEF WriteRecord, top
<1>11. CASE Return(p)
  BY <1>1, <1>11 DEF Return, top
<1>12. QED
  BY <1>2, <1>3, <1>4, <1>5, <1>6, <1>7, <1>8, <1>9, <1>10, <1>11 DEF KernelStep

LEMMA UnservedOfOthers ==
  ASSUME IInv, NEW p \in Kernels, KernelStep(p), NEW q \in Kernels \ {p}
  PROVE  Unserved(q)' = Unserved(q)
BY Frame DEF Unserved

(* Only the write of a record serves points.                               *)
LEMMA UnservedKept ==
  ASSUME IInv, NEW p \in Kernels, KernelStep(p), ~WriteRecord(p)
  PROVE  Unserved(p)' = Unserved(p)
<1>1. /\ pc \in [Kernels -> Stages] /\ stack \in [Kernels -> Seq(Entries)]
      /\ local \in [Kernels -> Visit]
  BY DEF IInv, TypeOK, Stages
<1>2. /\ stack[p] \in Seq(Entries) /\ lists[p] \in [Cells -> SUBSET Centres]
      /\ Walks(p, pc[p], stack[p], local[p], lists[p], owner[p], nearest)
  BY Parts
<1>3. CASE Call(p)
  <2>1. pc[p] = "call" /\ pc'[p] = "alloc"
    BY <1>1, <1>3 DEF Call, Goto
  <2>2. QED
    BY <2>1 DEF Unserved, Todo
<1>4. CASE PushRoot(p)
  <2> DEFINE c == next_free_location[p]
             st == Append(<<>>, Entry(Root[p], c, Cardinality(Centres) - 1, TRUE))
  <2>1. pc[p] = "alloc" /\ pc'[p] = "loop"
    BY <1>1, <1>4 DEF PushRoot, Goto
  <2>2. stack[p] = <<>>
    BY <1>2, <2>1 DEF Walks
  <2>3. stack'[p] = st
    BY <1>1, <1>4, <2>2 DEF PushRoot
  <2>4. Todo(p, "loop", st, local'[p].u) = Under[Root[p]]
    BY TodoPushRoot, Zenon
  <2>5. QED
    BY <2>1, <2>3, <2>4 DEF Unserved, Todo
<1>5. CASE Pop(p)
  <2> DEFINE e == Last(stack[p])
             st == Front(stack[p])
  <2>1. pc[p] = "loop" /\ pc'[p] = "process" /\ stack[p] # <<>> /\ stack'[p] = st
    BY <1>1, <1>5 DEF Pop, Goto
  <2>2. local'[p].u = e.u
    <3> HIDE DEF e
    <3>1. local' = [local EXCEPT ![p].u = e.u, ![p].in = e.c, ![p].k = e.k,
                                 ![p].d = e.d, ![p].out = next_free_location[p]]
      BY <1>5 DEF Pop, e
    <3>2. local[p] \in Visit
      BY <1>1
    <3>3. QED
      BY <1>1, <3>1, <3>2 DEF Visit
  <2>3. Todo(p, "process", st, e.u) = Todo(p, "loop", stack[p], local[p].u)
    BY <1>2, <2>1, TodoPop
  <2>4. QED
    BY <2>1, <2>2, <2>3 DEF Unserved
<1>6. CASE ProcessNode(p)
  <2>1. pc[p] = "process" /\ pc'[p] = "decide" /\ stack'[p] = stack[p]
    BY <1>1, <1>6 DEF ProcessNode, Goto
  <2>2. local'[p].u = local[p].u
    <3>1. PICK z \in Centres, S \in SUBSET Centres :
            local' = [local EXCEPT ![p].z = z, ![p].new_k = Cardinality(S) - 1]
      BY <1>6 DEF ProcessNode
    <3>2. local[p] \in Visit
      BY <1>1
    <3>3. QED
      BY <1>1, <3>1, <3>2 DEF Visit
  <2>3. QED
    BY <2>1, <2>2 DEF Unserved, Todo
<1>7. CASE Stop(p)
  <2>1. pc[p] = "decide" /\ pc'[p] = "enter" /\ stack' = stack /\ local' = local
    BY <1>1, <1>7 DEF Stop, Goto
  <2>2. QED
    BY <2>1 DEF Unserved, Todo
<1>8. CASE Descend(p)
  <2> DEFINE st == stack[p] \o Children(local[p])
  <2>1. /\ pc[p] = "decide" /\ pc'[p] = "loop" /\ stack'[p] = st
        /\ local[p].new_k # 0 /\ ~IsLeaf(local[p].u)
    BY <1>1, <1>8 DEF Descend, Goto, DeadEnd
  <2>2. Todo(p, "loop", st, local'[p].u) = Todo(p, "decide", stack[p], local[p].u)
    <3> DEFINE v == local[p]
    <3>1. Walks(p, "decide", stack[p], v, lists[p], owner[p], nearest)
      BY <1>2, <2>1
    <3>2. v.new_k # 0 /\ ~IsLeaf(v.u)
      BY <2>1
    <3> DEFINE u == local'[p].u
    <3> HIDE DEF v, u
    <3>3. Todo(p, "loop", stack[p] \o Children(v), u) = Todo(p, "decide", stack[p], v.u)
      BY <1>2, <3>1, <3>2, TodoDescend
    <3>4. QED
      BY <3>3 DEF v, u
  <2>3. QED
    BY <2>1, <2>2 DEF Unserved
<1>9. CASE Enter(p)
  <2>1. pc[p] = "enter" /\ pc'[p] = "read" /\ stack' = stack /\ local' = local
    BY <1>1, <1>9 DEF Enter, Goto
  <2>2. QED
    BY <2>1 DEF Unserved, Todo
<1>10. CASE ReadRecord(p)
  <2>1. pc[p] = "read" /\ pc'[p] = "write" /\ stack' = stack
    BY <1>1, <1>10 DEF ReadRecord, Goto
  <2>2. local'[p].u = local[p].u
    <3>1. local[p] \in Visit
      BY <1>1
    <3>2. QED
      BY <1>1, <1>10, <3>1 DEF ReadRecord, Visit
  <2>3. QED
    BY <2>1, <2>2 DEF Unserved, Todo
<1>11. CASE Return(p)
  <2>1. pc[p] = "loop" /\ pc'[p] = "done" /\ stack' = stack /\ local' = local
    BY <1>1, <1>11 DEF Return, Goto
  <2>2. QED
    BY <2>1 DEF Unserved, Todo
<1>12. QED
  BY <1>3, <1>4, <1>5, <1>6, <1>7, <1>8, <1>9, <1>10, <1>11 DEF KernelStep

LEMMA UnservedInside ==
  ASSUME IInv, NEW p \in Kernels, pc[p] = "done"
  PROVE  Unserved(p) = {}
<1>1. stack[p] = <<>>
  BY Parts DEF Walks
<1>2. QED
  BY <1>1, TodoDone DEF Unserved

LEMMA TallyIn ==
  ASSUME BufferInv, phase = "run", NEW p \in Kernels, NEW q \in Kernels,
         ~(build.onchip /\ pc[p] = "call"), NEW c \in Centres, NEW x \in Under[Root[q]]
  PROVE  centre_buffer[Buffer(p)][c][x] =
           IF Buffer(q) = Buffer(p) /\ x \notin Unserved(q) /\ nearest[x] = c THEN 1 ELSE 0
<1>1. Tally(p, q)
  BY DEF BufferInv, TallyInv
<1>2. QED
  BY <1>1 DEF Tally

LEMMA QuietTally ==
  ASSUME IInv, BufferInv, NEW p \in Kernels, KernelStep(p), UNCHANGED centre_buffer,
         ~WriteRecord(p), pc[p] # "call"
  PROVE  BufferInv'
<1>1. /\ UNCHANGED <<build, iterations, phase, nearest, reduced>>
      /\ \A q \in Kernels \ {p} :
           pc'[q] = pc[q] /\ stack'[q] = stack[q] /\ local'[q] = local[q]
  BY Frame
<1>2. phase = "run"
  BY Parts DEF KernelStep, Call, PushRoot, Pop, ProcessNode, Stop, Descend, Enter, ReadRecord,
               WriteRecord, Return, Goto
<1>3. \A q \in Kernels : Unserved(q)' = Unserved(q)
  BY UnservedKept, UnservedOfOthers
<1>4. \A q \in Kernels : Buffer(q)' = Buffer(q)
  BY <1>1 DEF Buffer
<1>5. TallyInv'
  <2> SUFFICES ASSUME NEW r \in Kernels, NEW q \in Kernels,
                      ~(build.onchip /\ pc'[r] = "call")
               PROVE  Tally(r, q)'
    BY <1>1 DEF TallyInv
  <2>1. ~(build.onchip /\ pc[r] = "call")
    BY <1>1
  <2>2. Tally(r, q)
    BY <1>2, <2>1 DEF BufferInv, TallyInv
  <2>3. QED
    BY <1>1, <1>3, <1>4, <2>2 DEF Tally
<1>6. RecordInv'
  <2> SUFFICES ASSUME NEW r \in Kernels, pc'[r] = "write"
               PROVE  local'[r].record = centre_buffer[Buffer(r)][local'[r].z]
    BY <1>4 DEF RecordInv
  <2>1. CASE r # p
    BY <1>1, <2>1 DEF BufferInv, RecordInv
  <2>2. CASE r = p
    <3>1. pc \in [Kernels -> Stages] /\ local \in [Kernels -> Visit]
      BY DEF IInv, TypeOK, Stages
    <3>2. ReadRecord(p)
      BY <2>2, <3>1 DEF KernelStep, Call, PushRoot, Pop, ProcessNode, Stop, Descend, Enter,
                        WriteRecord, Return, Goto
    <3>3. local[p] \in Visit
      BY <3>1
    <3> DEFINE y == centre_buffer[Buffer(p)][local[p].z]
    <3>4. local' = [local EXCEPT ![p].record = y]
      BY <3>2 DEF ReadRecord
    <3> HIDE DEF y
    <3>5. local'[p].record = y /\ local'[p].z = local[p].z
      BY <3>1, <3>3, <3>4 DEF Visit
    <3>6. QED
      BY <2>2, <3>5 DEF y
  <2>3. QED
    BY <2>1, <2>2
<1>7. ClearInv' /\ EachPointOnce'
  BY <1>1, <1>2 DEF ClearInv, EachPointOnce
<1>8. QED
  BY <1>5, <1>6, <1>7 DEF BufferInv

LEMMA CallTally ==
  ASSUME IInv, BufferInv, NEW p \in Kernels, Call(p)
  PROVE  BufferInv'
<1>1. /\ UNCHANGED <<build, iterations, phase, nearest, reduced>>
      /\ \A q \in Kernels \ {p} :
           pc'[q] = pc[q] /\ stack'[q] = stack[q] /\ local'[q] = local[q]
  BY Frame DEF KernelStep
<1>2. /\ phase = "run" /\ pc[p] = "call" /\ pc'[p] = "alloc"
      /\ centre_buffer' = IF build.onchip THEN [centre_buffer EXCEPT ![p] = EmptyBuffer]
                                          ELSE centre_buffer
  <2>1. pc[p] = "call" /\ phase = "run"
    BY Parts DEF Call, Goto
  <2>2. pc \in [Kernels -> Stages]
    BY DEF IInv, TypeOK, Stages
  <2>3. QED
    BY <2>1, <2>2 DEF Call, Goto, ClearBuffer
<1>3. \A q \in Kernels : Unserved(q)' = Unserved(q)
  <2>1. ~WriteRecord(p) /\ KernelStep(p)
    BY <1>2 DEF WriteRecord, Goto, KernelStep
  <2>2. QED
    BY <2>1, UnservedKept, UnservedOfOthers
<1>4. \A q \in Kernels : Buffer(q)' = Buffer(q)
  BY <1>1 DEF Buffer
<1>5. centre_buffer \in [Kernels \cup {NoKernel} -> [Centres -> [Points -> Nat]]]
  BY DEF IInv, TypeOK
<1>6. ASSUME NEW r \in Kernels, r # p \/ ~build.onchip
      PROVE  centre_buffer'[Buffer(r)] = centre_buffer[Buffer(r)]
  BY <1>2, <1>5, <1>6 DEF Buffer
<1>7. TallyInv'
  <2> SUFFICES ASSUME NEW r \in Kernels, NEW q \in Kernels,
                      ~(build.onchip /\ pc'[r] = "call")
               PROVE  Tally(r, q)'
    BY <1>1 DEF TallyInv
  <2>1. CASE r # p \/ ~build.onchip
    <3>1. ~(build.onchip /\ pc[r] = "call")
      BY <1>1, <2>1
    <3>2. Tally(r, q)
      BY <1>2, <3>1 DEF BufferInv, TallyInv
    <3>3. centre_buffer'[Buffer(r)] = centre_buffer[Buffer(r)]
      BY <1>6, <2>1
    <3>4. QED
      BY <1>1, <1>3, <1>4, <3>2, <3>3 DEF Tally
  <2>2. CASE r = p /\ build.onchip
    <3>1. Buffer(p) = p /\ centre_buffer'[p] = EmptyBuffer /\ Buffer(q) = q
      BY <1>2, <1>5, <2>2 DEF Buffer
    <3>2. ASSUME NEW c \in Centres, NEW x \in Under[Root[q]]
          PROVE  /\ centre_buffer'[p][c][x] = 0
                 /\ ~(q = p /\ x \notin Unserved(q) /\ nearest[x] = c)
      <4>1. x \in Points
        BY KernelAssumption, UnderType
      <4>2. centre_buffer'[p][c][x] = 0
        BY <3>1, <4>1 DEF EmptyBuffer, EmptyRecord
      <4>3. Unserved(p) = Under[Root[p]]
        BY <1>2 DEF Unserved, Todo
      <4>4. QED
        BY <4>2, <4>3
    <3>3. \A c \in Centres, x \in Under[Root[q]] :
            centre_buffer'[Buffer(p)'][c][x] =
              IF Buffer(q)' = Buffer(p)' /\ x \notin Unserved(q)' /\ nearest'[x] = c THEN 1 ELSE 0
      BY <1>1, <1>3, <1>4, <3>1, <3>2
    <3>4. QED
      BY <2>2, <3>3 DEF Tally
  <2>3. QED
    BY <2>1, <2>2
<1>8. RecordInv'
  <2> SUFFICES ASSUME NEW r \in Kernels, pc'[r] = "write"
               PROVE  local'[r].record = centre_buffer'[Buffer(r)][local'[r].z]
    BY <1>4 DEF RecordInv
  <2>1. r # p
    BY <1>2
  <2>2. QED
    BY <1>1, <1>6, <2>1 DEF BufferInv, RecordInv
<1>9. ClearInv' /\ EachPointOnce'
  BY <1>1, <1>2 DEF ClearInv, EachPointOnce
<1>10. QED
  BY <1>7, <1>8, <1>9 DEF BufferInv

(* The write of a record adds the points of one node, for the kernel that  *)
(* holds the lock: no other kernel is between its read and its write.      *)
LEMMA WriteTally ==
  ASSUME IInv, BufferInv, NEW p \in Kernels, WriteRecord(p)
  PROVE  BufferInv'
<1> DEFINE z == local[p].z
           served == Under[local[p].u]
           b == Buffer(p)
<1>1. /\ UNCHANGED <<build, iterations, phase, nearest, reduced>>
      /\ \A q \in Kernels \ {p} :
           pc'[q] = pc[q] /\ stack'[q] = stack[q] /\ local'[q] = local[q]
  BY Frame DEF KernelStep
<1>2. pc[p] = "write" /\ pc'[p] = "loop" /\ phase = "run" /\ stack' = stack
  <2>1. pc[p] = "write" /\ phase = "run"
    BY Parts DEF WriteRecord, Goto
  <2>2. pc \in [Kernels -> Stages]
    BY DEF IInv, TypeOK, Stages
  <2>3. QED
    BY <2>1, <2>2 DEF WriteRecord, Goto
<1>3. /\ z \in Centres /\ b \in Kernels \cup {NoKernel}
      /\ centre_buffer \in [Kernels \cup {NoKernel} -> [Centres -> [Points -> Nat]]]
  BY Parts DEF Visit, Buffer, IInv, TypeOK
<1>4. /\ Unserved(p)' = Unserved(p) \ served /\ served \subseteq Unserved(p)
      /\ served \subseteq Under[Root[p]] /\ \A x \in served : nearest[x] = z
  <2> DEFINE u == local[p].u
             u2 == local'[p].u
             st == stack[p]
  <2>1. VisitOK(p, st, u) /\ \A x \in Under[u] : nearest[x] = z
    BY <1>2, Parts DEF Walks
  <2>2. Unserved(p) = Todo(p, "write", st, u)
    BY <1>2 DEF Unserved
  <2>3. Unserved(p)' = Todo(p, "loop", st, u2)
    BY <1>2 DEF Unserved
  <2> HIDE DEF u, u2, st, z
  <2>4. /\ Todo(p, "loop", st, u2) = Todo(p, "write", st, u) \ Under[u]
        /\ Under[u] \subseteq Todo(p, "write", st, u)
    BY <2>1, TodoWrite
  <2>5. Under[u] \subseteq Under[Root[p]]
    BY <2>1 DEF VisitOK
  <2>6. QED
    BY <2>1, <2>2, <2>3, <2>4, <2>5 DEF u
<1>5. \A q \in Kernels \ {p} :
        Unserved(q)' = Unserved(q) /\ served \cap Under[Root[q]] = {}
  <2>1. KernelStep(p)
    BY DEF KernelStep
  <2>2. \A q \in Kernels \ {p} : Under[Root[p]] \cap Under[Root[q]] = {}
    BY TreeAssumption
  <2>3. QED
    BY <1>4, <2>1, <2>2, UnservedOfOthers
<1>6. \A q \in Kernels : Buffer(q)' = Buffer(q)
  BY <1>1 DEF Buffer
<1>7. centre_buffer' = [centre_buffer EXCEPT ![b][z] = Plus(centre_buffer[b][z], served)]
  BY <1>2 DEF WriteRecord, BufferInv, RecordInv
<1> HIDE DEF z, served, b
<1>8. ASSUME NEW a \in Kernels \cup {NoKernel}, NEW c \in Centres, NEW x \in Points
      PROVE  centre_buffer'[a][c][x] =
               centre_buffer[a][c][x] + IF a = b /\ c = z /\ x \in served THEN 1 ELSE 0
  <2>1. centre_buffer[a][c][x] \in Nat
    BY <1>3
  <2>2. CASE a = b /\ c = z
    <3>1. centre_buffer'[a][c] = Plus(centre_buffer[a][c], served)
      BY <1>3, <1>7, <2>2
    <3>2. QED
      BY <2>2, <3>1 DEF Plus
  <2>3. CASE ~(a = b /\ c = z)
    <3>1. centre_buffer'[a][c] = centre_buffer[a][c]
      BY <1>3, <1>7, <2>3
    <3>2. QED
      BY <2>1, <2>3, <3>1
  <2>4. QED
    BY <2>2, <2>3
<1>9. TallyInv'
  <2> SUFFICES ASSUME NEW r \in Kernels, NEW q \in Kernels,
                      ~(build.onchip /\ pc'[r] = "call")
               PROVE  Tally(r, q)'
    BY <1>1 DEF TallyInv
  <2>1. ~(build.onchip /\ pc[r] = "call")
    BY <1>1, <1>2
  <2>2. ASSUME NEW c \in Centres, NEW x \in Under[Root[q]]
        PROVE  centre_buffer'[Buffer(r)][c][x] =
                 IF Buffer(q) = Buffer(r) /\ x \notin Unserved(q)' /\ nearest[x] = c THEN 1 ELSE 0
    <3>1. x \in Points /\ Buffer(r) \in Kernels \cup {NoKernel}
      BY KernelAssumption, UnderType DEF Buffer
    <3>2. centre_buffer[Buffer(r)][c][x] =
            IF Buffer(q) = Buffer(r) /\ x \notin Unserved(q) /\ nearest[x] = c THEN 1 ELSE 0
      BY <1>2, <2>1, TallyIn
    <3> DEFINE a == Buffer(r)
    <3> HIDE DEF a
    <3>3. centre_buffer'[a][c][x] =
            centre_buffer[a][c][x] + IF a = b /\ c = z /\ x \in served THEN 1 ELSE 0
      BY <1>8, <3>1 DEF a
    <3>4. CASE x \in served
      <4>1. q = p
        BY <1>5, <3>4
      <4>2. x \in Unserved(q) /\ x \notin Unserved(q)' /\ nearest[x] = z /\ Buffer(q) = b
        BY <1>4, <3>4, <4>1 DEF b
      <4>3. centre_buffer[a][c][x] = 0
        BY <3>2, <4>2 DEF a
      <4>4. centre_buffer'[a][c][x] = IF a = b /\ c = z THEN 1 ELSE 0
        BY <3>3, <3>4, <4>3
      <4>5. QED
        BY <4>2, <4>4 DEF a
    <3>5. CASE x \notin served
      <4>1. x \in Unserved(q)' <=> x \in Unserved(q)
        BY <1>4, <1>5, <3>5
      <4>2. centre_buffer[a][c][x] \in Nat
        BY <1>3, <3>1 DEF a
      <4>3. centre_buffer'[a][c][x] = centre_buffer[a][c][x]
        BY <3>3, <3>5, <4>2
      <4>4. QED
        BY <3>2, <4>1, <4>3 DEF a
    <3>6. QED
      BY <3>4, <3>5
  <2>3. QED
    BY <1>1, <1>6, <2>2 DEF Tally
<1>10. RecordInv'
  <2> SUFFICES ASSUME NEW r \in Kernels, pc'[r] = "write"
               PROVE  FALSE
    BY DEF RecordInv
  <2>1. r # p /\ pc[r] = "write"
    BY <1>1, <1>2
  <2>2. lock = p /\ lock = r
    BY <1>2, <2>1 DEF IInv, LockInv
  <2>3. QED
    BY <2>1, <2>2
<1>11. ClearInv' /\ EachPointOnce'
  BY <1>1, <1>2 DEF ClearInv, EachPointOnce
<1>12. QED
  BY <1>9, <1>10, <1>11 DEF BufferInv

LEMMA InitTally ==
  ASSUME Init
  PROVE  BufferInv
<1>1. phase = "init" /\ pc = [p \in Kernels |-> "done"]
  BY DEF Init
<1>2. QED
  BY <1>1 DEF BufferInv, TallyInv, RecordInv, ClearInv, EachPointOnce

LEMMA InitCentreBufferTally ==
  ASSUME IInv, BufferInv, InitCentreBuffer
  PROVE  BufferInv'
<1>1. /\ phase = "init" /\ phase' = "copy"
      /\ centre_buffer' = IF build.onchip THEN centre_buffer
                          ELSE [centre_buffer EXCEPT ![NoKernel] = EmptyBuffer]
      /\ UNCHANGED <<build, pc>>
  BY DEF InitCentreBuffer, kernel
<1>2. \A p \in Kernels : pc[p] = "done"
  BY <1>1 DEF IInv, PhaseInv
<1>3. ClearInv'
  BY <1>1 DEF ClearInv, IInv, TypeOK
<1>4. QED
  BY <1>1, <1>2, <1>3 DEF BufferInv, TallyInv, RecordInv, EachPointOnce

(* The kernels clear the records on the chip themselves, when they are     *)
(* called; those in shared memory are still empty.                         *)
LEMMA StartIterationTally ==
  ASSUME SharedRecordsUsedOnce, IInv, BufferInv, StartIteration
  PROVE  BufferInv'
<1>1. /\ phase \in {"copy", "reduced"} /\ phase' = "run" /\ iterations < build.l
      /\ pc' = [p \in Kernels |-> "call"]
      /\ UNCHANGED <<build, centre_buffer, local, stack>>
  BY DEF StartIteration, shared
<1>2. TallyInv'
  <2> SUFFICES ASSUME NEW p \in Kernels, NEW q \in Kernels,
                      ~(build.onchip /\ pc'[p] = "call")
               PROVE  Tally(p, q)'
    BY <1>1 DEF TallyInv
  <2>1. ~build.onchip
    BY <1>1
  <2>2. phase = "copy"
    <3>1. build \in Builds /\ build.l \in Nat /\ iterations \in Nat
      BY BuildFacts DEF IInv, TypeOK
    <3>2. build.l <= 1
      BY <2>1, <3>1 DEF SharedRecordsUsedOnce
    <3>3. iterations = 0
      BY <1>1, <3>1, <3>2
    <3>4. QED
      BY <1>1, <3>3 DEF IInv, PhaseInv
  <2>3. centre_buffer[NoKernel] = EmptyBuffer
    BY <2>1, <2>2 DEF BufferInv, ClearInv
  <2>4. Unserved(q)' = Under[Root[q]]
    BY <1>1 DEF Unserved, Todo
  <2>5. Buffer(p)' = NoKernel
    BY <1>1, <2>1 DEF Buffer
  <2>6. ASSUME NEW c \in Centres, NEW x \in Under[Root[q]]
        PROVE  centre_buffer'[NoKernel][c][x] = 0
    <3>1. x \in Points
      BY KernelAssumption, UnderType
    <3>2. QED
      BY <1>1, <2>3, <3>1 DEF EmptyBuffer, EmptyRecord
  <2>7. QED
    BY <2>4, <2>5, <2>6 DEF Tally
<1>3. RecordInv'
  BY <1>1 DEF RecordInv
<1>4. ClearInv' /\ EachPointOnce'
  BY <1>1 DEF ClearInv, EachPointOnce
<1>5. QED
  BY <1>2, <1>3, <1>4 DEF BufferInv

(* Every point is below the root of one kernel, which has served it.       *)
LEMMA ReduceTally ==
  ASSUME IInv, BufferInv, Reduce
  PROVE  BufferInv'
<1>1. /\ phase = "run" /\ phase' = "reduced" /\ reduced' = Reduction
      /\ \A p \in Kernels : pc[p] = "done"
      /\ UNCHANGED <<build, nearest, centre_buffer, pc, local, stack>>
  BY DEF Reduce, shared, kernel
<1>2. centre_buffer \in [Kernels \cup {NoKernel} -> [Centres -> [Points -> Nat]]]
  BY DEF IInv, TypeOK
<1>3. ASSUME NEW p \in Kernels, NEW q \in Kernels, NEW c \in Centres, NEW x \in Under[Root[q]]
      PROVE  centre_buffer[Buffer(p)][c][x] =
               IF Buffer(q) = Buffer(p) /\ nearest[x] = c THEN 1 ELSE 0
  <2>1. Unserved(q) = {}
    BY <1>1, UnservedInside
  <2>2. QED
    BY <1>1, <2>1, TallyIn
<1>4. ASSUME NEW c \in Centres, NEW x \in Points
      PROVE  Reduction[c][x] = IF nearest[x] = c THEN 1 ELSE 0
  <2>1. PICK q \in Kernels : x \in Under[Root[q]]
    BY TreeAssumption
  <2>2. CASE build.onchip
    <3> DEFINE r == [p \in Kernels |-> centre_buffer[p][c]]
    <3>1. r \in [Kernels -> [Points -> Nat]]
      BY <1>2
    <3>2. \A p \in Kernels : Buffer(p) = p
      BY <2>2 DEF Buffer
    <3>3. \A p \in Kernels : r[p][x] = IF p = q /\ nearest[x] = c THEN 1 ELSE 0
      <4> TAKE p \in Kernels
      <4>1. centre_buffer[Buffer(p)][c][x] =
              IF Buffer(q) = Buffer(p) /\ nearest[x] = c THEN 1 ELSE 0
        BY <1>3, <2>1
      <4>2. Buffer(p) = p /\ Buffer(q) = q /\ r[p] = centre_buffer[p][c]
        BY <3>2
      <4> HIDE DEF r
      <4>3. QED
        BY <4>1, <4>2
    <3>4. Reduction[c] = Sum(r)
      BY <2>2 DEF Reduction
    <3> HIDE DEF r
    <3>5. \A p \in Kernels \ {q} : r[p][x] = 0
      BY <3>3
    <3>6. Sum(r)[x] = r[q][x]
      BY <3>1, <3>5, SumOfOne
    <3>7. QED
      BY <3>3, <3>4, <3>6
  <2>3. CASE ~build.onchip
    <3>1. Buffer(q) = NoKernel /\ Reduction = centre_buffer[NoKernel]
      BY <2>3 DEF Buffer, Reduction
    <3>2. QED
      BY <1>3, <2>1, <3>1
  <2>4. QED
    BY <2>2, <2>3
<1>5. EachPointOnce'
  <2>1. Points' = Points
    BY DEF Points, IsLeaf
  <2>2. QED
    BY <1>1, <1>4, <2>1 DEF EachPointOnce
<1>6. RecordInv'
  BY <1>1 DEF RecordInv
<1>7. TallyInv' /\ ClearInv'
  BY <1>1 DEF TallyInv, ClearInv
<1>8. QED
  BY <1>5, <1>6, <1>7 DEF BufferInv

LEMMA FinishTally ==
  ASSUME IInv, BufferInv, Finish
  PROVE  BufferInv'
<1>1. phase' = "end" /\ UNCHANGED <<build, centre_buffer, pc, local>>
  BY DEF Finish, shared, kernel
<1>2. RecordInv'
  BY <1>1 DEF BufferInv, RecordInv, Buffer
<1>3. QED
  BY <1>1, <1>2 DEF BufferInv, TallyInv, ClearInv, EachPointOnce

LEMMA StutterTally ==
  ASSUME BufferInv, UNCHANGED vars
  PROVE  BufferInv'
<1>1. UNCHANGED <<build, phase, nearest, reduced, centre_buffer, pc, local, stack>>
  BY DEF vars, top, shared
<1>2. TallyInv'
  BY <1>1 DEF BufferInv, TallyInv, Tally, Unserved, Buffer
<1>3. RecordInv'
  BY <1>1 DEF BufferInv, RecordInv, Buffer
<1>4. ClearInv' /\ EachPointOnce'
  BY <1>1 DEF BufferInv, ClearInv, EachPointOnce
<1>5. QED
  BY <1>2, <1>3, <1>4 DEF BufferInv

LEMMA KernelTally ==
  ASSUME IInv, BufferInv, NEW p \in Kernels, KernelStep(p)
  PROVE  BufferInv'
<1>1. CASE Call(p)
  BY <1>1, CallTally
<1>2. CASE WriteRecord(p)
  BY <1>2, WriteTally
<1>3. CASE ~Call(p) /\ ~WriteRecord(p)
  <2>1. UNCHANGED centre_buffer
    BY <1>3 DEF KernelStep, PushRoot, Pop, ProcessNode, Stop, Descend, Enter, ReadRecord, Return,
                shared
  <2>2. pc[p] # "call"
    BY <1>3 DEF KernelStep, PushRoot, Pop, ProcessNode, Stop, Descend, Enter, ReadRecord, Return,
                Goto
  <2>3. QED
    BY <1>3, <2>1, <2>2, QuietTally
<1>4. QED
  BY <1>1, <1>2, <1>3

(* Each point is added exactly once in an iteration, to the record of its  *)
(* nearest centre, however the updates of the kernels interleave.          *)
THEOREM PointsOnce ==
  ASSUME RoomForCalls, SharedRecordsUsedOnce
  PROVE  Spec => []EachPointOnce
<1>1. IInv /\ BufferInv /\ [Next]_vars => BufferInv'
  <2> SUFFICES ASSUME IInv, BufferInv, [Next]_vars PROVE BufferInv'
    OBVIOUS
  <2>1. CASE InitCentreBuffer
    BY <2>1, InitCentreBufferTally
  <2>2. CASE StartIteration
    BY <2>2, StartIterationTally
  <2>3. CASE Reduce
    BY <2>3, ReduceTally
  <2>4. CASE Finish
    BY <2>4, FinishTally
  <2>5. ASSUME NEW p \in Kernels, KernelStep(p)
        PROVE  BufferInv'
    BY <2>5, KernelTally
  <2>6. CASE UNCHANGED vars
    BY <2>6, StutterTally
  <2>7. QED
    BY <2>1, <2>2, <2>3, <2>4, <2>5, <2>6 DEF Next
<1>2. BufferInv => EachPointOnce
  BY DEF BufferInv
<1>3. QED
  BY <1>1, <1>2, InitTally, KernelInvariant, PTL DEF Spec

==============================================================================
