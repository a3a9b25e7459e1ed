------------------------------ MODULE NodeVisit ------------------------------
(***************************************************************************)
(* process_node of the clustering kernel (filtering_algorithm_top.cpp) at  *)
(* the level of its data: along one path down a kd-tree, each node's visit *)
(* looks for the candidate closest to the node (minsearch_loop) and drops  *)
(* the candidates that are too far from all of its box (tooFar_loop); the  *)
(* survivors are the candidates of the children.                           *)
(*                                                                         *)
(* A step is one turn of a loop.  Which child is visited is left open: its *)
(* sibling gets the same list.  FilterKernel has the walk, the lists'      *)
(* memory and the records, and abstracts what is modelled here.            *)
(***************************************************************************)
EXTENDS Centres

CONSTANT Nodes          \* addresses of tree nodes
NULL_PTR == 0

VARIABLES
  tree,                 \* the nodes: box, midpoint, sum of points, children
  centre_positions,     \* positions of centres 0 .. k0
  k0,
  pc, u,                \* stage of the visit, and its node
  centre_set, k,        \* candidates: entries 0 .. k of the list read
  i,                    \* loop index
  tmp_min_dist, tmp_final_idx,          \* minsearch
  new_set, new_k,       \* prune_centre_set: the list written and its last index
  depth                 \* nodes visited so far

search == <<tmp_min_dist, tmp_final_idx>>
prune == <<new_set, new_k>>
visit == <<centre_positions, k0, pc, u, centre_set, k, i, search, prune, depth>>
vars == <<tree, visit>>

Largest == EXT - 1

IsLeaf(n) == tree[n].left = NULL_PTR /\ tree[n].right = NULL_PTR
Children(n) == {tree[n].left, tree[n].right}
InBox(p, n) == \A d \in Dims : tree[n].lo[d] <= p[d] /\ p[d] <= tree[n].hi[d]

(* What the walk needs of a tree: boxes inside their parent's, and a       *)
(* leaf's one point, its wgtCent, in its box.                              *)
NestedBoxes ==
  \A n \in Nodes :
    /\ tree[n].lo \in Point /\ tree[n].hi \in Point /\ tree[n].mid \in Point
    /\ IF IsLeaf(n)
         THEN tree[n].wgtCent \in Point /\ InBox(tree[n].wgtCent, n)
         ELSE \A c \in Children(n) :
                /\ c \in Nodes
                /\ \A d \in Dims : /\ tree[n].lo[d] <= tree[c].lo[d]
                                   /\ tree[c].hi[d] <= tree[n].hi[d]

VisitInit ==
  /\ k0 \in LastIndices
  /\ centre_positions = <<>>
  /\ pc = "idle" /\ u = NULL_PTR
  /\ centre_set = [j \in Indices |-> 0] /\ k = 0 /\ i = 0
  /\ tmp_min_dist = Largest /\ tmp_final_idx = NoIndex
  /\ new_set = [j \in Indices |-> 0] /\ new_k = K - 1
  /\ depth = 0

Init == NestedBoxes /\ VisitInit

------------------------------------------------------------------------------
(* A visit begins: minsearch starts from the largest distance, with no     *)
(* index yet, the survivors from an index one below 0, and a new list.     *)
Visit(n, list, last) ==
  /\ pc' = "minsearch" /\ u' = n
  /\ centre_set' = list /\ k' = last /\ i' = 0
  /\ tmp_min_dist' = Largest /\ tmp_final_idx' = NoIndex
  /\ new_set' = [j \in Indices |-> 0] /\ new_k' = K - 1
  /\ depth' = depth + 1

(* The walk of a subtree starts with every centre as a candidate.          *)
Start(root) ==
  /\ pc = "idle"
  /\ centre_positions' \in [0 .. k0 -> CentrePositions]
  /\ Visit(root, [j \in Indices |-> IF j <= k0 THEN j ELSE 0], k0)
  /\ UNCHANGED <<tree, k0>>

Candidate == centre_set[i]
Position(c) == centre_positions[c]
comp_point == IF IsLeaf(u) THEN tree[u].wgtCent ELSE tree[u].mid

(* A turn of minsearch_loop.                                               *)
Distance(c) == compute_distance(Position(c), comp_point)

MinSearch ==
  /\ pc = "minsearch"
  /\ IF Distance(Candidate) < tmp_min_dist
       THEN tmp_min_dist' = Distance(Candidate) /\ tmp_final_idx' = Candidate
       ELSE UNCHANGED search
  /\ IF i = k THEN pc' = "tooFar" /\ i' = 0 ELSE pc' = pc /\ i' = i + 1
  /\ UNCHANGED <<tree, centre_positions, k0, u, centre_set, k, prune, depth>>

(* A turn of tooFar_loop: a candidate that survives goes to the next place *)
(* of the new list.  z_star is whatever it was if minsearch never wrote it.*)
z_star ==
  IF tmp_final_idx = NoIndex THEN Point ELSE {Position(tmp_final_idx)}

TooFar(c, z) == tooFar_fi(z, Position(c), tree[u].lo, tree[u].hi)

Prune ==
  /\ pc = "tooFar"
  /\ \E z \in z_star :
       IF TooFar(Candidate, z) THEN UNCHANGED prune
       ELSE /\ new_k' = (new_k + 1) % K
            /\ new_set' = [new_set EXCEPT ![(new_k + 1) % K] = Candidate]
  /\ IF i = k THEN pc' = "visited" /\ i' = i ELSE pc' = pc /\ i' = i + 1
  /\ UNCHANGED <<tree, centre_positions, k0, u, centre_set, k, search, depth>>

(* One candidate left, or a leaf: the node's points go to tmp_final_idx.   *)
(* Otherwise the children are visited with the survivors.                  *)
DeadEnd == new_k = 0 \/ IsLeaf(u)

VisitChild ==
  /\ pc = "visited" /\ ~DeadEnd
  /\ \E c \in Children(u) : Visit(c, new_set, new_k)
  /\ UNCHANGED <<tree, centre_positions, k0>>

Walk == MinSearch \/ Prune \/ VisitChild

Next == (\E root \in Nodes : Start(root)) \/ Walk

Spec == Init /\ [][Next]_vars

------------------------------------------------------------------------------
(* minsearch always writes its index, for no distance is the largest       *)
(* number; and the candidate it found survives its own pruning test.  So   *)
(* new_k is left neither at K - 1, the value it starts from, nor above the *)
(* list, which keeps the candidates' order.                                *)
ClosestSurvives ==
  /\ pc \in {"tooFar", "visited"} => tmp_final_idx \in {centre_set[j] : j \in 0 .. k}
  /\ pc = "visited" =>
       /\ new_k <= k
       /\ tmp_final_idx \in {new_set[j] : j \in 0 .. new_k}
       /\ \A j \in 1 .. new_k : new_set[j - 1] < new_set[j]

(* The points a dead end stands for.  A leaf stands for its one point, an  *)
(* inner node for all points below it, which lie in its box.               *)
PointsOf(n) ==
  IF IsLeaf(n) THEN {tree[n].wgtCent}
  ELSE {[d \in Dims |-> <<x, y, z>>[d + 1]] :
           x \in tree[n].lo[0] .. tree[n].hi[0],
           y \in tree[n].lo[1] .. tree[n].hi[1],
           z \in tree[n].lo[2] .. tree[n].hi[2]}

(* A leaf's own pruning test has no say in where its point goes.           *)
Slack ==
  IF IsLeaf(u) THEN (depth - 1) * PruneSlack + SearchSlack ELSE depth * PruneSlack

(* Where the points of a node go is the centre nearest to each of them,    *)
(* but for the bits the arithmetic drops: no centre of all, however long   *)
(* ago it was pruned, is nearer by more than the slack of the visits made. *)
NearestWithinSlack ==
  pc = "visited" /\ DeadEnd =>
    \A p \in PointsOf(u), c \in 0 .. k0 :
      Dist2(p, Position(tmp_final_idx)) <= Dist2(p, Position(c)) + Slack

------------------------------------------------------------------------------
(* The inductive invariant behind both.  Its heart is Kept: for every      *)
(* centre there is one candidate left that is at most the slack of the     *)
(* visits made further from all points of the box.                         *)
Visiting == pc # "idle"
Increasing(list, n) == \A a, b \in 0 .. n - 1 : a < b => list[a] < list[b]

TypeOK ==
  /\ NestedBoxes
  /\ k0 \in Indices
  /\ pc \in {"idle", "minsearch", "tooFar", "visited"}
  /\ new_k \in Indices
  /\ depth \in Nat /\ (Visiting <=> depth > 0)
  /\ Visiting =>
       /\ u \in Nodes
       /\ centre_positions \in [0 .. k0 -> Point]
       /\ centre_set \in [Indices -> 0 .. k0] /\ new_set \in [Indices -> 0 .. k0]
       /\ k \in Indices /\ i \in 0 .. k
       /\ tmp_min_dist \in Int /\ tmp_final_idx \in (0 .. k0) \cup {NoIndex}

(* How many candidates each loop has seen.                                 *)
Searched == IF pc = "minsearch" THEN i ELSE k + 1
Tested == CASE pc = "minsearch" -> 0 [] pc = "tooFar" -> i [] OTHER -> k + 1

SearchInv ==
  Visiting =>
    /\ Searched = 0 => tmp_min_dist = Largest
    /\ Searched > 0 =>
         /\ \E j \in 0 .. Searched - 1 : tmp_final_idx = centre_set[j]
         /\ tmp_min_dist = Distance(tmp_final_idx)
    /\ \A j \in 0 .. Searched - 1 : tmp_min_dist <= Distance(centre_set[j])

ListsSorted == Visiting => Increasing(centre_set, k + 1)

PruneInv ==
  Visiting =>
    \E m \in 0 .. Tested :
      /\ new_k = IF m = 0 THEN K - 1 ELSE m - 1
      /\ Increasing(new_set, m)
      /\ \A s \in 0 .. m - 1 : \E j \in 0 .. Tested - 1 : new_set[s] = centre_set[j]
      /\ \A j \in 0 .. Tested - 1 :
           \/ TooFar(centre_set[j], Position(tmp_final_idx))
           \/ \E s \in 0 .. m - 1 : new_set[s] = centre_set[j]

KeptBy(list, last, n, slack) ==
  \A c \in 0 .. k0 : \E j \in 0 .. last : \A p \in Point :
    InBox(p, n) => Dist2(p, Position(list[j])) <= Dist2(p, Position(c)) + slack

Kept == Visiting => KeptBy(centre_set, k, u, (depth - 1) * PruneSlack)

IInv == TypeOK /\ SearchInv /\ ListsSorted /\ PruneInv /\ Kept

==============================================================================
