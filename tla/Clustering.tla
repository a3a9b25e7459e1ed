------------------------------ MODULE Clustering ------------------------------
(***************************************************************************)
(* The data path from the points to their centres: the trees are built,    *)
(* one of the kernels loads its tree from the image, and a walk down that  *)
(* tree narrows the candidates until a centre is chosen.                   *)
(***************************************************************************)
EXTENDS NodeVisit, KdTree

VARIABLE kernel         \* the kernel that runs, none before; tree is its memory

(* The nodes the walk may meet are what a kernel's memory can hold.        *)
ASSUME NodesAreAddresses == Nodes = Addresses

NoKernel == -1
clusteringVars == <<building, kernel, tree, visit>>

ClusteringInit ==
  /\ BuildInit
  /\ kernel = NoKernel
  /\ tree = [a \in Addresses |-> Blank]
  /\ VisitInit

Build ==
  /\ BuildNext
  /\ UNCHANGED <<kernel, tree, visit>>

Load(q) ==
  /\ Built /\ kernel = NoKernel
  /\ kernel' = q
  /\ tree' = init_tree_node_memory(q)
  /\ UNCHANGED <<building, visit>>

(* Every part's root is node 1 of its kernel's memory.                     *)
Cluster ==
  /\ kernel # NoKernel
  /\ Start(1) \/ Walk
  /\ UNCHANGED <<building, kernel>>

ClusteringNext ==
  \/ Build
  \/ \E q \in Parts : Load(q)
  \/ Cluster

ClusteringSpec == ClusteringInit /\ [][ClusteringNext]_clusteringVars

------------------------------------------------------------------------------
(* Every data point is the point of exactly one leaf, over all the trees   *)
(* as the kernels get them in their memories: no point is lost or doubled  *)
(* by the splits, by points that lie on a plane or equal each other, or on *)
(* the way through the image.                                              *)
EachPointInOneLeaf ==
  Built /\ kernel = NoKernel =>
    LET memories == Memories
    IN  \A x \in DOMAIN points :
          Cardinality({n \in Parts \X Addresses :
                         LET node == memories[n[1]][n[2]]
                         IN  node.count = 1 /\ Leaf(node) /\ idx[node.idx] = x}) = 1

(* A node's points lie in its box, as the kernel's pruning test takes for  *)
(* granted, its wgtCent is their sum and its count their number, and its   *)
(* children share them out: update_sums has gone through the whole tree,   *)
(* and later splits have moved no point out of a cell.                     *)
NodesDescribePoints ==
  Built /\ kernel = NoKernel =>
    LET memories == Memories
    IN  \A q \in Parts : \A a \in InTree(memories[q]) :
          LET n == memories[q][a]
          IN  /\ DescribesPoints(n)
              /\ ~Leaf(n) => SharedOut(n, memories[q][n.left], memories[q][n.right])

(* What the proofs about the walk assume of a tree holds of what a kernel  *)
(* has loaded.                                                             *)
LoadedTreeNested == kernel # NoKernel /\ pc = "idle" => NestedBoxes

------------------------------------------------------------------------------
(* What the proofs assume of the data.  No part of a single point is split *)
(* again: it would become a sub-tree of no points, for which               *)
(* recursive_split counts -1 nodes.  With one or two parts this is a       *)
(* theorem.                                                                *)
EnoughPoints == \A j \in DOMAIN calls : calls[j].p < P => calls[j].n >= 2

(* No sum of N coordinates leaves the wide type, as update_sums takes for  *)
(* granted: up to 65536 points of the source's 262144 can have any 16-bit  *)
(* coordinates.                                                            *)
SumsFit == N * COORD <= EXT

==============================================================================
