-------------------------------- MODULE KdTree --------------------------------
(***************************************************************************)
(* The kd-trees the kernel works on (build_kdTree.cpp, and recursive_split *)
(* of filtering_algorithm_tb.cpp): the data points are split P ways, and   *)
(* for each part a tree is built in the heap, its nodes are given their    *)
(* sums, and it is read out into one image for all parts.                  *)
(*                                                                         *)
(* A step is one call of recursive_split or one turn of the loop of a      *)
(* traversal.  An array is a function from its indices, a box the pair of  *)
(* its corners.                                                            *)
(***************************************************************************)
EXTENDS Data, Sequences, SequencesExt, FiniteSets, FiniteSetsExt

NoNode == 0

VARIABLES
  points, idx,          \* the data, and the order it has been put into
  stage,                \* which function runs
  calls,                \* calls of recursive_split still to make, next one last
  part, ofs,            \* sub-trees built so far, image entries written for them
  heap, node_addr,      \* tree nodes, next free address
  size,                 \* points of the sub-tree in the heap
  stack, prev,          \* traversal
  counter, image        \* entries written, and the image

building == <<points, idx, stage, calls, part, ofs, heap, node_addr, size,
              stack, prev, counter, image>>
nodes == <<heap, node_addr, size>>

Call(p, index, n, lo, hi) == [p |-> p, index |-> index, n |-> n, lo |-> lo, hi |-> hi]

(* setup_tree_node leaves the sums to update_sums.  The middle of a cell   *)
(* is rounded towards zero.                                                *)
setup_tree_node(index, n, lo, hi) ==
  [idx |-> index, count |-> n, lo |-> lo, hi |-> hi,
   mid |-> [d \in Dims |-> Wrap(Quotient(lo[d] + hi[d], 2), COORD)],
   wgtCent |-> Origin, sum_sq |-> 0, left |-> NoNode, right |-> NoNode]
Blank == setup_tree_node(0, 0, Origin, Origin)

Coordinates(ix, index, n, d) == {points[ix[index + j]][d] : j \in 0 .. n - 1}

BuildInit ==
  /\ points \in [0 .. N - 1 -> DataPoints]
  /\ idx = [j \in 0 .. N - 1 |-> j]
  /\ stage = "split"
  /\ calls = <<Call(1, 0, N, [d \in Dims |-> Min(Coordinates(idx, 0, N, d))],
                             [d \in Dims |-> Max(Coordinates(idx, 0, N, d))])>>
  /\ part = 0 /\ ofs = 0
  /\ heap = [a \in {NoNode} \cup Addresses |-> Blank] /\ node_addr = 1 /\ size = 0
  /\ stack = <<>> /\ prev = NoNode
  /\ counter = 0 /\ image = [i \in {} |-> 0]

------------------------------------------------------------------------------
(* Wirth's partition of places first .. n - 1: the points of `low' move    *)
(* before the others, by exchanges from both ends; br is where they end.   *)
Exchange(ix, a, b) == [ix EXCEPT ![a] = ix[b], ![b] = ix[a]]

Partition(ix, index, n, first, low) ==
  LET swaps[s \in [DOMAIN ix -> DOMAIN ix] \X (first .. n) \X (first - 1 .. n - 1)] ==
        LET nl == Min({j \in s[2] .. n : j = n \/ s[1][index + j] \notin low})
            nr == Max({j \in first - 1 .. s[3] : j = first - 1 \/ s[1][index + j] \in low})
        IN  IF nl > nr THEN [idx |-> s[1], br |-> nl]
            ELSE swaps[<<Exchange(s[1], index + nl, index + nr), nl + 1, nr - 1>>]
  IN  swaps[<<ix, first, n - 1>>]

(* split_bounding_box: across the longest edge of the box, whose length is *)
(* kept in a coordinate, at the middle or at the nearest point to it.  The *)
(* sub-tree with the points below gets n_lo points, half of them if the    *)
(* points on the plane allow it.  The slip ignores those points.           *)
Longest(lo, hi) ==
  LET edge(d) == Wrap(hi[d] - lo[d], COORD)
  IN  Min({d \in Dims : \A e \in Dims : edge(e) <= edge(d)})

LowerHalf(n, br1, br2, ideal, min, max) == n \div 2
LowerPartSize(n, br1, br2, ideal, min, max) ==
  CASE ideal < min -> 1
    [] ideal > max -> n - 1
    [] OTHER -> IF br1 > n \div 2 THEN br1
                ELSE IF br2 < n \div 2 THEN br2 ELSE n \div 2

split_bounding_box(index, n, lo, hi) ==
  LET dim == Longest(lo, hi)
      ideal == Wrap(Quotient(hi[dim] + lo[dim], 2), COORD)
      min == Min(Coordinates(idx, index, n, dim))
      max == Max(Coordinates(idx, index, n, dim))
      cval == IF ideal < min THEN min ELSE IF ideal > max THEN max ELSE ideal
      below == {x \in DOMAIN points : points[x][dim] < cval}
      upto == {x \in DOMAIN points : points[x][dim] <= cval}
      one == Partition(idx, index, n, 0, below)
      two == Partition(one.idx, index, n, one.br, upto)
  IN  [idx |-> two.idx, cdim |-> dim, cval |-> cval,
       n_lo |-> LowerPartSize(n, one.br, two.br, ideal, min, max)]

(* The two cells: the plane is the upper face of one, the lower of the     *)
(* other.                                                                  *)
LowerCell(hi, s) == [hi EXCEPT ![s.cdim] = s.cval]
UpperCell(lo, s) == [lo EXCEPT ![s.cdim] = s.cval]

------------------------------------------------------------------------------
(* recursive_split: split on until there are P parts, lower part first.    *)
RecursiveSplit ==
  /\ stage = "split" /\ calls # <<>>
  /\ Last(calls).p < P
  /\ LET c == Last(calls)
         s == split_bounding_box(c.index, c.n, c.lo, c.hi)
     IN  /\ idx' = s.idx
         /\ calls' = Front(calls) \o
              <<Call(2 * c.p, c.index + s.n_lo, c.n - s.n_lo, UpperCell(c.lo, s), c.hi),
                Call(2 * c.p, c.index, s.n_lo, c.lo, LowerCell(c.hi, s))>>
  /\ UNCHANGED <<points, stage, part, ofs, nodes, stack, prev, counter, image>>

(* buildkdTree begins with the root, at address 1 for every part.          *)
BeginTree ==
  /\ stage = "split" /\ calls # <<>>
  /\ Last(calls).p = P
  /\ LET c == Last(calls)
     IN  /\ heap' = [heap EXCEPT ![1] = setup_tree_node(c.index, c.n, c.lo, c.hi)]
         /\ size' = c.n
  /\ calls' = Front(calls)
  /\ node_addr' = 2 /\ stack' = <<1>> /\ stage' = "build"
  /\ UNCHANGED <<points, idx, part, ofs, prev, counter, image>>

(* A node of more than one point is given two children, which are pushed.  *)
BuildNode ==
  /\ stage = "build" /\ stack # <<>>
  /\ LET u == Last(stack)
         n == heap[u]
     IN  IF n.count > 1
         THEN LET s == split_bounding_box(n.idx, n.count, n.lo, n.hi)
                  left == node_addr
                  right == node_addr + 1
              IN  /\ idx' = s.idx
                  /\ heap' = [heap EXCEPT
                       ![u].left = left, ![u].right = right,
                       ![left] = setup_tree_node(n.idx, s.n_lo, n.lo, LowerCell(n.hi, s)),
                       ![right] = setup_tree_node(n.idx + s.n_lo, n.count - s.n_lo,
                                                  UpperCell(n.lo, s), n.hi)]
                  /\ node_addr' = node_addr + 2
                  /\ stack' = Front(stack) \o <<right, left>>
         ELSE stack' = Front(stack) /\ UNCHANGED <<idx, heap, node_addr>>
  /\ UNCHANGED <<points, stage, calls, part, ofs, size, prev, counter, image>>

(* One traversal ends, the next starts at the root.                        *)
NextTraversal ==
  /\ stack = <<>>
  /\ \/ stage = "build" /\ stage' = "sums"
     \/ stage = "sums" /\ stage' = "scale"
     \/ stage = "scale" /\ stage' = "readout"
  /\ stack' = <<1>> /\ prev' = NoNode
  /\ counter' = ofs
  /\ UNCHANGED <<points, idx, calls, part, ofs, nodes, image>>

(* dot_product_tb reads a vector of wide items as one of short items: it   *)
(* finds the halves of the first coordinate and the low half of the second.*)
dot_product_tb(p) == Ext(Square(p[0]) + (IF p[0] < 0 THEN 1 ELSE 0) + Square(p[1]))

(* update_sums, in post-order.  Where the traversal comes from tells what  *)
(* to do: down into the left child, over to the right one, or up.  (The    *)
(* slip goes up from the left child.)                                      *)
FromAbove(u) == prev = NoNode \/ heap[prev].left = u \/ heap[prev].right = u
FromLeftNever(u) == FALSE
FromLeft(u) == ~FromAbove(u) /\ heap[u].left = prev
Push(u) == stack' = IF u = NoNode THEN stack ELSE Append(stack, u)

Sums(u) ==
  LET l == heap[heap[u].left]
      r == heap[heap[u].right]
      x == points[idx[heap[u].idx]]
  IN  IF heap[u].left = NoNode /\ heap[u].right = NoNode
        THEN [wgtCent |-> x, sum_sq |-> dot_product_tb(x)]
        ELSE [wgtCent |-> [d \in Dims |-> Ext(l.wgtCent[d] + r.wgtCent[d])],
              sum_sq |-> Ext(l.sum_sq + r.sum_sq)]

UpdateSums ==
  /\ stage = "sums" /\ stack # <<>>
  /\ LET u == Last(stack)
     IN  /\ \/ /\ FromAbove(u)
               /\ Push(IF heap[u].left # NoNode THEN heap[u].left ELSE heap[u].right)
               /\ UNCHANGED heap
            \/ FromLeft(u) /\ Push(heap[u].right) /\ UNCHANGED heap
            \/ /\ ~FromAbove(u) /\ ~FromLeft(u)
               /\ stack' = Front(stack)
               /\ heap' = [heap EXCEPT ![u].wgtCent = Sums(u).wgtCent,
                                       ![u].sum_sq = Sums(u).sum_sq]
         /\ prev' = u
  /\ UNCHANGED <<points, idx, stage, calls, part, ofs, node_addr, size, counter, image>>

(* The pre-order traversals: the right child is pushed first.              *)
PopAndPushChildren ==
  LET n == heap[Last(stack)]
  IN  stack' = Front(stack) \o
                 IF n.left # NoNode \/ n.right # NoNode THEN <<n.right, n.left>> ELSE <<>>

ScaleSums ==
  /\ stage = "scale" /\ stack # <<>>
  /\ PopAndPushChildren
  /\ heap' = [heap EXCEPT ![Last(stack)].sum_sq = Shift(@)]
  /\ UNCHANGED <<points, idx, stage, calls, part, ofs, node_addr, size, prev,
                 counter, image>>

(* The address in the image has the number of the part in its high bits.   *)
ReadoutNode ==
  /\ stage = "readout" /\ stack # <<>>
  /\ PopAndPushChildren
  /\ image' = [i \in DOMAIN image \cup {counter} |->
                 IF i = counter THEN [part |-> part, addr |-> Last(stack),
                                      node |-> heap[Last(stack)]]
                                ELSE image[i]]
  /\ counter' = counter + 1
  /\ UNCHANGED <<points, idx, stage, calls, part, ofs, nodes, prev>>

(* A tree of n leaves has 2 * n - 1 nodes (the slip counts one more).      *)
TreeSizeMore(n) == 2 * n
TreeSize(n) == 2 * n - 1

EndTree ==
  /\ stage = "readout" /\ stack = <<>>
  /\ stage' = "split"
  /\ part' = part + 1
  /\ ofs' = ofs + TreeSize(size)
  /\ UNCHANGED <<points, idx, calls, nodes, stack, prev, counter, image>>

BuildNext ==
  \/ RecursiveSplit \/ BeginTree \/ BuildNode \/ NextTraversal
  \/ UpdateSums \/ ScaleSums \/ ReadoutNode \/ EndTree

Built == stage = "split" /\ calls = <<>>

(* init_tree_node_memory writes image entries 0 .. n to the memory of the  *)
(* kernel their address names; the test bench passes n for a tree of       *)
(* 2 * N - P nodes.                                                        *)
LastImageEntry == 2 * N - 1 - 1 - (P - 1)
init_tree_node_memory(q) ==
  [a \in Addresses |->
     LET at == {i \in DOMAIN image : /\ i <= LastImageEntry
                                     /\ image[i].part = q /\ image[i].addr = a}
     IN  IF at = {} THEN Blank ELSE image[Max(at)].node]

------------------------------------------------------------------------------
Memories == [q \in Parts |-> init_tree_node_memory(q)]
InTree(memory) == {a \in Addresses : memory[a].count > 0}
Leaf(n) == n.left = NoNode /\ n.right = NoNode
Places(n) == n.idx .. n.idx + n.count - 1

(* n's box holds its points, and its sums are theirs; its children share   *)
(* them out.                                                               *)
DescribesPoints(n) ==
  /\ \A j \in Places(n), d \in Dims :
       n.lo[d] <= points[idx[j]][d] /\ points[idx[j]][d] <= n.hi[d]
  /\ \A d \in Dims :
       n.wgtCent[d] = MapThenSumSet(LAMBDA j : points[idx[j]][d], Places(n))

SharedOut(n, left, right) ==
  /\ left.count > 0 /\ right.count > 0
  /\ left.idx = n.idx
  /\ right.idx = n.idx + left.count
  /\ left.count + right.count = n.count

==============================================================================
