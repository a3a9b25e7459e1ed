----------------------------- MODULE FilterKernel -----------------------------
(***************************************************************************)
(* The clustering kernel (filtering_algorithm_top.cpp): P instances of     *)
(* `filter' walk their kd-subtrees in parallel, each with a stack and a    *)
(* heap of candidate lists of its own, and add the points of every node    *)
(* they stop at to the record of one centre in a buffer they share.        *)
(*                                                                         *)
(* Data.  A tree node stands for the set of points (leaves) below it, a    *)
(* centre record for how often each point was added to it, and an          *)
(* iteration's centre positions for the nearest centre of each point.  A   *)
(* list of candidates, whose entries are always ascending, is their set.   *)
(* minsearch and tooFar_fi are abstracted to what the walk relies on: a    *)
(* node keeps its own closest candidate and every candidate that is        *)
(* nearest to one of its points.                                           *)
(*                                                                         *)
(* A build is what the preprocessor and the host decide: the centre buffer *)
(* inside the kernel or in shared memory (CENTRE_BUFFER_ONCHIP), and l,    *)
(* the number of outer iterations.  Kernels (of FreeLists) are the         *)
(* instances filter<0> .. filter<P-1>.                                     *)
(***************************************************************************)
EXTENDS FreeLists, Sequences, SequencesExt, FiniteSets, FiniteSetsExt

CONSTANTS
  Nodes,                \* kd-tree nodes of all subtrees
  Left, Right,          \* children of a node, NULL_PTR for none
  Root,                 \* root[p]: root of kernel p's subtree
  Centres,              \* centre indices, 0 .. k in the source
  Builds                \* set of [onchip : BOOLEAN, l : Nat]

NoKernel == 0

ASSUME KernelAssumption ==
  /\ NoKernel \notin Kernels
  /\ 0 \notin Nodes
  /\ Left \in [Nodes -> Nodes \cup {0}]
  /\ Right \in [Nodes -> Nodes \cup {0}]
  /\ Root \in [Kernels -> Nodes]
  /\ IsFiniteSet(Nodes) /\ IsFiniteSet(Kernels)
  /\ Centres # {} /\ Centres \subseteq Nat /\ IsFiniteSet(Centres)
  /\ Builds \subseteq [onchip : BOOLEAN, l : Nat]

VARIABLES
  build, iterations, phase,       \* top level: configuration, loop counter, stage
  nearest,                        \* nearest[x]: closest centre of point x this iteration
  pc, local,                      \* per kernel: control and the variables of one visit
  stack, lists,                   \* per kernel: traversal stack and heap of lists
  lock,                           \* holder of the critical region
  centre_buffer,                  \* shared records (kernel NoKernel) and on-chip ones
  reduced                         \* filt_centres_out_reduced

top == <<build, iterations, phase, nearest, reduced>>
shared == <<lock, centre_buffer>>
vars == <<top, heap, shared, pc, local, stack, lists>>

IsLeaf(u) == Left[u] = NULL_PTR /\ Right[u] = NULL_PTR
Points == {u \in Nodes : IsLeaf(u)}

(* The points a node's wgtCent, count and sum_sq sum up, and its height.   *)
Under[u \in Nodes] ==
  IF IsLeaf(u) THEN {u} ELSE Under[Left[u]] \cup Under[Right[u]]
Height[u \in Nodes] ==
  IF IsLeaf(u) THEN 0 ELSE 1 + Max({Height[Left[u]], Height[Right[u]]})

(* What build_kdTree makes: an inner node has two children, no path leads  *)
(* back to a node, and each point is below one root and below one child.   *)
ASSUME TreeAssumption ==
  /\ \A u \in Nodes : Left[u] = NULL_PTR <=> Right[u] = NULL_PTR
  /\ \A S \in SUBSET Nodes :
       S # {} => \E u \in S : Left[u] \notin S /\ Right[u] \notin S
  /\ \A u \in Nodes : IsLeaf(u) \/ Under[Left[u]] \cap Under[Right[u]] = {}
  /\ \A p, q \in Kernels : p = q \/ Under[Root[p]] \cap Under[Root[q]] = {}
  /\ UNION {Under[Root[p]] : p \in Kernels} = Points

(* A centre record: how often each point has been added to it.             *)
EmptyRecord == [x \in Points |-> 0]
EmptyBuffer == [c \in Centres |-> EmptyRecord]
Plus(record, xs) == [x \in Points |-> record[x] + IF x \in xs THEN 1 ELSE 0]

Visit == [u : Nodes \cup {NULL_PTR}, in : Nat, out : Nat, k : Int, d : BOOLEAN,
          z : Centres, new_k : Int, record : [Points -> Nat]]
NoVisit == [u |-> NULL_PTR, in |-> 0, out |-> 0, k |-> 0, d |-> FALSE,
            z |-> CHOOSE c \in Centres : TRUE, new_k |-> 0, record |-> EmptyRecord]
Entry(u, c, k, d) == [u |-> u, c |-> c, k |-> k, d |-> d]
Entries == [u : Nodes, c : Cells, k : 0 .. Cardinality(Centres) - 1, d : BOOLEAN]

TypeOK ==
  /\ build \in Builds /\ iterations \in 0 .. build.l
  /\ phase \in {"init", "copy", "run", "reduced", "end"}
  /\ nearest \in [Points -> Centres]
  /\ pc \in [Kernels -> {"call", "alloc", "loop", "process", "decide",
                         "enter", "read", "write", "done"}]
  /\ local \in [Kernels -> Visit]
  /\ stack \in [Kernels -> Seq(Entries)]
  /\ lists \in [Kernels -> [Cells -> SUBSET Centres]]
  /\ HeapTypeOK
  /\ lock \in Kernels \cup {NoKernel}
  /\ centre_buffer \in [Kernels \cup {NoKernel} -> [Centres -> [Points -> Nat]]]
  /\ reduced \in [Centres -> [Points -> Nat]]

------------------------------------------------------------------------------
(* Memory is what the build finds: free lists as their initialisation      *)
(* files left them, shared records empty or left over from an earlier run. *)
Init ==
  /\ build \in Builds
  /\ iterations = 0 /\ phase = "init"
  /\ nearest = [x \in Points |-> NoVisit.z]
  /\ pc = [p \in Kernels |-> "done"]
  /\ local = [p \in Kernels |-> NoVisit]
  /\ stack = [p \in Kernels |-> <<>>]
  /\ lists = [p \in Kernels |-> [c \in Cells |-> {}]]
  /\ HeapInit
  /\ lock = NoKernel
  /\ \E old \in {{}, Points} :
       centre_buffer = [p \in Kernels \cup {NoKernel} |->
                          [c \in Centres |-> Plus(EmptyRecord, old)]]
  /\ reduced = EmptyBuffer

Goto(p, from, to) == pc[p] = from /\ pc' = [pc EXCEPT ![p] = to]

(* filter: the head of the free list goes back to cell 1, the stack is     *)
(* empty, and an on-chip centre buffer is cleared (the slip forgets to).   *)
ClearNothing(p) == centre_buffer
ClearBuffer(p) ==
  IF build.onchip THEN [centre_buffer EXCEPT ![p] = EmptyBuffer] ELSE centre_buffer

Call(p) ==
  /\ Goto(p, "call", "alloc")
  /\ next_free_location' = [next_free_location EXCEPT ![p] = 1]
  /\ stack' = [stack EXCEPT ![p] = <<>>]
  /\ centre_buffer' = ClearBuffer(p)
  /\ UNCHANGED <<top, flist, owner, lock, local, lists>>

(* The first list holds every centre; it is pushed with the subtree root,  *)
(* to be deleted by the visit that pops it.                                *)
PushRoot(p) ==
  LET c == next_free_location[p]
  IN  /\ Goto(p, "alloc", "loop")
      /\ Malloc(p)
      /\ lists' = [lists EXCEPT ![p][c] = Centres]
      /\ stack' = [stack EXCEPT ![p] =
                     Append(@, Entry(Root[p], c, Cardinality(Centres) - 1, TRUE))]
      /\ UNCHANGED <<top, shared, local>>

(* One turn of tree_search_loop: pop, fetch the node, allocate the list    *)
(* for the surviving candidates.                                           *)
Pop(p) ==
  /\ Goto(p, "loop", "process")
  /\ stack[p] # <<>>
  /\ stack' = [stack EXCEPT ![p] = Front(@)]
  /\ LET e == Last(stack[p])
     IN  local' = [local EXCEPT ![p].u = e.u, ![p].in = e.c, ![p].k = e.k,
                                ![p].d = e.d, ![p].out = next_free_location[p]]
  /\ Malloc(p)
  /\ UNCHANGED <<top, shared, lists>>

(* The candidates of a visit: entries 0 .. k of the list it popped.        *)
Candidates(p) ==
  LET row == lists[p][local[p].in]
  IN  {c \in row : Cardinality({b \in row : b < c}) <= local[p].k}

(* minsearch: a leaf's closest candidate is the centre nearest to it when  *)
(* that centre is a candidate; an inner node's is the one closest to the   *)
(* midpoint of its box, which may be any.                                  *)
Closest(p, z) ==
  /\ z \in Candidates(p)
  /\ IsLeaf(local[p].u) /\ nearest[local[p].u] \in Candidates(p)
       => z = nearest[local[p].u]

(* prune_centre_set: the closest candidate always survives, and so does    *)
(* every candidate that is nearest to a point of the node.  The slip drops *)
(* the first half: new_k, which counts from 255 up, may then stay there.   *)
SurvivesTooFar(p, z, S) ==
  /\ z \in Centres /\ S \subseteq Candidates(p)

Survives(p, z, S) ==
  /\ z \in S /\ S \subseteq Candidates(p)
  /\ \A x \in Under[local[p].u] :
       nearest[x] \in Candidates(p) => nearest[x] \in S

(* A list that both children of a node have read is deleted.  The slip     *)
(* tests the flag the wrong way round.                                     *)
FirstReader(p) == ~local[p].d
LastReader(p) == local[p].d

ProcessNode(p) ==
  /\ Goto(p, "process", "decide")
  /\ \E z \in Centres, S \in SUBSET Centres :
        /\ Closest(p, z) /\ Survives(p, z, S)
        /\ lists' = [lists EXCEPT ![p][local[p].out] = S]
        /\ local' = [local EXCEPT ![p].z = z, ![p].new_k = Cardinality(S) - 1]
  /\ IF LastReader(p) THEN Free(p, local[p].in) ELSE UNCHANGED heap
  /\ UNCHANGED <<top, shared, stack>>

DeadEnd(p) == local[p].new_k = 0 \/ IsLeaf(local[p].u)

(* A dead end: the list of survivors is deleted and the node's points go   *)
(* to its closest candidate.  The slip deletes it only above the leaves.   *)
DropSurvivorsAboveLeaves(p) ==
  IF IsLeaf(local[p].u) THEN UNCHANGED heap ELSE Free(p, local[p].out)
DropSurvivors(p) == Free(p, local[p].out)

Stop(p) ==
  /\ Goto(p, "decide", "enter")
  /\ DeadEnd(p)
  /\ DropSurvivors(p)
  /\ UNCHANGED <<top, shared, local, stack, lists>>

(* Otherwise both children are pushed with the list of survivors; the left *)
(* child, pushed last, is visited first, and the right one deletes it.     *)
(* Slips: the flags exchanged; both children told to delete the list, or   *)
(* neither.                                                                *)
ChildrenFlagsSwapped(v) ==
  <<Entry(Right[v.u], v.out, v.new_k, FALSE), Entry(Left[v.u], v.out, v.new_k, TRUE)>>
ChildrenBothDelete(v) ==
  <<Entry(Right[v.u], v.out, v.new_k, TRUE), Entry(Left[v.u], v.out, v.new_k, TRUE)>>
ChildrenKeepList(v) ==
  <<Entry(Right[v.u], v.out, v.new_k, FALSE), Entry(Left[v.u], v.out, v.new_k, FALSE)>>
Children(v) ==
  <<Entry(Right[v.u], v.out, v.new_k, TRUE), Entry(Left[v.u], v.out, v.new_k, FALSE)>>

Descend(p) ==
  /\ Goto(p, "decide", "loop")
  /\ ~DeadEnd(p)
  /\ stack' = [stack EXCEPT ![p] = @ \o Children(local[p])]
  /\ local' = [local EXCEPT ![p] = NoVisit]
  /\ UNCHANGED <<top, heap, shared, lists>>

(* update_function: in the critical region, read the record, add the node, *)
(* write the record back.  Entering blocks until the region is free.       *)
Buffer(p) == IF build.onchip THEN p ELSE NoKernel

AcquireAnyway(p) == lock' = p
Acquire(p) == lock = NoKernel /\ lock' = p
KeepLock == UNCHANGED lock
Release == lock' = NoKernel

Enter(p) ==
  /\ Goto(p, "enter", "read")
  /\ Acquire(p)
  /\ UNCHANGED <<top, heap, centre_buffer, local, stack, lists>>

ReadRecord(p) ==
  /\ Goto(p, "read", "write")
  /\ local' = [local EXCEPT ![p].record = centre_buffer[Buffer(p)][local[p].z]]
  /\ UNCHANGED <<top, heap, shared, stack, lists>>

WriteRecord(p) ==
  /\ Goto(p, "write", "loop")
  /\ centre_buffer' = [centre_buffer EXCEPT ![Buffer(p)][local[p].z] =
                         Plus(local[p].record, Under[local[p].u])]
  /\ Release
  /\ local' = [local EXCEPT ![p] = NoVisit]
  /\ UNCHANGED <<top, heap, stack, lists>>

Return(p) ==
  /\ stack[p] = <<>>
  /\ Goto(p, "loop", "done")
  /\ UNCHANGED <<top, heap, shared, local, stack, lists>>

KernelStep(p) ==
  \/ Call(p) \/ PushRoot(p) \/ Pop(p) \/ ProcessNode(p) \/ Stop(p) \/ Descend(p)
  \/ Enter(p) \/ ReadRecord(p) \/ WriteRecord(p) \/ Return(p)

------------------------------------------------------------------------------
kernel == <<pc, local, stack, lists>>

(* Before the outer loop, and only in the off-chip build, the shared       *)
(* records are cleared.                                                    *)
InitCentreBuffer ==
  /\ phase = "init"
  /\ phase' = "copy"
  /\ centre_buffer' = IF build.onchip THEN centre_buffer
                      ELSE [centre_buffer EXCEPT ![NoKernel] = EmptyBuffer]
  /\ UNCHANGED <<build, iterations, nearest, reduced, heap, lock, kernel>>

(* The next outer iteration: the kernels get the new positions and run.    *)
StartIteration ==
  /\ phase \in {"copy", "reduced"}
  /\ iterations < build.l
  /\ phase' = "run"
  /\ nearest' \in [Points -> Centres]
  /\ pc' = [p \in Kernels |-> "call"]
  /\ UNCHANGED <<build, iterations, reduced, heap, shared, local, stack, lists>>

(* tree_adder over the kernels' buffers, or the shared buffer read back.   *)
Sum(records) ==
  [x \in Points |-> MapThenSumSet(LAMBDA p : records[p][x], Kernels)]

Reduction ==
  IF build.onchip
    THEN [c \in Centres |-> Sum([p \in Kernels |-> centre_buffer[p][c]])]
    ELSE centre_buffer[NoKernel]

Reduce ==
  /\ phase = "run"
  /\ \A p \in Kernels : pc[p] = "done"
  /\ lock = NoKernel
  /\ phase' = "reduced"
  /\ reduced' = Reduction
  /\ iterations' = iterations + 1
  /\ UNCHANGED <<build, nearest, heap, shared, kernel>>

Finish ==
  /\ phase \in {"copy", "reduced"}
  /\ iterations = build.l
  /\ phase' = "end"
  /\ UNCHANGED <<build, iterations, nearest, reduced, heap, shared, kernel>>

Next ==
  \/ InitCentreBuffer \/ StartIteration \/ Reduce \/ Finish
  \/ \E p \in Kernels : KernelStep(p)

(* Every instance is a circuit of its own that never stops being clocked.  *)
Spec == Init /\ [][Next]_vars
FairSpec ==
  /\ Spec
  /\ WF_vars(InitCentreBuffer \/ StartIteration \/ Reduce \/ Finish)
  /\ \A p \in Kernels : SF_vars(KernelStep(p))

------------------------------------------------------------------------------
(* Each point is added exactly once in an iteration, to its nearest centre:*)
(* no node is skipped or visited twice, no record update is lost between   *)
(* the kernels, no candidate list is overwritten while a visit still       *)
(* needs it, and nothing of an earlier iteration is left in the records.   *)
EachPointOnce ==
  phase = "reduced" =>
    \A c \in Centres, x \in Points :
      reduced[c][x] = IF nearest[x] = c THEN 1 ELSE 0

(* A list somebody still has to read is allocated and holds the candidates *)
(* of the points below the node it waits for.                              *)
PendingListsIntact ==
  \A p \in Kernels : \A i \in DOMAIN stack[p] :
    LET e == stack[p][i]
    IN  /\ owner[p][e.c] = 1
        /\ Cardinality(lists[p][e.c]) = e.k + 1
        /\ \A x \in Under[e.u] : nearest[x] \in lists[p][e.c]

(* When filter returns, every list has been deleted.                       *)
AllListsDeleted ==
  \A p \in Kernels : pc[p] = "done" => \A c \in Cells : owner[p][c] = 0

(* The depth of the walk bounds its memory: the stack never holds more     *)
(* than one entry per level, nor the heap more lists than the walk has     *)
(* levels (two, for a lone leaf).                                          *)
MemoryBounded ==
  \A p \in Kernels :
    /\ Len(stack[p]) <= Height[Root[p]] + 1
    /\ Cardinality({c \in Cells : owner[p][c] > 0})
         <= Max({2, Height[Root[p]] + 1})

(* Each kernel uses its free list as FreeList asks of a client: it frees   *)
(* only cells it holds, never allocates from an exhausted heap, and starts *)
(* over only when it holds nothing.                                        *)
UsesFreeList ==
  /\ \A p \in Kernels : List(p)!Init
  /\ [][\A p \in Kernels : List(p)!Next \/ UNCHANGED List(p)!vars]_heap

(* The free list is not rewritten when a call starts over at cell 1, so a  *)
(* call may lose cells for good, but no more than the longest path down    *)
(* its subtree has edges (and one, if the subtree is a lone leaf): a heap  *)
(* with room for one call and that many cells for each later iteration     *)
(* never runs out.                                                         *)
LeakBounded ==
  \A p \in Kernels :
    Cardinality(List(p)!Leaked) <= iterations * Max({1, Height[Root[p]]})

(* The clustering comes to its end.                                        *)
Terminates == <>(phase = "end")

==============================================================================
