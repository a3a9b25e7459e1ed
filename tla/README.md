# Verification of LEAP-HLS in TLA+

LEAP-HLS integrates hardware kernels written in C++ for Vivado HLS into the
LEAP run-time system on an FPGA.  It holds three examples: `hello_world`,
`merger` (four sorted linked lists, merged) and `filtering_algorithm`
(K-means clustering over kd-trees).  This directory models what is hard in
them: heaps that hardware allocates from, records that parallel kernels share,
the chain of FIFOs and pulses between a kernel and its memory, pruning by
arithmetic that drops bits, and a run of the application from the host's first
call to the last printed value.

Paths below are relative to `src/`; `FA` is `filtering_algorithm`.

## The system

| Part | State | Operations | Talks to |
|---|---|---|---|
| Heap allocator, `*/VivadoHLS/design_files/dyn_mem_alloc.h` | free list memory `flist`, head register | `malloc`, `free`; restart (in `filter`) | kernels, through a memory port |
| Filtering kernel, `FA/.../filtering_algorithm_top.cpp`, `stack.cpp` | per instance: stack, heap of candidate lists; shared: centre records; top level: centre positions, loop counter | one visit of a node (pop, `minsearch`, prune, free, push or record update), the outer loop | allocator, critical region, private ports |
| Arithmetic, `FA/.../filtering_algorithm_util.cpp` | none | `fi_mul`, `tree_adder`, `compute_distance`, `tooFar_fi` | kernel |
| Tree construction, `FA/VivadoHLS/testbench_files/build_kdTree.cpp`, `filtering_algorithm_tb.cpp` | order of the points, tree heap, stack, image | `recursive_split`, `buildkdTree`, `update_sums`, `scale_sums`, `readout_tree` | kernel, through the image |
| Critical region, `FA/model/coherentSPInterface.bsv`, `shared_bus_interface.cpp` | `hasLock`, request FIFOs, release token | enter, leave, read, write; rules `writeResp`, `readReqAccept`, `obtainLock`, `releaseLock` | core (pulses, bus), LEAP lock service and coherent scratchpad |
| Private port, `FA/wrappers/verilog/bus_bridge.v`, `fifo.v`, `FA/model/privateSPInterface.bsv` | bridge state, 8-slot FIFO, two interface FIFOs | request, acknowledge, answer | core (ap_bus), LEAP scratchpad |
| Controllers, `*/model/mem-perf-common.bsv` | command state, counters, input and output FIFOs | commands, start, done, output; one rule per port and direction | host, wrapper, interfaces |
| Merger kernel, `merger/.../merger_top.cpp` | four heaps, four list heads, streams | `sorted_insert`, `delete_smallest` | allocator, streams |
| Merger/hello_world interface, `merger/model/privateSPInterface.bsv` | one request and one response FIFO | request, answer | core, LEAP scratchpad |
| Host and driver, `*/connected-application-test.cpp`, `*/model/mem-perf-driver.bsv` | calls made, response counter | `RunTest`; `injectOperation`, `drainOperation`, `collectResponses` | controller, by a chain of commands and a ring of answers |

Calls inside a kernel become logic; between kernel and LEAP there are only
signals.  The kernels run at the same time and meet in the centre records and
the lock.  Nothing is persistent and nothing is resent: the hard behaviours
are interleaving, posted writes, pulses nobody answers, memory that a call
inherits from the one before, and limits that are not tested for.  What makes
each part correct:

* allocator: a cell has one holder; a free list never runs through a held
  cell; it loses cells only where a call starts over;
* filtering kernel: each iteration adds each point once, to its nearest
  centre; lists live as long as somebody has to read them; memory is bounded
  by the depth of the tree; it ends;
* arithmetic: no intermediate result wraps or saturates unnoticed, the search
  always finds a candidate, and the bits dropped cost a bounded distance;
* tree construction: each point is in one leaf of one tree, the nodes describe
  the points below them, and what a kernel loads is such a tree;
* critical region: an access reaches the memory only under its own kernel's
  lock, a lock is given up only when its accesses are done, each region ends;
* private port: it is an array, however its stores are buffered; one request
  at a time; each is answered;
* merger kernel: the lists stay well formed, the output is the input, sorted;
* controllers and hosts: each command is answered once, no input or output is
  lost or out of order, the last answer means that the work is done.

`PROJECT.json` lists the hazards behind these, at their lines.

## Modules

**`Allocator`** is the promise: a row of cells with `Acquire` from its front,
`Release` to its front, and `StartOver`, which drops what is in front of cell 1.
**`FreeList`** is one linked list, with `Malloc`, `Free` and `Restart` (the head
goes back to cell 1, as `filter` does when it is called).  Its client behaves:
it frees what it holds, allocates only while the head is a cell (`HasRoom`), and
restarts when it holds nothing.  `owner` is a history variable; the list memory
starts as the files `write_freelist_init_file` writes.  **`FreeListProofs`**
holds its theorems.  **`FreeLists`** has the same operations the way the kernels
inline them, one heap per kernel, with no test of anything; a kernel that uses
it must show that it is a client as `FreeList` describes one (`UsesFreeList`:
each step of a heap is a step of `FreeList`, by `INSTANCE ... WITH`).

**`FilterKernel`** composes P walks with their heaps, the shared records and the
outer loop.  `Call`, `PushRoot`, `Pop`, `ProcessNode`, `Stop`/`Descend`,
`Enter`, `ReadRecord`, `WriteRecord`, `Return` are the statements of `filter` in
order; `InitCentreBuffer`, `StartIteration`, `Reduce`, `Finish` those of
`filtering_algorithm_top`.  A node stands for the points below it, a record for
how often each point was added, centre positions for the nearest centre of each
point, chosen anew in each iteration; a candidate list, always ascending, is the
set of its entries; `minsearch` and `tooFar_fi` may answer anything that is sound
pruning.  `TreeAssumption` is what the builder makes of a tree: inner nodes have
two children, nothing leads back, each point is below one root.  A build has the centre buffer on or off chip.
`Enter` is the critical region as the C++ code means it; **`CriticalRegion`**
is how the hardware makes it: pulses, bridge, interface rules, lock service.
**`MCFilterKernel`** gives trees and builds for TLC, **`FilterKernelProofs`**
the theorems.

**`FixedPoint`** has the arithmetic as operators: widths that wrap, products
whose factors saturate and whose result loses its last bits, `tree_adder` as the
levels of the code, `compute_distance` and `tooFar_fi`; a width is a constant
(the bound of its numbers), with what the source's widths satisfy as the
assumption.  **`Centres`** adds the centre indices.  **`NodeVisit`** is
`process_node` on real coordinates: the turns of `minsearch_loop` and
`tooFar_loop`, along any one path down a tree, each child visited with the list
its parent left.  It fills in what `FilterKernel` abstracts.  There, pruning
drops only what is not closest to any point below a node; `NodeVisit` shows that
the arithmetic drops a little more, and how much at most (`NearestWithinSlack`).
What `FilterKernel` shows of lists, memory and records does not depend on which
candidates survive, as long as the closest does (`ClosestSurvives`).
**`NodeVisitProofs`** holds the theorems.

**`Data`** has the constants of the data set. **`KdTree`** builds the trees as
the C test bench does, whose image is the file the hardware loads:
`RecursiveSplit` and `BeginTree` are the calls of `recursive_split`,
`BuildNode`, `UpdateSums`, `ScaleSums` and `ReadoutNode` turns of the
traversals' loops, `NextTraversal` the change from one to the next, `EndTree`
the offsets. The loop of Wirth's partition is a recursive function in
`Partition`. **`Clustering`** extends it and `NodeVisit`: `Build` is a step of
the builder, `Load` is `init_tree_node_memory` of one of the kernels, `Cluster`
a step of the walk on what was loaded. **`MCClustering`** gives the points,
**`ClusteringProofs`** the theorems.

**`Controller`** is a run of the filtering application: the host's calls
(`RunTest`: a centre each, then the start), the driver's rules, the command chain
and finish ring, the rules of `mem-perf-common.bsv` under their names, and the
core as its streams show it (`i_node_data`, `root`, `cntr_pos_init`, `it_loop`,
`output_loop`).  Reading or writing a stream is one step of core and controller,
as the rule that serves it fires in the clock of the access.  Words, centres
and outputs are told by their position.  **`ControllerProofs`** has its theorems.

**`MemoryPort`** is one of the private ports (up to sixteen, all alike), one
step per clock: every register of bridge, FIFO and interface changes in each
step.  It implements **`SequentialMemory`**, an array; the refinement mapping
performs the stores that are still on their way.  What a BSV rule may do in one
clock is in operators with the rules' names (`hlsBusWriteReq`, ...).
**`MemoryPortProofs`** holds the theorems.

**`Merger`** has a step for each pass of a loop of `merger_top.cpp`, with the
instances of `sorted_insert` interleaved; **`SortedStream`** is its promise, and
**`MergerProofs`** shows that it is kept.

In every module, an operator whose comment calls it a slip is a plausible
mistake in the operator next to it.  No specification uses it: it replaces its
neighbour where one wants to see that a property notices.

## Runs

| Run | Instance | States | Shows |
|---|---|---|---|
| `free_list` | 5 cells | small | `NoDoubleAllocation`, `HeldNotOnList`, `IInv`; implements `Allocator` (last freed is first handed out, a restart keeps the row behind cell 1); only a restart leaks |
| `filter` | 2 kernels (3 and 2 leaves), 2 centres, 1 iteration, both builds, records possibly dirty at start | 246 312 | each point once, lists intact while pending and all deleted, memory bounded, heap used as `FreeList` asks, termination |
| `filter_repeated` | 1 kernel, 3 iterations, on chip | 140 848 | nothing is carried into the next iteration; leaked cells bounded by one path per iteration |
| `filter_accumulates` | 1 kernel, 2 iterations, off chip | violation | records are not cleared between iterations |
| `critical_region` | 3 kernels, 2 regions each, 2 words | 113 176 | no lost update, accesses only under the lock, released means written, all regions end |
| `lost_update` | 2 kernels, `WriteFirst = FALSE` | violation | a posted write outlives its lock |
| `lock_stall` | 2 kernels, `LongGap = FALSE` | violation | a lock request is dropped, the core waits for ever |
| `clustering` | 4 points of four bits a coordinate, from 4 that occur, 2 sub-trees, 3 centres from 4 positions | 554 092 | each point in one leaf, nodes describe their points, loaded trees nested, the search always finds, the nearest centre up to the slack |
| `controller` | 4 centres and 4 slots for them, 8 words of tree, 3 slots for them | 2 075 | one answer per call, inputs in order and without loss, what the last answer means, everything printed |
| `memory_port` | 2 addresses, 2 values, 2-slot FIFOs | 15 600 | implements an array, one request, each answered |
| `merger` | 2 instances, 3 values each of 3 keys, 3 cells | 38 230 | well-formed lists, sorted stream, heap use, termination |
| `merger_max_key` | as above with `MAX_K` among the inputs | violation | output is not the sorted input |

### Bounds and why they are enough

* The heaps of `filter_repeated` and `merger` have just the cells the instance
  needs, so that exhaustion shows as a violation of `UsesFreeList`; those of
  `filter` have two more, so that a walk that holds too many lists can also
  exceed the bound of `MemoryBounded`.  The proofs are for every size.
* The subtrees have leaves at different depths, an inner left child (a list read
  by a deep subtree before its second reader), and a lone root-and-leaves tree;
  two centres give both outcomes of pruning.  A third kernel adds no new
  conflict on a record: an update conflicts with one other.  Three iterations
  show a restart that inherits a leak and one that adds to it.
* A record of two words has a state in which it is half written; two regions
  show a core coming back for its lock; the third kernel one that waits while
  two contend.
* `Depth = 2` makes the pointers of `fifo.v` wrap (the code has 8 slots);
  `FifoSize = 2` and `ScratchpadQueue = 2` let stores queue up in interface and
  scratchpad.  `ScratchpadQueue` is a bound of the model on LEAP's side.
* `clustering` has the source's widths scaled down: coordinates of 4 bits for 16,
  factors of 5 for 18, results of 10 for 32, 2 dropped bits for 6.  They keep the
  relations of `WidthAssumption`, which is all the proofs use.  Among the
  points are equal ones, ones on a split plane and ones that make an edge wrap;
  with the points and centres of `MCClustering` the arithmetic does prune a
  centre that is nearer, so that the slack is needed.  Four points in two parts
  give trees of one to three leaves and paths of up to three visits.
* `controller` has as many centres as `CentreFifo` has slots, the boundary of the
  build with 256 centres, and fewer slots for words of the tree than there are
  words, so that fetching is held up by the core and goes on behind the tree.
  `TreeFifo` is also what bounds the words fetched.
* `OutputBound` stops the merger where a wrong index would let it emit for ever;
  it is larger than the number of inputs, so correct runs never meet it.
* Deadlock is not checked where the program ends.

### What a build decides

Two facts that `CriticalRegion` needs are fixed by tools, not by the source.
`WriteFirst`: `writeResp` and `releaseLock` conflict (`hasLock`), nothing states
which is more urgent, and the Bluespec compiler chooses.  `LongGap`: the number
of clocks between a core's leaving and its next entering comes from the Vivado
schedule.  `critical_region` takes a build that provides both; the two violation
runs drop one each.  `OnlyHolderAccesses` needs neither: it is proved for both
values of both constants; the other safety properties are proved where both hold.

A third one matters to `Controller`: whether a method called in one branch of a
rule guards the whole rule or only that branch (bsc's `-aggressive-conditions`;
the flags come with LEAP's build system and are not in the repository).  The
model takes the second.  With the first, `RoomForAny`, `doGetCommand` waits for a
slot it does not need, and a build with as many centres as the centre FIFO has
slots (256) never starts; builds with fewer do not depend on it.

### Fairness

Weak fairness of each core, of each port and of the top level: they are clocked
circuits that act when they can.  `FilterKernel` needs strong fairness of a
kernel, as entering the region is enabled only now and then; LEAP's lock service
serves all requests in turn (in `CriticalRegion` weak fairness of granting is
enough for a finite number of regions).  `MemoryPort` assumes that the
scratchpad accepts and performs accesses again and again.  `Controller` assumes
weak fairness of each rule (a BSV rule that can fire does so, or a conflicting
one does, and no two of these conflict for ever), of the core, of the host's
next call and of the scratchpad's answer; LEAP's links deliver.

## Proofs

In `FreeListProofs`, for every `HeapSize \in Nat` with `HeapSize >= 2` (the
only assumption: word 0 is the null pointer and there is one cell).

* `Invariance`: `Spec => []IInv`.  `NoDoubleAllocation` alone is not inductive:
  malloc returns the head, so one must know that the head is not held, hence
  that no cell of the list is (`HeldNotOnList`); that what lies behind the head
  stays a list after unlinking it, hence that no two cells share a successor
  and none leads back to the head (`NoSharing`, `NoReturn`, `LinkInv`); and, as
  a restart forgets the head, that cell 1 is on the list whenever nothing is
  held (`FirstCellKnown`).
* The list is described without recursion: `Reach(f, h)` is the set of cells in
  every closed set that holds `h`.  The lemmas `ReachClosed`, `ReachMinimal`,
  `ReachUnlink`, `ReachPush` and `ReachSuffix` say what the stores of malloc,
  free and restart do to it; each action then has a lemma of its own.
* `MallocIsExclusive` and `ListIsDisjoint` follow from `Invariance`;
  `LeaksOnlyAtRestart` (an action property) uses it step by step.
* `Refinement` is `FreeList` implementing `Allocator`.  The mapping takes the list
  to its set of cells and, for each of them, to the set behind it (`Behind`), so
  it tells the order.  Beyond exclusiveness it says that free disturbs no other
  cell's place, that malloc takes the cell freed last, and exactly which cells a
  restart gives up: those in front of cell 1.  The step of free is where the
  invariant is used: the word it stores to belongs to a held cell, so to no list
  (`ReachSame`).  `InitialRow`, that the initial list has all cells in ascending
  order, is by the least cell that it would miss.

In `CriticalRegionProofs`, for every set of kernels, every number of words and
regions, and every build (both values of `WriteFirst` and `LongGap`):

* `TypeCorrect`: `Spec => [](TypeOK /\ RegionsToGo)`.  `RegionsToGo` (a core that
  has not finished has a region to go) is what keeps `left` from going below
  zero in `Leave`.
* `LockInvariant` and `LockExclusion`: `Spec => []OnlyHolderAccesses`.  `LockInv`
  splits the property: an interface believes it has the lock only while it owns
  it and has taken the answer (`LockIsOwned`), and an access is at the memory
  only while its interface believes so (`PendingUnderLock`).  `writeResp` and
  `readReqAccept` preserve the second as they test the lock, `releaseLock` as it
  waits for the memory; granting preserves the first as the service answers one
  request at a time.  The theorem says that what goes wrong in `lost_update` is
  not two kernels at the memory at once: it is a write that arrives late, under
  a lock acquired later.

The second part of `CriticalRegionProofs` is likewise for every set of kernels,
every number of words and regions, but for the builds with `WriteFirst` and `LongGap` (the violation runs
show that neither can be left out):

* `UpdateInvariant`: `Spec => []UpdateInv`, the property `NoLostUpdate` and four
  parts for each kernel.  `Line(p)` is every write of the kernel on its way, from
  the memory's queue back to the bridge.  `WriteOf`: after the reading nothing
  else is under way; the writes are of different words in ascending order, below
  those still to be written, and each is one more than what is in the memory
  *now*.  `ReadOf`: during the reading the one read is all there is, and an
  answer not yet taken is what the memory holds.  `ValueOf`: the words read and
  not yet written are still as they were read.  `RegionOf`: from the beginning
  of a region to its release the lock has been asked for, and it is held from
  the first answer on.
* The last part is what makes another kernel's write harmless (`OthersKeep`): the
  writer holds the lock, so the other has no answer and nothing in its line.  A
  kernel's own write changes one word and the others of its line come after it
  (`MemoryWriteKeeps`).
* `LongGap` is used where a core enters its region, `WriteFirst` where the lock is
  released with nothing left in the line (`LockKeeps`).
* `NoUpdateLost`, `RegionsHaveTheLock` and `ReleasedAfterWriting` follow: all
  safety properties of the run `critical_region` are theorems.

In `NodeVisitProofs`, for every tree of nested boxes (`NestedBoxes`, which
`ClusteringProofs` shows of the trees the builder makes), any number of centres,
and all widths that satisfy `WidthAssumption`, the source's among them:

* `DistanceBounds` and `PruneLosesLittle` are the arithmetic: a distance is the
  exact one, divided by `SCALE`, less than `SearchSlack / SCALE` too small; a
  candidate that `tooFar_fi` drops is nearer to no point of the box than the one
  kept by more than `PruneSlack`.  They rest on `FiMulIsShift` (differences never
  saturate), `ShiftDrops`, `TreeAdderAdds` (no sum wraps) and `CornerIsExtreme`.
  `ClosestNotTooFar` says that a centre is never too far against itself.
* `VisitInvariant`: `Spec => []IInv`.  `SearchInv` and `PruneInv` are the loops'
  invariants; `ListsSorted` keeps an index from appearing twice; `Kept` is the
  heart: for every centre of all there is one candidate left that is at most
  `(depth - 1) * PruneSlack` further from all points of the box.  It has to
  speak of all points of the box and not of those in the tree, as a child
  inherits the list for a smaller box.
* `ClosestAlwaysSurvives` and `PointsGoToNearest` follow from it.

In `ControllerProofs`, for every number of centres, points and kernels and all
FIFO sizes that `ControllerAssumption` admits:

* `ControllerInvariant`: `Spec => []IInv`.  Next to the properties, `CallInv` ties
  the calls made to the commands on their way and the state of the controller,
  and `PhaseInv` says for each phase of the core what it has read and written so
  far, what is still in the FIFOs, and that a core that runs is one the
  controller waits for.  Without `PhaseInv` an output could meet a full FIFO:
  that it never does follows from the number of outputs written in the one run.
* The lemmas `HandOver`, `PutLast`, `Taking` and `Putting` say what passing an
  element along a chain of queues does to their concatenation; each of the
  invariants has a lemma with one step for each action.
* `TypeCorrect`, `AnswersMatchCalls`, `InputsInOrder` and `AnsweredWhenDone`
  follow from it.

In `FilterKernelProofs`, for every number of kernels, every family of disjoint
trees (`TreeAssumption`), any centres, and every heap with room for one call and
for what the calls before it gave up (`RoomForCalls`: `HeapSize` at least
`l * Depth(p) + 2`; `filter_repeated` has just that.  The free lists the test
bench writes have 1024 words, room for 60 iterations on trees of 17 levels):

* `KernelInvariant`: `Spec => []IInv`, of which each kernel has two parts.
  `Walks` says for each stage of a visit what is on the stack and in the heap:
  entries for disjoint sets of points, each with a list that serves it; all
  entries but the top one delete their list, and the top one shares the list of
  the entry below (`TopReads`), so that a visit which does not delete leaves its
  list to exactly one that does; an entry's place plus its node's height is
  bounded (`Level`), which is what bounds stack and heap.  `HeapGood` has the
  free list as a chain, with no more cells missing than earlier calls gave up, and
  cell 1 near its head: the cells before it are those a call has freed after it,
  and they and the cells held never exceed the depth.  This is what the next
  call, which starts over at cell 1, can lose.  `LockInv` ties the lock to the
  stages.
* `TypeCorrect`, `ListsIntact`, `ListsDeleted`, `MemoryBound` and `LeakBound`
  follow, and `FreeListUse`: what `FreeListProofs` shows of one list holds of the
  kernels' heaps, over all iterations.
* `PointsOnce`: `Spec => []EachPointOnce`, if shared records serve one iteration
  only (`SharedRecordsUsedOnce`; the run `filter_accumulates` shows that it cannot
  be left out).  `Unserved(p)` are the points below the root, the stack or the
  node at hand, whichever the stage calls for; `Tally` says that a record counts
  a point once if it is served and the centre is its nearest, and not at all
  otherwise.  Only `WriteRecord` serves points (`UnservedKept`), and what it
  writes was read under the lock (`RecordInv`).  `SumOfOne` is the reduction over
  the kernels, of which one has the point.
* What a function over a tree or a fold over a set computes is taken from the
  library's well-founded order as a least counterexample (`Recursion`, `SumIs`):
  the induction theorems themselves are out of reach here.

In `MergerProofs`, for every finite set of instances, any inputs and cells, if a
heap has a cell for each value (`RoomForAll`) and `MAX_K` is no input
(`KeysBelowMax`; the run `merger_max_key` shows that it cannot be left out):

* `MergerInvariant`: `Spec => []IInv`.  A list is a function from its places to
  cells (`Chained`).  While `sorted_insert` walks, the new record is held but not
  in the list, and `l` and `prev` are neighbours in it with the keys up to `prev`
  not larger (`WalkAt`).  Until all values are in, the heaps are as the
  initialisation left them but for the cells handed out (`HeapInv`).
* `SortedLists`, `FreeListUse` and `TypeCorrect` follow; `MergesSorted` is the
  refinement of `SortedStream`: the bag of what is pending loses its least key
  with each `DeleteSmallest` and is the same after every other step.

In `MemoryPortProofs`, for every `Depth`, `FifoSize` and `ScratchpadQueue`, any
addresses and values:

* `PortInvariant`: `Spec => []IInv`, one disjunct for each place the one request
  can be in (`Free`, `Queued`, `Sent`, `Writing`, `Reading`).  A load that is
  accepted has only stores before it (`LoadLast`), hence `AtMostOneRequest`; each
  disjunct has a lemma with the ones that can follow it.
* `PortIsAnArray` is the refinement of `SequentialMemory`: the array is the memory
  after the stores on their way, each place holding what the last one leaves
  there, so accepting a store changes the array and performing it does not
  (`AfterAppend`, `AfterPerform`), and a load's answer is the array's word.

In `ClusteringProofs`, for any number of points with any coordinates, one, two or
four parts, and all widths that satisfy `WidthAssumption`.  The one premise is
`EnoughPoints`: no call of `recursive_split` splits a part of a single point.
`TwoPartsHaveEnough` proves it, whatever the data, for the run's one or two parts
with a point each.  With four parts it depends on the data: with an outlier the
first split can leave one point alone, the next makes a sub-tree of no points of
it, and `ofs`, which grows by `2*n-1`, goes back by one, to an entry that is
already written.

* `ClusteringInvariant`: `ClusteringSpec => []ClusteringInv`, which is `BuildInv`
  for the builder and the invariant of `NodeVisitProofs` for the walk.  Between
  them is `LoadNests`: what a kernel loads is a tree of nested boxes, which the
  walk's proof assumes.  So `ClosestSurvivesInBuiltTree` and `NearestInBuiltTree`
  hold of the walk on the trees that are built, with no assumption on the trees.
* `SplitFacts` is `split_bounding_box`: it permutes the part's places only, both
  halves get a point, and each half's points lie in its cell, however the middle
  of the edge was rounded, moved to a point or wrapped, and whichever side the
  points on the plane go to.  `PartitionFacts` is Wirth's loop.
* `Shape` is a tree in the heap, by the links of its nodes and without recursion:
  children lie behind their parent, in its cell, and share its places out; each
  node is somebody's child; each place is in a leaf; a leaf's places are
  apart from those of all nodes but its ancestors (`Laminar`).  `GrowsShape` and
  `GrowsBoxes` keep it when a leaf is given two children.
* `CallsOK` has the calls still to make, and `StackRow` a traversal's stack, as a
  row of intervals without gaps (`Row`).  No interval is empty, so a row is never
  longer than it has places, from which it follows that `2 * N` addresses are
  enough (`RoomForTwo`) and how many entries the image has (`ReadingOK`).
* `SummingOK` is the post-order traversal: the stack is a path from the root, and
  `prev`, from whose links alone the code tells where it comes from, is the node
  above, the left child with its sums done, or the right one with both done.
  `ReadingOK` is the pre-order one: what is not yet in the image is below the
  stack.  When the stack is empty, the nodes done include the root and the
  children of each, so they are all nodes (`FollowsAll`).
* `PartsOK` has the finished parts as a kernel's memory will hold them
  (`MemoryOf`); later splits leave them alone, as they permute places behind
  theirs (`PartsKept`).
* `PointsInOneLeaf`, `NodesDescribed` and `LoadedBoxesNest` follow.  The second
  needs `SumsFit`, `N * COORD <= EXT`: the sums of 65536 points fit 32 bits, those
  of the 262144 the build allows need not.  The sums of leaves are exact without
  it, and nothing else needs it.

The parts of `BuildInv` were checked with TLC first, for four points in one and
two parts, and for five in four parts where `EnoughPoints` holds.

Only model-checked: liveness (`Terminates`, `AllRegionsEnd`, `RequestsEnd`,
`EverythingPrinted`) and the deadlock checks, which are out of the proof system's
reach.

## Not modelled

* The distortion: `dot_product`, the sum in `update_function` and its
  counterpart in the tree.  It is printed and nothing depends on it.  The
  division of `update_centres` is a free choice of new positions.
* The merger's controller and host: the same command loop as in `Controller`
  without the centre upload; its iterations (the shipped host asks for one) and
  the checker, which only prints, are its own.
* The memory interface of merger and hello_world: two FIFOs between the core and
  a scratchpad that answers in order, without the bridge.  The interfaces of the
  V2 and Mmap variants: the first no build uses, the second differ in an
  initialisation file (the filtering controller's use of one is in
  `Controller`).
* hello_world: a loop that copies words, in the merger's frame.
* The sequential merger, which no build uses, and the test benches of the RTL
  simulation and of the merger.
* LEAP and Vivado's ap_bus masters are external, modelled from how the code uses
  them.  The statistics, debugging output and files are left out.
* Commands 0 and 3, which no host sends, have their branch in `StateFor` but are
  never taken; a second start of the core, which no host asks for, would read
  words from behind the tree (`treeDataMmapCounter` is never set back).
* Blocking assignments in the clocked blocks of `bus_bridge.v` can race in
  simulation; the model has the registers as they are synthesised.

## Plan

1. (done) allocator and its proofs; filtering kernel; critical region; private
   port; merger kernel.
2. (done) the proof that no update is lost; arithmetic, one node's visit and its
   proofs; tree construction and the walk on the trees it makes; a run of the
   filtering application and its proofs.
3. The merger's controller with its iterations, as a second instance of the frame
   of `Controller`; its memory interface as a second implementation of
   `SequentialMemory`.
4. (done) proofs of the filtering kernel, the merger, the private port and tree
   construction.
5. That the critical region as the hardware makes it implements the region that
   `FilterKernel` enters.
