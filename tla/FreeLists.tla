------------------------------- MODULE FreeLists -------------------------------
(***************************************************************************)
(* malloc and free (dyn_mem_alloc.h) as the kernels inline them: each has  *)
(* a heap of its own, the free list of that heap in a memory behind a      *)
(* port, and a register with the list's head.  Unlike FreeList, which      *)
(* describes one list in the hands of a client that behaves, the           *)
(* operations here do what the code does whatever they are asked.          *)
(***************************************************************************)
EXTENDS Integers

CONSTANTS
  Kernels,              \* the instances that own a heap each
  HeapSize              \* words of each free list memory

ASSUME HeapAssumption == HeapSize \in Nat /\ HeapSize >= 2

VARIABLES
  flist,                \* flist[p][c]: the cell after c in p's free list
  next_free_location,   \* head of p's list
  owner                 \* history: outstanding allocations of each cell

heap == <<flist, next_free_location, owner>>

NULL_PTR == 0
Cells == 1 .. HeapSize - 1
Links == 0 .. HeapSize - 1

HeapTypeOK ==
  /\ flist \in [Kernels -> [Links -> Nat]]
  /\ next_free_location \in [Kernels -> Nat]
  /\ owner \in [Kernels -> [Cells -> Int]]

HeapInit ==
  /\ flist = [p \in Kernels |-> [i \in Links |-> i + 1]]
  /\ next_free_location = [p \in Kernels |-> 1]
  /\ owner = [p \in Kernels |-> [c \in Cells |-> 0]]

(* A word that was never written reads as zero, a store past the memory is *)
(* lost; word 0 can be stored to but is no cell.                           *)
Link(p, c) == IF c \in Links THEN flist[p][c] ELSE NULL_PTR
Store(p, c, to) == IF c \in Links THEN [flist EXCEPT ![p][c] = to] ELSE flist
Count(p, c, n) == IF c \in Cells THEN [owner EXCEPT ![p][c] = @ + n] ELSE owner

(* A slip: the successor is looked up twice.                               *)
MallocSkipsCell(p) ==
  LET c == next_free_location[p]
  IN  /\ next_free_location' = [next_free_location EXCEPT ![p] = Link(p, Link(p, c))]
      /\ owner' = Count(p, c, 1)
      /\ UNCHANGED flist

Malloc(p) ==
  LET c == next_free_location[p]
  IN  /\ next_free_location' = [next_free_location EXCEPT ![p] = Link(p, c)]
      /\ owner' = Count(p, c, 1)
      /\ UNCHANGED flist

(* A slip: the two stores of free in the wrong order.                      *)
FreeStoresSwapped(p, c) ==
  /\ next_free_location' = [next_free_location EXCEPT ![p] = c]
  /\ flist' = Store(p, c, next_free_location'[p])
  /\ owner' = Count(p, c, -1)

Free(p, c) ==
  /\ flist' = Store(p, c, next_free_location[p])
  /\ next_free_location' = [next_free_location EXCEPT ![p] = c]
  /\ owner' = Count(p, c, -1)

(* One kernel's list, seen as FreeList describes it.                         *)
List(p) == INSTANCE FreeList WITH
             flist <- flist[p],
             next_free_location <- next_free_location[p],
             owner <- owner[p]

==============================================================================
