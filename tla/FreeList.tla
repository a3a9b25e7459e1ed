------------------------------- MODULE FreeList -------------------------------
(***************************************************************************)
(* The heap allocator of the HLS kernels (dyn_mem_alloc.h): a singly       *)
(* linked list of the free cells, kept in a memory `flist' beside the heap,*)
(* and one register `next_free_location' that holds its head.  The kernel  *)
(* `filter' sets the register back to cell 1 each time it is called, but   *)
(* never rewrites flist: the list the next call starts from is whatever    *)
(* the previous one left behind cell 1.                                    *)
(*                                                                         *)
(* There is no test for an exhausted heap in the code.  Malloc is only     *)
(* modelled while the head is a cell of the heap (HasRoom); that its       *)
(* client never asks for more is a property of the client.                 *)
(***************************************************************************)
EXTENDS Naturals, FiniteSets

CONSTANT HeapSize       \* entries of flist: the words of its initialisation file

ASSUME HeapSizeAssumption == HeapSize \in Nat /\ HeapSize >= 2

VARIABLES
  flist,                \* flist[c]: the cell after c in the free list
  next_free_location,   \* head of the free list
  owner                 \* history: outstanding allocations of each cell

vars == <<flist, next_free_location, owner>>

NULL_PTR == 0
FirstCell == 1

(* Cell 0 is the null pointer; the initial list ends in HeapSize, which is *)
(* no cell.                                                                *)
Cells == FirstCell .. HeapSize - 1
Links == 0 .. HeapSize - 1
End == HeapSize

TypeOK ==
  /\ flist \in [Links -> Nat]
  /\ next_free_location \in Nat
  /\ owner \in [Cells -> Nat]

Held == {c \in Cells : owner[c] > 0}

(* A set of cells is closed when the list never leads out of it other than *)
(* to a word that is no cell; the cells reached from a head are those in   *)
(* every closed set that holds the head.                                   *)
Closed(f, S) == \A c \in S : f[c] \in Cells => f[c] \in S

Reach(f, head) ==
  {c \in Cells : \A S \in SUBSET Cells :
                    (head \in Cells => head \in S) /\ Closed(f, S) => c \in S}

FreeCells == Reach(flist, next_free_location)

------------------------------------------------------------------------------
InitFlist == [i \in Links |-> i + 1]

Init ==
  /\ flist = InitFlist
  /\ next_free_location = FirstCell
  /\ owner = [c \in Cells |-> 0]

HasRoom == next_free_location \in Cells

(* A slip in malloc: the head is returned but not unlinked.                *)
MallocWithoutUnlink ==
  /\ HasRoom
  /\ owner' = [owner EXCEPT ![next_free_location] = @ + 1]
  /\ UNCHANGED <<flist, next_free_location>>

Malloc ==
  /\ HasRoom
  /\ owner' = [owner EXCEPT ![next_free_location] = @ + 1]
  /\ next_free_location' = flist[next_free_location]
  /\ UNCHANGED flist

(* A slip in free: the two stores in the wrong order, which links the cell *)
(* to itself.                                                              *)
FreeStoresSwapped(c) ==
  /\ owner[c] > 0
  /\ next_free_location' = c
  /\ flist' = [flist EXCEPT ![c] = next_free_location']
  /\ owner' = [owner EXCEPT ![c] = @ - 1]

Free(c) ==
  /\ owner[c] > 0
  /\ flist' = [flist EXCEPT ![c] = next_free_location]
  /\ next_free_location' = c
  /\ owner' = [owner EXCEPT ![c] = @ - 1]

(* A slip in the caller: the head is reset while lists are still held. *)
RestartAnyTime ==
  /\ next_free_location' = FirstCell
  /\ UNCHANGED <<flist, owner>>

(* A slip in the caller: it starts over one cell too far. *)
RestartAtSecond ==
  /\ Held = {}
  /\ next_free_location' = FirstCell + 1
  /\ UNCHANGED <<flist, owner>>

(* filter is called again, after a call that gave every cell back. *)
Restart ==
  /\ Held = {}
  /\ next_free_location' = FirstCell
  /\ UNCHANGED <<flist, owner>>

Next ==
  \/ Malloc
  \/ \E c \in Cells : Free(c)
  \/ Restart

Spec == Init /\ [][Next]_vars

------------------------------------------------------------------------------
(* No cell is in the hands of two holders: malloc never returns a cell     *)
(* that is still allocated, whatever the order of frees and restarts.      *)
NoDoubleAllocation == \A c \in Cells : owner[c] <= 1

(* The list that malloc will walk never leads through an allocated cell:   *)
(* a kernel may write flist only for a cell it holds, so a held cell on    *)
(* the list would be torn out from under it by the next free.              *)
HeldNotOnList == Held \cap FreeCells = {}

(* The part of the state the next malloc calls depend on: each word of the *)
(* list is a cell or the end mark, no two cells share a successor, none    *)
(* leads back to the head, and cell 1, where a new call starts, is either  *)
(* held or on the list.                                                    *)
HeadInv == next_free_location \in Cells \cup {End}
LinkInv == \A c \in FreeCells : flist[c] \in Cells \cup {End}
NoSharing ==
  \A c, d \in FreeCells : flist[c] = flist[d] => c = d
NoReturn == \A c \in FreeCells : flist[c] # next_free_location
FirstCellKnown == FirstCell \in Held \cup FreeCells

IInv ==
  /\ TypeOK
  /\ HeadInv
  /\ LinkInv
  /\ NoSharing
  /\ NoReturn
  /\ FirstCellKnown
  /\ HeldNotOnList
  /\ NoDoubleAllocation

(* The cells that no call can obtain any more.  malloc and free alone lose *)
(* nothing: only a restart, which forgets the cells freed after cell 1.    *)
Leaked == Cells \ (Held \cup FreeCells)
OnlyRestartLeaks == [][Leaked' # Leaked => Restart]_vars

(* The linked list implements the abstract pool, seen as the cells on the  *)
(* list and the cells behind each of them: malloc (dyn_mem_alloc.h) hands  *)
(* out the cell that was freed last, free puts a cell in front of all      *)
(* others and disturbs none, and a new call of filter finds cell 1 and the *)
(* cells behind it, in their old order, and neither fewer nor more.        *)
Behind == [c \in FreeCells |-> Reach(flist, flist[c])]
Pool == INSTANCE Allocator WITH held <- Held, available <- FreeCells, behind <- Behind
ImplementsPool == Pool!Spec

==============================================================================
