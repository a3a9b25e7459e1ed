---------------------------- MODULE FreeListProofs ----------------------------
(***************************************************************************)
(* The free list never hands out a held cell, for every size of the heap.  *)
(* IInv is the inductive invariant; the lemmas about Reach say how the set *)
(* of cells on the list changes when its head or one word of it changes.   *)
(***************************************************************************)
EXTENDS FreeList, WellFoundedInduction, TLAPS

(* The set reached from a head is closed, holds the head, and is the       *)
(* smallest such set.                                                      *)
LEMMA ReachClosed ==
  ASSUME NEW f, NEW h
  PROVE  /\ Reach(f, h) \subseteq Cells
         /\ h \in Cells => h \in Reach(f, h)
         /\ Closed(f, Reach(f, h))
BY DEF Reach, Closed

LEMMA ReachMinimal ==
  ASSUME NEW f, NEW h, NEW S \in SUBSET Cells,
         h \in Cells => h \in S,
         Closed(f, S)
  PROVE  Reach(f, h) \subseteq S
BY DEF Reach

(* Unlinking the head of a list that never leads back to it removes the    *)
(* head from the list and nothing else.                                    *)
LEMMA ReachUnlink ==
  ASSUME NEW f, NEW h \in Cells,
         \A c \in Reach(f, h) : f[c] # h
  PROVE  Reach(f, f[h]) = Reach(f, h) \ {h}
<1> DEFINE R == Reach(f, h)
           T == Reach(f, f[h])
<1>1. T \subseteq R \ {h}
  <2>1. R \ {h} \in SUBSET Cells
    BY ReachClosed
  <2>2. f[h] \in Cells => f[h] \in R \ {h}
    BY ReachClosed DEF Closed
  <2>3. Closed(f, R \ {h})
    BY ReachClosed DEF Closed
  <2> QED BY <2>1, <2>2, <2>3, ReachMinimal
<1>2. R \subseteq T \cup {h}
  <2>1. T \cup {h} \in SUBSET Cells
    BY ReachClosed
  <2>2. Closed(f, T \cup {h})
    BY ReachClosed DEF Closed
  <2> QED BY <2>1, <2>2, ReachMinimal
<1> QED BY <1>1, <1>2

(* Pushing a cell that is not on the list adds that cell and nothing else. *)
LEMMA ReachPush ==
  ASSUME NEW f, NEW g, NEW h, NEW c \in Cells,
         c \notin Reach(f, h),
         g[c] = h,
         \A x \in Cells : x # c => g[x] = f[x]
  PROVE  Reach(g, c) = Reach(f, h) \cup {c}
<1> DEFINE R == Reach(f, h)
           T == Reach(g, c)
<1>1. T \subseteq R \cup {c}
  <2>1. R \cup {c} \in SUBSET Cells
    BY ReachClosed
  <2>2. Closed(g, R \cup {c})
    BY ReachClosed DEF Closed
  <2> QED BY <2>1, <2>2, ReachMinimal
<1>2. R \subseteq T \cap R
  <2>1. T \cap R \in SUBSET Cells
    BY ReachClosed
  <2>2. h \in Cells => h \in T \cap R
    BY ReachClosed DEF Closed
  <2>3. Closed(f, T \cap R)
    BY ReachClosed DEF Closed
  <2>4. Reach(f, h) \subseteq T \cap R
    BY <2>1, <2>2, <2>3, ReachMinimal
  <2> QED BY <2>4
<1>3. c \in T
  BY ReachClosed
<1> QED BY <1>1, <1>2, <1>3

(* Following a list from one of its own cells never leads back to that     *)
(* cell: no cell has two predecessors and the head has none, so a cycle    *)
(* could not be entered from the head.                                     *)
LEMMA ReachSuffix ==
  ASSUME NEW f, NEW h, NEW a \in Reach(f, h),
         \A x, y \in Reach(f, h) : f[x] = f[y] => x = y,
         \A x \in Reach(f, h) : f[x] # h
  PROVE  /\ Reach(f, a) \subseteq Reach(f, h)
         /\ \A x \in Reach(f, a) : f[x] # a
<1> DEFINE R == Reach(f, h)
           U == Reach(f, a)
<1>0. a \in Cells /\ a \in U
  BY ReachClosed
<1>1. U \subseteq R
  BY <1>0, ReachClosed, ReachMinimal
<1>2. ASSUME NEW p \in U, f[p] = a
      PROVE  FALSE
  <2> DEFINE W == {x \in U : \E y \in U : f[y] = x}
  <2>1. U \subseteq W
    <3>1. W \in SUBSET Cells
      BY ReachClosed
    <3>2. a \in W
      BY <1>0, <1>2
    <3>3. Closed(f, W)
      BY ReachClosed DEF Closed
    <3> QED BY <3>1, <3>2, <3>3, ReachMinimal
  <2>2. h \notin U
    BY <1>1, <2>1
  <2>3. Closed(f, R \ U)
    <3> SUFFICES ASSUME NEW x \in R \ U, f[x] \in Cells
                 PROVE  f[x] \in R \ U
      BY DEF Closed
    <3>1. f[x] \in R
      BY ReachClosed DEF Closed
    <3>2. ASSUME f[x] \in U PROVE FALSE
      <4>1. PICK y \in U : f[y] = f[x]
        BY <2>1, <3>2
      <4> QED BY <1>1, <4>1
    <3> QED BY <3>1, <3>2
  <2>4. R \ U \in SUBSET Cells
    BY ReachClosed
  <2>5. h \in Cells => h \in R \ U
    BY <2>2, ReachClosed
  <2>6. R \subseteq R \ U
    BY <2>3, <2>4, <2>5, ReachMinimal
  <2> QED BY <1>0, <1>1, <2>6
<1> QED BY <1>1, <1>2

------------------------------------------------------------------------------
(* At the start every cell is on the list: cell c's successor is c + 1.    *)
(* That the list reaches cell 1 is all the invariant needs.                *)
LEMMA InitInvariant == Init => IInv
<1> SUFFICES ASSUME Init PROVE IInv
  OBVIOUS
<1> USE HeapSizeAssumption DEF Cells, Links, End, FirstCell
<1>1. TypeOK
  BY DEF Init, InitFlist, TypeOK
<1>2. FreeCells \subseteq Cells /\ FirstCell \in FreeCells
  BY ReachClosed DEF Init, FreeCells
<1>3. \A c \in Cells : flist[c] = c + 1
  BY DEF Init, InitFlist
<1>4. HeadInv
  BY DEF Init, HeadInv
<1>5. LinkInv
  BY <1>2, <1>3 DEF LinkInv
<1>6. NoSharing
  BY <1>2, <1>3 DEF NoSharing
<1>7. NoReturn
  BY <1>2, <1>3 DEF NoReturn, Init
<1>8. HeldNotOnList /\ NoDoubleAllocation
  BY DEF Init, HeldNotOnList, NoDoubleAllocation, Held
<1> QED
  BY <1>1, <1>2, <1>4, <1>5, <1>6, <1>7, <1>8 DEF IInv, FirstCellKnown

(* malloc: the head moves from the list to the holders.                    *)
LEMMA MallocCells ==
  ASSUME IInv, Malloc
  PROVE  /\ next_free_location \in FreeCells
         /\ FreeCells \subseteq Cells
         /\ owner' = [owner EXCEPT ![next_free_location] = 1]
         /\ FreeCells' = FreeCells \ {next_free_location}
         /\ Held' = Held \cup {next_free_location}
<1> DEFINE a == next_free_location
<1>1. a \in Cells /\ flist' = flist /\ next_free_location' = flist[a]
  BY DEF Malloc, HasRoom
<1>2. a \in FreeCells /\ FreeCells \subseteq Cells
  BY <1>1, ReachClosed DEF FreeCells
<1>3. FreeCells' = FreeCells \ {a}
  BY <1>1, ReachUnlink DEF FreeCells, IInv, NoReturn
<1>4. owner[a] = 0
  BY <1>1, <1>2 DEF IInv, TypeOK, HeldNotOnList, Held
<1>5. owner' = [owner EXCEPT ![a] = 1]
  BY <1>1, <1>4 DEF Malloc, IInv, TypeOK
<1>6. Held' = Held \cup {a}
  BY <1>1, <1>5 DEF Held, IInv, TypeOK
<1> QED
  BY <1>2, <1>3, <1>5, <1>6

LEMMA MallocInvariant == IInv /\ Malloc => IInv'
<1> SUFFICES ASSUME IInv, Malloc PROVE IInv'
  OBVIOUS
<1> DEFINE a == next_free_location
<1>1. a \in Cells /\ flist' = flist /\ next_free_location' = flist[a]
  BY DEF Malloc, HasRoom
<1>2. a \in FreeCells /\ FreeCells \subseteq Cells
  BY MallocCells
<1>3. FreeCells' = FreeCells \ {a}
  BY MallocCells
<1>5. owner' = [owner EXCEPT ![a] = 1]
  BY MallocCells
<1>6. Held' = Held \cup {a}
  BY MallocCells
<1>7. TypeOK'
  BY <1>1, <1>5, HeapSizeAssumption DEF IInv, TypeOK, LinkInv, Cells, Links, FirstCell
<1>8. HeadInv'
  BY <1>1, <1>2 DEF IInv, LinkInv, HeadInv
<1>9. LinkInv' /\ NoSharing'
  BY <1>1, <1>3 DEF IInv, LinkInv, NoSharing
<1>10. NoReturn'
  BY <1>1, <1>2, <1>3 DEF IInv, NoSharing, NoReturn
<1>11. FirstCellKnown'
  BY <1>3, <1>6 DEF IInv, FirstCellKnown
<1>12. HeldNotOnList'
  BY <1>3, <1>6 DEF IInv, HeldNotOnList
<1>13. NoDoubleAllocation'
  BY <1>1, <1>5 DEF IInv, TypeOK, NoDoubleAllocation
<1> QED
  BY <1>7, <1>8, <1>9, <1>10, <1>11, <1>12, <1>13 DEF IInv

(* free: a held cell becomes the head of the list.                         *)
LEMMA FreeCellsStep ==
  ASSUME NEW c \in Cells, IInv, Free(c)
  PROVE  /\ owner[c] = 1
         /\ owner' = [owner EXCEPT ![c] = 0]
         /\ c \notin FreeCells
         /\ FreeCells' = FreeCells \cup {c}
         /\ Held' = Held \ {c}
<1>1. /\ flist' = [flist EXCEPT ![c] = next_free_location]
      /\ next_free_location' = c
      /\ owner[c] = 1
  BY DEF Free, IInv, TypeOK, NoDoubleAllocation
<1>2. owner' = [owner EXCEPT ![c] = 0]
  BY <1>1 DEF Free, IInv, TypeOK
<1>3. c \notin FreeCells
  BY <1>1 DEF IInv, HeldNotOnList, Held
<1>4. FreeCells' = FreeCells \cup {c}
  <2>1. /\ flist'[c] = next_free_location
        /\ \A x \in Cells : x # c => flist'[x] = flist[x]
    BY <1>1, HeapSizeAssumption DEF IInv, TypeOK, Cells, Links, FirstCell
  <2>2. c \notin Reach(flist, next_free_location)
    BY <1>3 DEF FreeCells
  <2>3. Reach(flist', c) = Reach(flist, next_free_location) \cup {c}
    <3> DEFINE f == flist
               g == flist'
               h == next_free_location
    <3>1. /\ g[c] = h /\ c \notin Reach(f, h)
          /\ \A x \in Cells : x # c => g[x] = f[x]
      BY <2>1, <2>2
    <3> HIDE DEF f, g, h
    <3>2. Reach(g, c) = Reach(f, h) \cup {c}
      BY <3>1, ReachPush
    <3> QED
      BY <3>2 DEF f, g, h
  <2> QED
    BY <1>1, <2>3 DEF FreeCells
<1>6. Held' = Held \ {c}
  BY <1>2 DEF Held, IInv, TypeOK
<1> QED
  BY <1>1, <1>2, <1>3, <1>4, <1>6

LEMMA FreeInvariant ==
  ASSUME NEW c \in Cells, IInv, Free(c)
  PROVE  IInv'
<1>1. /\ flist' = [flist EXCEPT ![c] = next_free_location]
      /\ next_free_location' = c
  BY DEF Free
<1>2. owner' = [owner EXCEPT ![c] = 0]
  BY FreeCellsStep
<1>3. c \notin FreeCells
  BY FreeCellsStep
<1>4. FreeCells' = FreeCells \cup {c}
  BY FreeCellsStep
<1>5. FreeCells \subseteq Cells
  BY ReachClosed DEF FreeCells
<1>6. Held' = Held \ {c}
  BY FreeCellsStep
<1>7. TypeOK'
  <2>1. flist' \in [Links -> Nat]
    BY <1>1 DEF IInv, TypeOK
  <2>2. owner' \in [Cells -> Nat]
    BY <1>2 DEF IInv, TypeOK
  <2>3. c \in Nat
    BY HeapSizeAssumption DEF Cells, FirstCell
  <2> QED
    BY <1>1, <2>1, <2>2, <2>3 DEF TypeOK
<1>8. /\ flist'[c] = next_free_location
      /\ \A x \in FreeCells : flist'[x] = flist[x]
  BY <1>1, <1>3, <1>5, HeapSizeAssumption
     DEF IInv, TypeOK, Cells, Links, FirstCell
<1>9. HeadInv'
  BY <1>1 DEF HeadInv
<1>10. LinkInv'
  BY <1>4, <1>8 DEF IInv, LinkInv, HeadInv
<1>11. NoSharing'
  BY <1>4, <1>8 DEF IInv, NoSharing, NoReturn
<1>12. NoReturn'
  <2>1. c # End
    BY HeapSizeAssumption DEF Cells, End, FirstCell
  <2>2. next_free_location \in Cells => next_free_location \in FreeCells
    BY ReachClosed DEF FreeCells
  <2>3. \A x \in FreeCells : flist[x] \in Cells => flist[x] \in FreeCells
    BY ReachClosed DEF FreeCells, Closed
  <2> QED
    BY <1>1, <1>3, <1>4, <1>8, <2>1, <2>2, <2>3 DEF IInv, NoReturn, LinkInv, HeadInv
<1>13. FirstCellKnown' /\ HeldNotOnList'
  BY <1>4, <1>6 DEF IInv, FirstCellKnown, HeldNotOnList
<1>14. NoDoubleAllocation'
  BY <1>2 DEF IInv, TypeOK, NoDoubleAllocation
<1> QED
  BY <1>7, <1>9, <1>10, <1>11, <1>12, <1>13, <1>14 DEF IInv

(* Restart: nothing is held, so cell 1 is on the list; the new list is the *)
(* part of the old one from cell 1 on.                                     *)
LEMMA RestartInvariant == IInv /\ Restart => IInv'
<1> SUFFICES ASSUME IInv, Restart PROVE IInv'
  OBVIOUS
<1>1. /\ next_free_location' = FirstCell
      /\ flist' = flist /\ owner' = owner
  BY DEF Restart
<1>2. FirstCell \in FreeCells /\ Held' = {}
  BY <1>1 DEF Restart, IInv, FirstCellKnown, Held
<1>3. /\ FreeCells' \subseteq FreeCells
      /\ \A x \in FreeCells' : flist[x] # FirstCell
  BY <1>1, <1>2, ReachSuffix DEF FreeCells, IInv, NoSharing, NoReturn
<1>4. FirstCell \in Cells
  BY HeapSizeAssumption DEF Cells, FirstCell
<1>5. TypeOK' /\ HeadInv'
  BY <1>1, <1>4 DEF IInv, TypeOK, HeadInv, FirstCell
<1>6. LinkInv' /\ NoSharing' /\ NoReturn'
  BY <1>1, <1>3 DEF IInv, LinkInv, NoSharing, NoReturn
<1>7. FirstCellKnown'
  BY <1>1, <1>4, ReachClosed DEF FirstCellKnown, FreeCells
<1>8. HeldNotOnList' /\ NoDoubleAllocation'
  BY <1>1, <1>2 DEF IInv, HeldNotOnList, NoDoubleAllocation
<1> QED
  BY <1>5, <1>6, <1>7, <1>8 DEF IInv

LEMMA StutterInvariant == IInv /\ UNCHANGED vars => IInv'
BY DEF vars, IInv, TypeOK, HeadInv, LinkInv, NoSharing, NoReturn,
       FirstCellKnown, HeldNotOnList, NoDoubleAllocation, FreeCells, Held

(* The inductive invariant holds in every state, for every heap size.      *)
THEOREM Invariance == Spec => []IInv
<1>1. IInv /\ [Next]_vars => IInv'
  BY MallocInvariant, FreeInvariant, RestartInvariant, StutterInvariant DEF Next
<1> QED
  BY InitInvariant, <1>1, PTL DEF Spec

(* malloc (dyn_mem_alloc.h) never hands out a cell that is still held.     *)
THEOREM MallocIsExclusive == Spec => []NoDoubleAllocation
<1>1. IInv => NoDoubleAllocation
  BY DEF IInv
<1> QED
  BY Invariance, <1>1, PTL

(* No held cell is on the list that malloc walks.                          *)
THEOREM ListIsDisjoint == Spec => []HeldNotOnList
<1>1. IInv => HeldNotOnList
  BY DEF IInv
<1> QED
  BY Invariance, <1>1, PTL

(* malloc and free lose no cell: a cell leaves both the list and the       *)
(* holders only when filter is called again.                               *)
THEOREM LeaksOnlyAtRestart == Spec => OnlyRestartLeaks
<1>1. IInv /\ [Next]_vars => [Leaked' # Leaked => Restart]_vars
  <2> SUFFICES ASSUME IInv, [Next]_vars, ~Restart
               PROVE  Leaked' = Leaked
    OBVIOUS
  <2>1. CASE Malloc
    BY <2>1, MallocCells DEF Leaked
  <2>2. ASSUME NEW c \in Cells, Free(c)
        PROVE  Leaked' = Leaked
    <3>1. c \in Held
      BY <2>2, FreeCellsStep DEF Held
    <3> QED
      BY <2>2, <3>1, FreeCellsStep DEF Leaked
  <2>3. CASE UNCHANGED vars
    BY <2>3 DEF vars, Leaked, Held, FreeCells
  <2> QED
    BY <2>1, <2>2, <2>3 DEF Next
<1> QED
  BY Invariance, <1>1, PTL DEF Spec, OnlyRestartLeaks

------------------------------------------------------------------------------
(* The row of the abstract pool.                                           *)

(* A list consists of its head and the list behind the head.               *)
LEMMA ReachStep ==
  ASSUME NEW f, NEW h \in Cells
  PROVE  Reach(f, h) = {h} \cup Reach(f, f[h])
<1> DEFINE T == Reach(f, f[h])
<1>1. Reach(f, h) \subseteq {h} \cup T
  <2>1. {h} \cup T \in SUBSET Cells
    BY ReachClosed
  <2>2. Closed(f, {h} \cup T)
    BY ReachClosed DEF Closed
  <2> QED BY <2>1, <2>2, ReachMinimal
<1>2. T \subseteq Reach(f, h)
  <2>1. f[h] \in Cells => f[h] \in Reach(f, h)
    BY ReachClosed DEF Closed
  <2> QED BY <2>1, ReachClosed, ReachMinimal
<1> QED BY <1>1, <1>2, ReachClosed

(* A store to a cell that is not on a list does not change the list.       *)
LEMMA ReachSame ==
  ASSUME NEW f, NEW g, NEW h,
         \A x \in Reach(f, h) : g[x] = f[x]
  PROVE  Reach(g, h) = Reach(f, h)
<1> DEFINE R == Reach(f, h)
           T == Reach(g, h)
<1>1. T \subseteq R
  <2>1. Closed(g, R)
    BY ReachClosed DEF Closed
  <2> QED BY <2>1, ReachClosed, ReachMinimal
<1>2. R \subseteq T
  <2>1. Closed(f, T)
    BY <1>1, ReachClosed DEF Closed
  <2> QED BY <2>1, ReachClosed, ReachMinimal
<1> QED BY <1>1, <1>2

(* At the start the cells behind a cell are those with a larger address: a *)
(* first one that the list misses would be linked from the one before it.  *)
LEMMA InitialRow ==
  ASSUME NEW h \in FirstCell .. End
  PROVE  Reach(InitFlist, h) = {d \in Cells : d >= h}
<1> USE HeapSizeAssumption DEF Cells, Links, End, FirstCell
<1> DEFINE R == Reach(InitFlist, h)
           Row == {d \in Cells : d >= h}
<1>1. \A c \in Cells : InitFlist[c] = c + 1
  BY DEF InitFlist
<1>2. R \subseteq Row
  <2>1. Closed(InitFlist, Row)
    BY <1>1 DEF Closed
  <2> QED BY <2>1, ReachMinimal
<1>3. ASSUME Row \ R # {} PROVE FALSE
  <2>1. Row \ R \subseteq Nat
    OBVIOUS
  <2>2. PICK m \in Row \ R : \A d \in Row \ R : ~(<<d, m>> \in OpToRel(<, Nat))
    BY <1>3, <2>1, NatLessThanWellFounded, WFMin, Zenon
  <2>3. m \in Cells /\ m \notin R /\ m >= h /\ m # h
    BY <2>2, ReachClosed
  <2>4. m - 1 \in Cells /\ m - 1 >= h /\ m - 1 \in Nat /\ m \in Nat /\ m - 1 < m
    <3> HIDE DEF R
    <3> QED BY <2>3
  <2>5. <<m - 1, m>> \in OpToRel(<, Nat)
    BY <2>4 DEF OpToRel
  <2>6. m - 1 \in R
    BY <2>2, <2>4, <2>5
  <2>7. InitFlist[m - 1] = m
    BY <1>1, <2>4
  <2>8. m \in R
    <3>1. Closed(InitFlist, R)
      BY ReachClosed
    <3> HIDE DEF R
    <3> QED BY <2>3, <2>6, <2>7, <3>1 DEF Closed
  <2> QED BY <2>3, <2>8
<1> QED BY <1>2, <1>3

(* The initial list is the initial row.                                    *)
LEMMA PoolInit == Init => Pool!Init
<1> SUFFICES ASSUME Init PROVE Pool!Init
  OBVIOUS
<1> USE HeapSizeAssumption DEF Cells, FirstCell, End
<1>1. flist = InitFlist /\ next_free_location = FirstCell /\ Held = {}
  BY DEF Init, Held
<1>2. FreeCells = Cells
  <2>1. Reach(InitFlist, FirstCell) = {d \in Cells : d >= FirstCell}
    BY InitialRow
  <2>2. {d \in Cells : d >= FirstCell} = Cells
    OBVIOUS
  <2> QED BY <1>1, <2>1, <2>2 DEF FreeCells
<1>3. \A c \in Cells : Reach(InitFlist, InitFlist[c]) = {d \in Cells : d > c}
  <2> SUFFICES ASSUME NEW c \in Cells
               PROVE  Reach(InitFlist, InitFlist[c]) = {d \in Cells : d > c}
    OBVIOUS
  <2>1. InitFlist[c] = c + 1 /\ c + 1 \in FirstCell .. End
    BY DEF InitFlist, Links
  <2>2. Reach(InitFlist, c + 1) = {d \in Cells : d >= c + 1}
    BY <2>1, InitialRow
  <2> QED BY <2>1, <2>2
<1>4. Behind = [c \in Cells |-> {d \in Cells : d > c}]
  BY <1>1, <1>2, <1>3 DEF Behind
<1> QED BY <1>1, <1>2, <1>4 DEF Pool!Init

(* malloc takes the cell in front, which has all others behind it.         *)
LEMMA PoolAcquire == IInv /\ Malloc => Pool!Acquire
<1> SUFFICES ASSUME IInv, Malloc PROVE Pool!Acquire
  OBVIOUS
<1> DEFINE a == next_free_location
<1>1. /\ a \in Cells /\ a \in FreeCells
      /\ flist' = flist
      /\ FreeCells' = FreeCells \ {a}
      /\ Held' = Held \cup {a}
  BY MallocCells DEF Malloc, HasRoom
<1>2. Behind[a] = FreeCells \ {a}
  BY <1>1, ReachUnlink DEF Behind, FreeCells, IInv, NoReturn
<1>3. Behind' = [d \in FreeCells \ {a} |-> Behind[d]]
  BY <1>1 DEF Behind
<1> QED
  BY <1>1, <1>2, <1>3 DEF Pool!Acquire, Pool!Front, Pool!Shorten

(* free puts the cell in front; the rows behind the others are untouched,  *)
(* as the one word it stores to is that of a held cell.                    *)
LEMMA PoolRelease ==
  ASSUME NEW c \in Cells, IInv, Free(c)
  PROVE  Pool!Release
<1>1. /\ c \in Held /\ c \notin FreeCells
      /\ FreeCells' = FreeCells \cup {c}
      /\ Held' = Held \ {c}
  BY FreeCellsStep DEF Held
<1>2. /\ flist'[c] = next_free_location
      /\ \A x \in Cells : x # c => flist'[x] = flist[x]
  BY HeapSizeAssumption DEF Free, IInv, TypeOK, Cells, Links, FirstCell
<1>3. FreeCells \subseteq Cells
  BY ReachClosed DEF FreeCells
<1>4. \A h : Reach(flist, h) \subseteq FreeCells => Reach(flist', h) = Reach(flist, h)
  BY <1>1, <1>2, <1>3, ReachSame
<1>5. Reach(flist', flist'[c]) = FreeCells
  BY <1>2, <1>4 DEF FreeCells
<1>6. ASSUME NEW d \in FreeCells
      PROVE  Reach(flist', flist'[d]) = Behind[d]
  <2>1. flist'[d] = flist[d]
    BY <1>1, <1>2, <1>3, <1>6
  <2>2. Reach(flist, flist[d]) \subseteq FreeCells
    BY <1>6, ReachClosed, ReachMinimal DEF FreeCells, Closed
  <2> QED BY <1>4, <2>1, <2>2 DEF Behind
<1>7. Behind' = [d \in FreeCells \cup {c} |-> IF d = c THEN FreeCells ELSE Behind[d]]
  BY <1>1, <1>5, <1>6 DEF Behind
<1> QED
  BY <1>1, <1>7 DEF Pool!Release

(* A restart drops what is in front of cell 1.                             *)
LEMMA PoolStartOver == IInv /\ Restart => Pool!StartOver
<1> SUFFICES ASSUME IInv, Restart PROVE Pool!StartOver
  OBVIOUS
<1>1. /\ next_free_location' = FirstCell
      /\ flist' = flist /\ owner' = owner /\ Held = {}
  BY DEF Restart
<1>2. FirstCell \in FreeCells /\ Held' = Held
  BY <1>1 DEF IInv, FirstCellKnown, Held
<1>3. FirstCell \in Cells
  BY HeapSizeAssumption DEF Cells, FirstCell
<1>4. FreeCells' = {FirstCell} \cup Behind[FirstCell]
  BY <1>1, <1>2, <1>3, ReachStep DEF FreeCells, Behind
<1>5. FreeCells' \subseteq FreeCells
  BY <1>1, <1>2, <1>3, ReachClosed, ReachMinimal DEF FreeCells
<1>6. Behind' = [d \in FreeCells' |-> Behind[d]]
  BY <1>1, <1>5 DEF Behind
<1> QED
  BY <1>1, <1>2, <1>4, <1>6 DEF Pool!StartOver, Pool!Shorten

(* Every step of malloc, free and the restart is a step of the abstract    *)
(* pool or leaves it unchanged: cells are handed out last freed first, and *)
(* a new call of filter finds cell 1 and what was behind it.               *)
THEOREM Refinement == Spec => ImplementsPool
<1>1. IInv /\ [Next]_vars => [Pool!Next]_(Pool!vars)
  <2> SUFFICES ASSUME IInv, [Next]_vars PROVE [Pool!Next]_(Pool!vars)
    OBVIOUS
  <2>1. CASE Malloc
    BY <2>1, PoolAcquire DEF Pool!Next
  <2>2. ASSUME NEW c \in Cells, Free(c)
        PROVE  Pool!Next
    BY <2>2, PoolRelease DEF Pool!Next
  <2>3. CASE Restart
    BY <2>3, PoolStartOver DEF Pool!Next
  <2>4. CASE UNCHANGED vars
    BY <2>4 DEF vars, Pool!vars, Held, FreeCells, Behind
  <2> QED
    BY <2>1, <2>2, <2>3, <2>4 DEF Next
<1> QED
  BY Invariance, PoolInit, <1>1, PTL DEF Spec, ImplementsPool, Pool!Spec

==============================================================================
