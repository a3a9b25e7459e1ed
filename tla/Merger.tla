-------------------------------- MODULE Merger --------------------------------
(***************************************************************************)
(* The merger kernel (merger_top.cpp): four instances of sorted_insert     *)
(* turn four input streams into sorted linked lists, at the same time and  *)
(* each in a heap of its own; then delete_smallest takes the smallest head *)
(* of the four lists until all are empty.                                  *)
(*                                                                         *)
(* A step is one pass of a loop: a value read and its record allocated,    *)
(* one move along a list, the stores that link the record in, one call of  *)
(* delete_smallest.  Keys are a range of integers that ends in MAX_K.      *)
(***************************************************************************)
EXTENDS FreeLists, Sequences, Bags, FiniteSets, FiniteSetsExt

CONSTANTS
  N,                    \* values per input stream
  MinKey, MAX_K,        \* least and largest key: INT_MIN and INT_MAX
  Inputs,               \* the input keys that occur, within MinKey .. MAX_K
  OutputBound           \* emitted values after which the model stops

ASSUME MergerAssumption ==
  /\ Kernels \subseteq Nat /\ Kernels # {} /\ IsFiniteSet(Kernels)
  /\ N \in Nat
  /\ MinKey \in Int /\ MAX_K \in Int /\ MinKey <= MAX_K
  /\ Inputs \subseteq MinKey .. MAX_K
  /\ OutputBound \in Nat

VARIABLES
  val_r,                \* input stream of each instance
  taken,                \* values already read from it
  pc, l, prev,          \* sorted_insert: control and its two list pointers
  new_record,           \* the record being inserted
  data_bus,             \* heap memories: records with key k and successor n
  queue,                \* head of each list
  val_w                 \* the output stream

insert == <<taken, pc, l, prev, new_record>>
vars == <<heap, val_r, insert, data_bus, queue, val_w>>

NoKernel == -1
Record == [k : MinKey .. MAX_K, n : Links \cup {HeapSize}]
Blank == [k |-> MinKey, n |-> NULL_PTR]

TypeOK ==
  /\ HeapTypeOK
  /\ val_r \in [Kernels -> [1 .. N -> Inputs]]
  /\ taken \in [Kernels -> 0 .. N]
  /\ pc \in [Kernels -> {"next", "walk"}]
  /\ l \in [Kernels -> Links] /\ prev \in [Kernels -> Links]
  /\ new_record \in [Kernels -> Links]
  /\ \A p \in Kernels : taken[p] > 0 => new_record[p] \in Cells
  /\ data_bus \in [Kernels -> [Links -> Record]]
  /\ queue \in [Kernels -> Links]
  /\ val_w \in Seq(MinKey .. MAX_K)

Init ==
  /\ HeapInit
  /\ val_r \in [Kernels -> [1 .. N -> Inputs]]
  /\ taken = [p \in Kernels |-> 0]
  /\ pc = [p \in Kernels |-> "next"]
  /\ l = [p \in Kernels |-> NULL_PTR]
  /\ prev = [p \in Kernels |-> NULL_PTR]
  /\ new_record = [p \in Kernels |-> NULL_PTR]
  /\ data_bus = [p \in Kernels |-> [c \in Links |-> Blank]]
  /\ queue = [p \in Kernels |-> NULL_PTR]
  /\ val_w = <<>>

------------------------------------------------------------------------------
(* sorted_insert: the new record, last of its list so far; it is the list  *)
(* if there was none.                                                      *)
Key(p) == val_r[p][taken[p]]

NewRecord(p) ==
  /\ pc[p] = "next" /\ taken[p] < N
  /\ taken' = [taken EXCEPT ![p] = @ + 1]
  /\ Malloc(p)
  /\ LET c == next_free_location[p]
     IN  /\ new_record' = [new_record EXCEPT ![p] = c]
         /\ data_bus' = [data_bus EXCEPT ![p][c] =
                           [k |-> val_r[p][taken[p] + 1], n |-> NULL_PTR]]
         /\ queue' = IF queue[p] = NULL_PTR THEN [queue EXCEPT ![p] = c] ELSE queue
  /\ pc' = IF queue[p] = NULL_PTR THEN pc ELSE [pc EXCEPT ![p] = "walk"]
  /\ l' = [l EXCEPT ![p] = queue[p]]
  /\ prev' = [prev EXCEPT ![p] = NULL_PTR]
  /\ UNCHANGED <<val_r, val_w>>

(* The walk passes the records whose key is not larger than the new one;   *)
(* in the slip it passes them all.                                         *)
Here(p) == data_bus[p][l[p]]
GoesAfterAny(p) == Here(p).k <= MAX_K
GoesAfter(p) == Here(p).k <= Key(p)

Walk(p) ==
  /\ pc[p] = "walk"
  /\ Here(p).n # NULL_PTR /\ GoesAfter(p)
  /\ prev' = [prev EXCEPT ![p] = l[p]]
  /\ l' = [l EXCEPT ![p] = Here(p).n]
  /\ UNCHANGED <<heap, val_r, taken, pc, new_record, data_bus, queue, val_w>>

Inserted(p) ==
  /\ pc[p] = "walk"
  /\ pc' = [pc EXCEPT ![p] = "next"]
  /\ UNCHANGED <<heap, val_r, taken, l, prev, new_record, val_w>>

InsertLast(p) ==
  /\ Inserted(p)
  /\ Here(p).n = NULL_PTR /\ GoesAfter(p)
  /\ data_bus' = [data_bus EXCEPT ![p][l[p]].n = new_record[p]]
  /\ UNCHANGED queue

InsertFirst(p) ==
  /\ Inserted(p)
  /\ ~GoesAfter(p) /\ prev[p] = NULL_PTR
  /\ data_bus' = [data_bus EXCEPT ![p][new_record[p]].n = queue[p]]
  /\ queue' = [queue EXCEPT ![p] = new_record[p]]

(* Slips: the store into the predecessor forgotten; the new record linked  *)
(* back to its predecessor.                                                *)
LinkOneWay(p) == [data_bus EXCEPT ![p][new_record[p]].n = l[p]]
LinkBack(p) ==
  [data_bus EXCEPT ![p][prev[p]].n = new_record[p], ![p][new_record[p]].n = prev[p]]
LinkBetween(p) ==
  [data_bus EXCEPT ![p][prev[p]].n = new_record[p], ![p][new_record[p]].n = l[p]]

InsertBetween(p) ==
  /\ Inserted(p)
  /\ ~GoesAfter(p) /\ prev[p] # NULL_PTR
  /\ data_bus' = LinkBetween(p)
  /\ UNCHANGED queue

------------------------------------------------------------------------------
(* delete_smallest, once all inputs are in.  min_k starts at MAX_K and is  *)
(* only replaced by a smaller key: when every head is MAX_K, min_idx is    *)
(* never written and holds anything, any of the lists or none.             *)
Inserting == \E p \in Kernels : taken[p] < N \/ pc[p] = "walk"
Heads == {p \in Kernels : queue[p] # NULL_PTR}
HeadKey(p) == data_bus[p][queue[p]].k
Below == {p \in Heads : HeadKey(p) < MAX_K}

(* The slip takes the first list that is not empty.                        *)
FirstHead(p) == \A q \in Below : p <= q
Smallest(p) ==
  \A q \in Below : HeadKey(p) < HeadKey(q) \/ (HeadKey(p) = HeadKey(q) /\ p <= q)
MinIdx ==
  IF Below = {} THEN Kernels \cup {NoKernel} ELSE {p \in Below : Smallest(p)}

DeleteSmallest ==
  /\ ~Inserting /\ Heads # {}
  /\ Len(val_w) < OutputBound
  /\ val_w' = Append(val_w, IF Below = {} THEN MAX_K
                            ELSE Min({HeadKey(p) : p \in Below}))
  /\ \E p \in MinIdx :
       IF p = NoKernel THEN UNCHANGED <<heap, queue>>
       ELSE /\ queue' = [queue EXCEPT ![p] = data_bus[p][@].n]
            /\ Free(p, queue[p])
  /\ UNCHANGED <<val_r, insert, data_bus>>

Next ==
  \/ \E p \in Kernels :
       NewRecord(p) \/ Walk(p) \/ InsertLast(p) \/ InsertFirst(p) \/ InsertBetween(p)
  \/ DeleteSmallest

Spec == Init /\ [][Next]_vars
FairSpec == Spec /\ WF_vars(Next)

------------------------------------------------------------------------------
Held(p) == {c \in Cells : owner[p][c] > 0}

(* s is p's list: its cells in the order of the links, which is also that  *)
(* of the keys.                                                            *)
IsList(p, s) ==
  /\ queue[p] = IF DOMAIN s = {} THEN NULL_PTR ELSE s[1]
  /\ \A i \in DOMAIN s :
       data_bus[p][s[i]].n = IF i + 1 \in DOMAIN s THEN s[i + 1] ELSE NULL_PTR
  /\ \A i, j \in DOMAIN s : i < j => data_bus[p][s[i]].k <= data_bus[p][s[j]].k

(* Between two insertions a list is sorted, ends in the null pointer and   *)
(* passes through each cell its instance holds, once: no record is lost,   *)
(* shared or left in a cycle by the stores that link it in.                *)
ListsWellFormed ==
  \A p \in Kernels : pc[p] = "next" =>
    \E s \in [1 .. Cardinality(Held(p)) -> Held(p)] :
      /\ Held(p) = {s[i] : i \in DOMAIN s}
      /\ IsList(p, s)

(* What is still to come out: the keys in the lists and those not read.    *)
Pending ==
  UNION {{<<"list", p, c>> : c \in Held(p)} \cup {<<"input", p, i>> : i \in taken[p] + 1 .. N}
           : p \in Kernels}
KeyOf(x) == IF x[1] = "list" THEN data_bus[x[2]][x[3]].k ELSE val_r[x[2]][x[3]]
Remaining ==
  [k \in {KeyOf(x) : x \in Pending} |-> Cardinality({x \in Pending : KeyOf(x) = k})]

(* The kernel emits what came in, in sorted order: each step of it either  *)
(* leaves keys and output alone or emits a smallest key that is left.      *)
Stream == INSTANCE SortedStream WITH remaining <- Remaining, emitted <- val_w
ImplementsSortedStream == Stream!Spec

(* Each instance uses its free list as FreeList asks of a client: it frees *)
(* only cells it holds and never allocates from an exhausted heap, even in *)
(* a heap with no cell to spare.                                           *)
UsesFreeList ==
  /\ \A p \in Kernels : List(p)!Init
  /\ [][\A p \in Kernels : List(p)!Next \/ UNCHANGED List(p)!vars]_heap

(* All values come out and every list is empty in the end.                 *)
Terminates == <>(~Inserting /\ Heads = {})

==============================================================================
