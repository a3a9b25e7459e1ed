----------------------------- MODULE MergerProofs -----------------------------
(***************************************************************************)
(* Proofs about the merger kernel, for every number of instances and of    *)
(* values, every set of keys and every size of the heaps: the linked lists *)
(* are sorted and lose no record, the free lists are used as they must be, *)
(* and what comes out is what went in, in order.                           *)
(***************************************************************************)
EXTENDS Merger, FunctionTheorems, FiniteSetTheorems, TLAPS

(* The heaps have a cell for each value, and INT_MAX is no key: without    *)
(* the first malloc runs out, without the second min_idx is not written.   *)
RoomForAll == N < HeapSize
KeysBelowMax == MAX_K \notin Inputs

(* A list as a function from its places: cells, each once, each linked to  *)
(* the next and the last to none, keys in order.  d is the memory that the *)
(* records are in, h the head.                                             *)
Chained(d, h, s, n) ==
  /\ s \in [1 .. n -> Cells]
  /\ \A i, j \in 1 .. n : s[i] = s[j] => i = j
  /\ h = IF n = 0 THEN NULL_PTR ELSE s[1]
  /\ \A i \in 1 .. n : d[s[i]].n = IF i < n THEN s[i + 1] ELSE NULL_PTR
  /\ \A i, j \in 1 .. n : i < j => d[s[i]].k <= d[s[j]].k
Members(s, n) == {s[i] : i \in 1 .. n}

(* While sorted_insert walks, its new record is held but not in the list   *)
(* yet; l and prev are neighbours in it, and the keys up to prev are not   *)
(* larger than the new one.                                                *)
InList(p) == IF pc[p] = "walk" THEN Held(p) \ {new_record[p]} ELSE Held(p)
WalkAt(p, s, n) ==
  /\ new_record[p] \in Held(p) /\ taken[p] > 0
  /\ data_bus[p][new_record[p]] = [k |-> Key(p), n |-> NULL_PTR]
  /\ \E i \in 1 .. n :
       /\ l[p] = s[i]
       /\ prev[p] = IF i = 1 THEN NULL_PTR ELSE s[i - 1]
       /\ i > 1 => data_bus[p][s[i - 1]].k <= Key(p)
ListInv(p) ==
  \E n \in Nat : \E s \in [1 .. n -> Cells] :
    /\ Chained(data_bus[p], queue[p], s, n)
    /\ Members(s, n) = InList(p)
    /\ pc[p] = "walk" => WalkAt(p, s, n)

(* Records that are held hold input keys.                                  *)
KeysInv(p) == \A c \in Held(p) : data_bus[p][c].k \in Inputs

(* Nothing is freed before all values are in: until then the cells are     *)
(* handed out from the first on.                                           *)
HeapInv(p) ==
  /\ \A c \in Cells : owner[p][c] \in {0, 1}
  /\ taken[p] < N =>
       /\ next_free_location[p] = taken[p] + 1
       /\ flist[p] = [i \in Links |-> i + 1]
       /\ \A c \in Cells : owner[p][c] = IF c <= taken[p] THEN 1 ELSE 0

IInv ==
  /\ TypeOK
  /\ \A p \in Kernels : ListInv(p) /\ KeysInv(p) /\ HeapInv(p)

------------------------------------------------------------------------------
(* Lists.                                                                  *)

(* Stores that turn memory d and head h into e and g and link a new cell   *)
(* in before place i, or behind the last: they leave the keys alone, the   *)
(* new key fits there, its link leads on and that of its predecessor to it.*)
Spliced(d, h, e, g, s, n, i, c) ==
  /\ i \in 1 .. n + 1
  /\ c \notin Members(s, n)
  /\ \A j \in 1 .. n : e[s[j]].k = d[s[j]].k
  /\ \A j \in 1 .. n : e[s[j]].n = IF j = i - 1 THEN c ELSE d[s[j]].n
  /\ e[c].n = IF i = n + 1 THEN NULL_PTR ELSE s[i]
  /\ \A j \in 1 .. n : j < i => d[s[j]].k <= e[c].k
  /\ \A j \in 1 .. n : j >= i => e[c].k <= d[s[j]].k
  /\ g = IF i = 1 THEN c ELSE h

(* What they leave is the list with the cell in it.                        *)
LEMMA InsertChained ==
  ASSUME NEW n \in Nat, NEW s, NEW d, NEW h, Chained(d, h, s, n),
         NEW i, NEW c \in Cells, NEW e, NEW g, Spliced(d, h, e, g, s, n, i, c),
         \A x \in Cells : d[x].k \in Int /\ e[x].k \in Int
  PROVE  \E t \in [1 .. n + 1 -> Cells] :
           Chained(e, g, t, n + 1) /\ Members(t, n + 1) = Members(s, n) \cup {c}
<1> USE DEF Spliced
<1> DEFINE t == [j \in 1 .. n + 1 |-> IF j < i THEN s[j] ELSE IF j = i THEN c ELSE s[j - 1]]
<1>1. /\ s \in [1 .. n -> Cells]
      /\ \A j, m \in 1 .. n : s[j] = s[m] => j = m
      /\ h = IF n = 0 THEN NULL_PTR ELSE s[1]
      /\ \A j \in 1 .. n : d[s[j]].n = IF j < n THEN s[j + 1] ELSE NULL_PTR
      /\ \A j, m \in 1 .. n : j < m => d[s[j]].k <= d[s[m]].k
      /\ \A j \in 1 .. n : s[j] # c
  BY DEF Chained, Members
<1>2. /\ t \in [1 .. n + 1 -> Cells]
      /\ \A j \in 1 .. n + 1 : j < i => j \in 1 .. n /\ t[j] = s[j]
      /\ t[i] = c
      /\ \A j \in 1 .. n + 1 : j > i => j - 1 \in 1 .. n /\ t[j] = s[j - 1]
  BY <1>1
<1> HIDE DEF t
<1>3. \A j \in 1 .. n + 1 : j < i \/ j = i \/ j > i
  OBVIOUS
<1>4. \A j, m \in 1 .. n + 1 : t[j] = t[m] => j = m
  BY <1>1, <1>2, <1>3
<1>5. g = t[1]
  BY <1>1, <1>2
<1>6. ASSUME NEW j \in 1 .. n + 1
      PROVE  e[t[j]].n = IF j < n + 1 THEN t[j + 1] ELSE NULL_PTR
  <2>1. CASE j < i
    <3>1. j \in 1 .. n /\ t[j] = s[j] /\ j + 1 \in 1 .. n + 1
      BY <1>2, <2>1
    <3>2. CASE j + 1 = i
      BY <1>2, <3>1, <3>2
    <3>3. CASE j + 1 < i
      BY <1>1, <1>2, <3>1, <3>3
    <3>4. QED
      BY <2>1, <3>2, <3>3
  <2>2. CASE j = i
    BY <1>2, <2>2
  <2>3. CASE j > i
    <3>1. j - 1 \in 1 .. n /\ t[j] = s[j - 1] /\ j - 1 # i - 1
      BY <1>2, <2>3
    <3>2. e[t[j]].n = d[s[j - 1]].n
      BY <3>1
    <3>3. j < n + 1 => t[j + 1] = s[j] /\ s[j] = s[(j - 1) + 1]
      BY <1>2, <2>3
    <3>4. QED
      BY <1>1, <3>1, <3>2, <3>3
  <2>4. QED
    BY <2>1, <2>2, <2>3
<1>7. ASSUME NEW j \in 1 .. n + 1, NEW m \in 1 .. n + 1, j < m
      PROVE  e[t[j]].k <= e[t[m]].k
  <2>1. CASE m < i
    BY <1>1, <1>2, <1>7, <2>1
  <2>2. CASE m = i
    BY <1>2, <1>7, <2>2
  <2>3. CASE m > i /\ j < i
    <3>1. j \in 1 .. n /\ m - 1 \in 1 .. n /\ t[j] = s[j] /\ t[m] = s[m - 1] /\ j < i /\ i <= m - 1
      BY <1>2, <2>3
    <3>2. j < m - 1
      BY <3>1
    <3>3. QED
      BY <1>1, <3>1, <3>2
  <2>4. CASE m > i /\ j = i
    BY <1>2, <2>4
  <2>5. CASE m > i /\ j > i
    <3>1. j - 1 \in 1 .. n /\ m - 1 \in 1 .. n /\ t[j] = s[j - 1] /\ t[m] = s[m - 1]
      BY <1>2, <2>5
    <3>2. j - 1 < m - 1
      BY <1>7
    <3>3. QED
      BY <1>1, <3>1, <3>2
  <2>6. QED
    BY <2>1, <2>2, <2>3, <2>4, <2>5
<1>8. Members(t, n + 1) = Members(s, n) \cup {c}
  <2>1. Members(t, n + 1) \subseteq Members(s, n) \cup {c}
    BY <1>2, <1>3 DEF Members
  <2>2. ASSUME NEW j \in 1 .. n
        PROVE  s[j] \in Members(t, n + 1)
    <3>1. CASE j < i
      BY <1>2, <3>1 DEF Members
    <3>2. CASE j >= i
      <4>1. j + 1 \in 1 .. n + 1 /\ t[j + 1] = s[j]
        BY <1>2, <3>2
      <4>2. QED
        BY <4>1 DEF Members
    <3>3. QED
      BY <3>1, <3>2
  <2>3. c \in Members(t, n + 1)
    BY <1>2 DEF Members
  <2>4. QED
    BY <2>1, <2>2, <2>3 DEF Members
<1>9. Chained(e, g, t, n + 1)
  BY <1>2, <1>4, <1>5, <1>6, <1>7 DEF Chained
<1>10. QED
  BY <1>2, <1>8, <1>9

(* Taking the first cell off.                                              *)
LEMMA RemoveFirst ==
  ASSUME NEW n \in Nat, NEW s, NEW d, NEW h, Chained(d, h, s, n), n # 0
  PROVE  /\ h \in Cells /\ h \in Members(s, n)
         /\ \A c \in Members(s, n) : d[h].k <= d[c].k \/ c = h
         /\ \E t \in [1 .. n - 1 -> Cells] :
              Chained(d, d[h].n, t, n - 1) /\ Members(t, n - 1) = Members(s, n) \ {h}
<1> DEFINE t == [j \in 1 .. n - 1 |-> s[j + 1]]
<1>1. /\ s \in [1 .. n -> Cells]
      /\ \A j, m \in 1 .. n : s[j] = s[m] => j = m
      /\ h = s[1] /\ 1 \in 1 .. n
      /\ \A j \in 1 .. n : d[s[j]].n = IF j < n THEN s[j + 1] ELSE NULL_PTR
      /\ \A j, m \in 1 .. n : j < m => d[s[j]].k <= d[s[m]].k
  BY DEF Chained
<1>2. /\ t \in [1 .. n - 1 -> Cells]
      /\ \A j \in 1 .. n - 1 : j + 1 \in 1 .. n /\ t[j] = s[j + 1]
  BY <1>1
<1> HIDE DEF t
<1>3. h \in Cells /\ h \in Members(s, n)
  BY <1>1 DEF Members
<1>4. \A c \in Members(s, n) : d[h].k <= d[c].k \/ c = h
  <2> TAKE c \in Members(s, n)
  <2>1. PICK j \in 1 .. n : c = s[j]
    BY DEF Members
  <2>2. QED
    BY <1>1, <2>1
<1>5. Members(t, n - 1) = Members(s, n) \ {h}
  <2>1. Members(t, n - 1) \subseteq Members(s, n) \ {h}
    BY <1>1, <1>2 DEF Members
  <2>2. ASSUME NEW j \in 1 .. n, s[j] # h
        PROVE  s[j] \in Members(t, n - 1)
    <3>1. j - 1 \in 1 .. n - 1 /\ t[j - 1] = s[j]
      BY <1>1, <1>2, <2>2
    <3>2. QED
      BY <3>1 DEF Members
  <2>3. QED
    BY <2>1, <2>2 DEF Members
<1>6. Chained(d, d[h].n, t, n - 1)
  <2>1. \A i, j \in 1 .. n - 1 : t[i] = t[j] => i = j
    BY <1>1, <1>2
  <2>2. d[h].n = IF n - 1 = 0 THEN NULL_PTR ELSE t[1]
    BY <1>1, <1>2
  <2>3. \A i \in 1 .. n - 1 : d[t[i]].n = IF i < n - 1 THEN t[i + 1] ELSE NULL_PTR
    BY <1>1, <1>2
  <2>4. \A i, j \in 1 .. n - 1 : i < j => d[t[i]].k <= d[t[j]].k
    BY <1>1, <1>2
  <2>5. QED
    BY <1>2, <2>1, <2>2, <2>3, <2>4 DEF Chained
<1>7. QED
  BY <1>2, <1>3, <1>4, <1>5, <1>6

(* A list stays one while the records in it stay as they are.              *)
LEMMA ChainedStays ==
  ASSUME NEW n \in Nat, NEW s, NEW d, NEW h, Chained(d, h, s, n),
         NEW e, \A c \in Members(s, n) : e[c] = d[c]
  PROVE  Chained(e, h, s, n)
<1>1. \A i \in 1 .. n : e[s[i]] = d[s[i]]
  BY DEF Members
<1>2. QED
  BY <1>1 DEF Chained

------------------------------------------------------------------------------
(* The invariant, action by action.                                        *)

LEMMA InitInv == Init => IInv
<1> SUFFICES ASSUME Init
             PROVE  IInv
  OBVIOUS
<1> USE HeapAssumption, MergerAssumption DEF Init, HeapInit
<1>1. TypeOK
  <2>1. Blank \in Record
    BY DEF Blank, Record, Links, NULL_PTR
  <2>2. QED
    BY <2>1 DEF TypeOK, HeapTypeOK, Links, NULL_PTR
<1>2. ASSUME NEW p \in Kernels
      PROVE  ListInv(p) /\ KeysInv(p) /\ HeapInv(p)
  <2>1. Held(p) = {}
    BY DEF Held
  <2>2. HeapInv(p)
    BY DEF HeapInv, Cells
  <2>3. ListInv(p)
    <3> DEFINE s == [i \in 1 .. 0 |-> 1]
    <3>1. /\ s \in [1 .. 0 -> Cells]
          /\ \A i \in 1 .. 0 : FALSE
      OBVIOUS
    <3> HIDE DEF s
    <3>2. Chained(data_bus[p], queue[p], s, 0) /\ Members(s, 0) = {}
      BY <3>1 DEF Chained, Members
    <3>3. InList(p) = {} /\ pc[p] # "walk"
      BY <2>1 DEF InList
    <3>4. QED
      BY <3>1, <3>2, <3>3 DEF ListInv
  <2>4. QED
    BY <2>1, <2>2, <2>3 DEF KeysInv
<1>3. QED
  BY <1>1, <1>2 DEF IInv

(* What concerns one instance is kept while its part of the state is.      *)
Kept(p) ==
  /\ taken'[p] = taken[p] /\ pc'[p] = pc[p] /\ l'[p] = l[p] /\ prev'[p] = prev[p]
  /\ new_record'[p] = new_record[p] /\ data_bus'[p] = data_bus[p]
  /\ queue'[p] = queue[p] /\ flist'[p] = flist[p] /\ owner'[p] = owner[p]
  /\ next_free_location'[p] = next_free_location[p]

LEMMA KeptInv ==
  ASSUME NEW p \in Kernels, Kept(p), val_r' = val_r,
         ListInv(p), KeysInv(p), HeapInv(p)
  PROVE  ListInv(p)' /\ KeysInv(p)' /\ HeapInv(p)'
<1> USE DEF Kept
<1>1. Held(p)' = Held(p) /\ Key(p)' = Key(p)
  BY DEF Held, Key
<1>2. InList(p)' = InList(p)
  BY <1>1 DEF InList
<1>3. ListInv(p)'
  BY <1>1, <1>2 DEF ListInv, WalkAt
<1>4. KeysInv(p)' /\ HeapInv(p)'
  BY <1>1 DEF KeysInv, HeapInv
<1>5. QED
  BY <1>3, <1>4

(* The head is the null pointer only of the empty list.                    *)
LEMMA HeadOfList ==
  ASSUME NEW n \in Nat, NEW s, NEW d, NEW h, Chained(d, h, s, n)
  PROVE  /\ h = NULL_PTR <=> n = 0
         /\ n # 0 => h = s[1] /\ 1 \in 1 .. n /\ h \in Cells
BY DEF Chained, Cells, NULL_PTR

LEMMA NewRecordInv ==
  ASSUME RoomForAll, IInv, NEW p \in Kernels, NewRecord(p)
  PROVE  IInv'
<1> DEFINE c == next_free_location[p]
           r == [k |-> val_r[p][taken[p] + 1], n |-> NULL_PTR]
<1> USE HeapAssumption, MergerAssumption
<1>1. /\ c = taken[p] + 1 /\ flist[p] = [i \in Links |-> i + 1]
      /\ \A x \in Cells : owner[p][x] = IF x <= taken[p] THEN 1 ELSE 0
      /\ taken[p] \in 0 .. N /\ taken[p] < N
  BY DEF IInv, TypeOK, HeapInv, NewRecord
<1>2. c \in Cells /\ c \in Links /\ c + 1 = Link(p, c) /\ taken[p] + 1 \in 1 .. N
  BY <1>1 DEF RoomForAll, Cells, Links, Link
<1>3. /\ next_free_location' = [next_free_location EXCEPT ![p] = c + 1]
      /\ owner' = [owner EXCEPT ![p][c] = @ + 1]
      /\ flist' = flist
  BY <1>2 DEF NewRecord, Malloc, Count
<1>4. /\ taken' = [taken EXCEPT ![p] = @ + 1]
      /\ new_record' = [new_record EXCEPT ![p] = c]
      /\ data_bus' = [data_bus EXCEPT ![p][c] = r]
      /\ queue' = IF queue[p] = NULL_PTR THEN [queue EXCEPT ![p] = c] ELSE queue
      /\ pc' = IF queue[p] = NULL_PTR THEN pc ELSE [pc EXCEPT ![p] = "walk"]
      /\ l' = [l EXCEPT ![p] = queue[p]]
      /\ prev' = [prev EXCEPT ![p] = NULL_PTR]
      /\ val_r' = val_r /\ val_w' = val_w /\ pc[p] = "next"
  BY DEF NewRecord
<1>5. val_r[p][taken[p] + 1] \in Inputs /\ r \in Record
  <2>1. val_r[p][taken[p] + 1] \in Inputs
    BY <1>2 DEF IInv, TypeOK
  <2>2. NULL_PTR \in Links
    BY DEF Links, NULL_PTR
  <2>3. QED
    BY <2>1, <2>2 DEF Record
<1> HIDE DEF c, r
<1>6. TypeOK'
  <2> USE DEF IInv, TypeOK
  <2>1. HeapTypeOK'
    <3>1. /\ flist \in [Kernels -> [Links -> Nat]]
          /\ next_free_location \in [Kernels -> Nat]
          /\ owner \in [Kernels -> [Cells -> Int]]
      BY DEF HeapTypeOK
    <3> HIDE DEF IInv, TypeOK
    <3>2. flist' \in [Kernels -> [Links -> Nat]]
      BY <1>3, <3>1
    <3>3. next_free_location' \in [Kernels -> Nat]
      BY <1>1, <1>3, <3>1
    <3>4. owner' \in [Kernels -> [Cells -> Int]]
      BY <1>2, <1>3, <3>1
    <3>5. QED
      BY <3>2, <3>3, <3>4 DEF HeapTypeOK
  <2>2. /\ val_r' \in [Kernels -> [1 .. N -> Inputs]]
        /\ taken' \in [Kernels -> 0 .. N]
        /\ pc' \in [Kernels -> {"next", "walk"}]
        /\ val_w' \in Seq(MinKey .. MAX_K)
    BY <1>1, <1>4
  <2>3. /\ l' \in [Kernels -> Links] /\ prev' \in [Kernels -> Links]
        /\ new_record' \in [Kernels -> Links]
        /\ queue' \in [Kernels -> Links]
    <3>1. NULL_PTR \in Links
      BY DEF Links, NULL_PTR
    <3>2. CASE queue[p] = NULL_PTR
      BY <1>2, <1>4, <3>1, <3>2
    <3>3. CASE queue[p] # NULL_PTR
      BY <1>2, <1>4, <3>1, <3>3
    <3>4. QED
      BY <3>2, <3>3
  <2>4. \A q \in Kernels : taken'[q] > 0 => new_record'[q] \in Cells
    BY <1>2, <1>4
  <2>5. data_bus' \in [Kernels -> [Links -> Record]]
    BY <1>4, <1>5
  <2>6. QED
    BY <2>1, <2>2, <2>3, <2>4, <2>5
<1>7. /\ taken'[p] = taken[p] + 1 /\ new_record'[p] = c
      /\ data_bus'[p] = [data_bus[p] EXCEPT ![c] = r]
      /\ queue'[p] = IF queue[p] = NULL_PTR THEN c ELSE queue[p]
      /\ pc'[p] = IF queue[p] = NULL_PTR THEN "next" ELSE "walk"
      /\ l'[p] = queue[p] /\ prev'[p] = NULL_PTR
      /\ next_free_location'[p] = c + 1
      /\ owner'[p] = [owner[p] EXCEPT ![c] = @ + 1] /\ flist'[p] = flist[p]
  BY <1>3, <1>4 DEF IInv, TypeOK, HeapTypeOK
<1>8. /\ data_bus'[p][c] = r
      /\ \A x \in Cells : x # c => data_bus'[p][x] = data_bus[p][x]
      /\ \A x \in Cells : owner'[p][x] = IF x <= taken'[p] THEN 1 ELSE 0
  <2>1. data_bus[p] \in [Links -> Record] /\ owner[p] \in [Cells -> Int]
    BY DEF IInv, TypeOK, HeapTypeOK
  <2>2. Cells \subseteq Links
    BY DEF Cells, Links
  <2>3. \A x \in Cells : owner'[p][x] = IF x = c THEN owner[p][x] + 1 ELSE owner[p][x]
    BY <1>7, <2>1
  <2>4. \A x \in Cells : x <= taken'[p] <=> x <= taken[p] \/ x = c
    BY <1>1, <1>7 DEF Cells
  <2>5. QED
    BY <1>1, <1>2, <1>7, <2>1, <2>2, <2>3, <2>4
<1>9. Held(p)' = Held(p) \cup {c} /\ c \notin Held(p)
  <2>1. \A x \in Cells : x <= taken'[p] <=> x <= taken[p] \/ x = c
    BY <1>1, <1>7 DEF Cells
  <2>2. QED
    BY <1>1, <1>2, <1>8, <2>1 DEF Held
<1>10. HeapInv(p)'
  <2>1. \A x \in Cells : owner'[p][x] \in {0, 1}
    BY <1>8
  <2>2. QED
    BY <1>1, <1>7, <1>8, <2>1 DEF HeapInv
<1>11. KeysInv(p)'
  BY <1>2, <1>5, <1>8, <1>9 DEF IInv, KeysInv, Held, r
<1>12. ListInv(p)'
  <2>1. PICK n \in Nat : \E s \in [1 .. n -> Cells] :
          Chained(data_bus[p], queue[p], s, n) /\ Members(s, n) = InList(p)
    BY DEF IInv, ListInv
  <2>2. PICK s \in [1 .. n -> Cells] :
          Chained(data_bus[p], queue[p], s, n) /\ Members(s, n) = InList(p)
    BY <2>1
  <2>3. Members(s, n) = Held(p)
    BY <1>4, <2>2 DEF InList
  <2>4. CASE queue[p] = NULL_PTR
    <3>1. n = 0 /\ Members(s, n) = {}
      <4>1. n = 0
        BY <2>2, <2>4, HeadOfList
      <4>2. QED
        BY <4>1 DEF Members
    <3> DEFINE t == [i \in 1 .. 1 |-> c]
    <3>2. /\ t \in [1 .. 1 -> Cells] /\ t[1] = c
          /\ \A i \in 1 .. 1 : i = 1
      BY <1>2
    <3> HIDE DEF t
    <3>3. Chained(data_bus'[p], queue'[p], t, 1)
      BY <1>7, <1>8, <2>4, <3>2 DEF Chained, r
    <3>4. Members(t, 1) = InList(p)' /\ pc'[p] # "walk"
      BY <1>7, <1>9, <2>3, <2>4, <3>1, <3>2 DEF Members, InList
    <3>5. QED
      BY <3>2, <3>3, <3>4 DEF ListInv
  <2>5. CASE queue[p] # NULL_PTR
    <3>1. n # 0 /\ queue[p] = s[1] /\ 1 \in 1 .. n
      BY <2>2, <2>5, HeadOfList
    <3>2. Chained(data_bus'[p], queue'[p], s, n)
      <4>1. \A x \in Members(s, n) : data_bus'[p][x] = data_bus[p][x]
        BY <1>8, <1>9, <2>3 DEF Held
      <4>2. queue'[p] = queue[p]
        BY <1>7, <2>5
      <4>3. QED
        BY <2>2, <4>1, <4>2, ChainedStays
    <3>3. Members(s, n) = InList(p)' /\ pc'[p] = "walk"
      BY <1>7, <1>9, <2>3, <2>5 DEF InList
    <3>4. WalkAt(p, s, n)'
      <4>1. Key(p)' = val_r[p][taken[p] + 1]
        BY <1>4, <1>7 DEF Key
      <4>2. new_record'[p] \in Held(p)' /\ taken'[p] > 0
        BY <1>1, <1>7, <1>9
      <4>3. data_bus'[p][new_record'[p]] = [k |-> Key(p)', n |-> NULL_PTR]
        BY <1>7, <1>8, <4>1 DEF r
      <4>4. /\ l'[p] = s[1] /\ ~(1 > 1)
            /\ prev'[p] = IF 1 = 1 THEN NULL_PTR ELSE s[1 - 1]
        BY <1>7, <3>1
      <4>5. QED
        BY <3>1, <4>2, <4>3, <4>4 DEF WalkAt
    <3>5. QED
      BY <2>2, <3>2, <3>3, <3>4 DEF ListInv
  <2>6. QED
    BY <2>4, <2>5
<1>13. ASSUME NEW q \in Kernels, q # p
       PROVE  Kept(q)
  BY <1>3, <1>4, <1>13 DEF Kept, IInv, TypeOK, HeapTypeOK
<1>14. \A q \in Kernels : ListInv(q)' /\ KeysInv(q)' /\ HeapInv(q)'
  BY <1>4, <1>10, <1>11, <1>12, <1>13, KeptInv DEF IInv
<1>15. QED
  BY <1>6, <1>14 DEF IInv

(* Where a walk stands: at place i of a list that lacks the new record.    *)
Walking(p, s, n, i) ==
  /\ Chained(data_bus[p], queue[p], s, n)
  /\ Members(s, n) = Held(p) \ {new_record[p]} /\ new_record[p] \in Held(p)
  /\ data_bus[p][new_record[p]] = [k |-> Key(p), n |-> NULL_PTR]
  /\ l[p] = s[i]
  /\ prev[p] = IF i = 1 THEN NULL_PTR ELSE s[i - 1]
  /\ i > 1 => data_bus[p][s[i - 1]].k <= Key(p)

LEMMA WalkState ==
  ASSUME IInv, NEW p \in Kernels, pc[p] = "walk"
  PROVE  /\ taken[p] > 0 /\ taken[p] \in 1 .. N /\ Key(p) \in Inputs
         /\ \E n \in Nat : \E s \in [1 .. n -> Cells] : \E i \in 1 .. n : Walking(p, s, n, i)
<1>1. PICK n \in Nat : \E s \in [1 .. n -> Cells] :
        /\ Chained(data_bus[p], queue[p], s, n)
        /\ Members(s, n) = InList(p) /\ WalkAt(p, s, n)
  BY DEF IInv, ListInv
<1>2. PICK s \in [1 .. n -> Cells] :
        /\ Chained(data_bus[p], queue[p], s, n)
        /\ Members(s, n) = InList(p) /\ WalkAt(p, s, n)
  BY <1>1
<1>3. PICK i \in 1 .. n :
        /\ l[p] = s[i] /\ prev[p] = IF i = 1 THEN NULL_PTR ELSE s[i - 1]
        /\ i > 1 => data_bus[p][s[i - 1]].k <= Key(p)
  BY <1>2 DEF WalkAt
<1>4. Walking(p, s, n, i)
  BY <1>2, <1>3 DEF Walking, WalkAt, InList
<1>5. taken[p] > 0 /\ taken[p] \in 1 .. N
  BY <1>2, MergerAssumption DEF WalkAt, IInv, TypeOK
<1>6. Key(p) \in Inputs
  BY <1>5 DEF Key, IInv, TypeOK
<1>7. QED
  BY <1>4, <1>5, <1>6

LEMMA WalkInv ==
  ASSUME IInv, NEW p \in Kernels, Walk(p)
  PROVE  IInv'
<1> USE HeapAssumption, MergerAssumption
<1>1. pc[p] = "walk"
  BY DEF Walk
<1>2. PICK n \in Nat : \E s \in [1 .. n -> Cells] : \E i \in 1 .. n : Walking(p, s, n, i)
  BY <1>1, WalkState
<1>3. PICK s \in [1 .. n -> Cells] : \E i \in 1 .. n : Walking(p, s, n, i)
  BY <1>2
<1>4. PICK i \in 1 .. n : Walking(p, s, n, i)
  BY <1>3
<1>5. i < n /\ i + 1 \in 1 .. n /\ Here(p).n = s[i + 1] /\ Here(p).n \in Cells
  <2>1. data_bus[p][s[i]].n = IF i < n THEN s[i + 1] ELSE NULL_PTR
    BY <1>4 DEF Walking, Chained
  <2>2. Here(p).n = data_bus[p][s[i]].n /\ Here(p).n # NULL_PTR
    BY <1>4 DEF Walking, Here, Walk
  <2>3. i < n /\ i + 1 \in 1 .. n
    BY <2>1, <2>2
  <2>4. QED
    BY <2>1, <2>2, <2>3
<1>6. l[p] \in Links /\ Here(p).n \in Links
  BY <1>5 DEF Cells, Links, IInv, TypeOK
<1>7. /\ l' = [l EXCEPT ![p] = s[i + 1]] /\ prev' = [prev EXCEPT ![p] = s[i]]
      /\ UNCHANGED <<heap, val_r, taken, pc, new_record, data_bus, queue, val_w>>
  BY <1>4, <1>5 DEF Walk, Walking
<1>8. TypeOK'
  BY <1>4, <1>5, <1>6, <1>7 DEF IInv, TypeOK, HeapTypeOK, heap, Walking
<1>9. l'[p] = s[i + 1] /\ prev'[p] = s[i]
  BY <1>7 DEF IInv, TypeOK
<1>10. Held(p)' = Held(p) /\ Key(p)' = Key(p) /\ InList(p)' = InList(p)
  BY <1>7 DEF Held, Key, InList, heap
<1>11. ListInv(p)'
  <2>1. Chained(data_bus'[p], queue'[p], s, n) /\ Members(s, n) = InList(p)'
    BY <1>1, <1>4, <1>7, <1>10 DEF Walking, InList
  <2>2. data_bus'[p][s[i]].k <= Key(p)'
    BY <1>4, <1>7, <1>10 DEF Walk, GoesAfter, Here, Walking
  <2>3. /\ l'[p] = s[i + 1] /\ (i + 1) - 1 = i /\ i + 1 # 1
        /\ prev'[p] = IF i + 1 = 1 THEN NULL_PTR ELSE s[(i + 1) - 1]
        /\ i + 1 > 1 => data_bus'[p][s[(i + 1) - 1]].k <= Key(p)'
    BY <1>9, <2>2
  <2>4. /\ new_record'[p] \in Held(p)' /\ taken'[p] > 0
        /\ data_bus'[p][new_record'[p]] = [k |-> Key(p)', n |-> NULL_PTR]
    BY <1>1, <1>4, <1>7, <1>10, WalkState DEF Walking
  <2>5. WalkAt(p, s, n)'
    BY <1>5, <2>3, <2>4 DEF WalkAt
  <2>6. QED
    BY <2>1, <2>5 DEF ListInv
<1>12. KeysInv(p)' /\ HeapInv(p)'
  BY <1>7, <1>10 DEF KeysInv, HeapInv, IInv, heap
<1>13. \A q \in Kernels : ListInv(q)' /\ KeysInv(q)' /\ HeapInv(q)'
  <2>1. ASSUME NEW q \in Kernels, q # p
        PROVE  Kept(q)
    BY <1>7, <2>1 DEF Kept, IInv, TypeOK, heap
  <2>2. val_r' = val_r
    BY <1>7
  <2>3. QED
    BY <1>11, <1>12, <2>1, <2>2, KeptInv DEF IInv
<1>14. QED
  BY <1>8, <1>13 DEF IInv

(* The stores that link the new record in: they leave every key alone, and *)
(* the other instances.                                                    *)
LEMMA LinkedIn ==
  ASSUME IInv, NEW p \in Kernels, Inserted(p),
         NEW n \in Nat, NEW s, NEW m, Walking(p, s, n, m), NEW i,
         Spliced(data_bus[p], queue[p], data_bus'[p], queue'[p], s, n, i, new_record[p]),
         data_bus' \in [Kernels -> [Links -> Record]], queue' \in [Kernels -> Links],
         \A q \in Kernels : q # p => data_bus'[q] = data_bus[q] /\ queue'[q] = queue[q],
         \A x \in Cells : data_bus'[p][x].k = data_bus[p][x].k
  PROVE  IInv'
<1> USE HeapAssumption, MergerAssumption
<1>1. /\ pc[p] = "walk" /\ pc' = [pc EXCEPT ![p] = "next"]
      /\ UNCHANGED <<heap, val_r, taken, l, prev, new_record, val_w>>
  BY DEF Inserted
<1>2. TypeOK'
  BY <1>1 DEF IInv, TypeOK, HeapTypeOK, heap
<1>3. Held(p)' = Held(p) /\ pc'[p] = "next" /\ InList(p)' = Held(p)
  BY <1>1 DEF Held, heap, InList, IInv, TypeOK
<1>4. /\ new_record[p] \in Cells /\ Chained(data_bus[p], queue[p], s, n)
      /\ Members(s, n) \cup {new_record[p]} = Held(p)
  BY DEF Walking, Held
<1>5. \A x \in Cells : data_bus[p][x].k \in Int /\ data_bus'[p][x].k \in Int
  <2>1. ASSUME NEW x \in Cells
        PROVE  data_bus[p][x] \in Record /\ data_bus'[p][x] \in Record
    BY DEF IInv, TypeOK, Cells, Links
  <2>2. \A r \in Record : r.k \in Int
    BY DEF Record
  <2>3. QED
    BY <2>1, <2>2
<1>6. ListInv(p)'
  <2>1. \E t \in [1 .. n + 1 -> Cells] :
          /\ Chained(data_bus'[p], queue'[p], t, n + 1)
          /\ Members(t, n + 1) = Members(s, n) \cup {new_record[p]}
    <3> DEFINE d == data_bus[p]
               e == data_bus'[p]
               h == queue[p]
               g == queue'[p]
               c == new_record[p]
    <3>1. /\ Chained(d, h, s, n) /\ c \in Cells /\ Spliced(d, h, e, g, s, n, i, c)
          /\ \A x \in Cells : d[x].k \in Int /\ e[x].k \in Int
      BY <1>4, <1>5
    <3> HIDE DEF d, e, h, g, c
    <3>2. \E t \in [1 .. n + 1 -> Cells] :
            Chained(e, g, t, n + 1) /\ Members(t, n + 1) = Members(s, n) \cup {c}
      BY <3>1, InsertChained
    <3>3. QED
      BY <3>2 DEF e, g, c
  <2>2. n + 1 \in Nat
    OBVIOUS
  <2>3. QED
    BY <1>3, <1>4, <2>1, <2>2 DEF ListInv
<1>7. KeysInv(p)' /\ HeapInv(p)'
  BY <1>1, <1>3 DEF KeysInv, HeapInv, IInv, heap, Held
<1>8. \A q \in Kernels : ListInv(q)' /\ KeysInv(q)' /\ HeapInv(q)'
  <2>1. ASSUME NEW q \in Kernels, q # p
        PROVE  Kept(q)
    BY <1>1, <2>1 DEF Kept, IInv, TypeOK, heap
  <2>2. val_r' = val_r
    BY <1>1
  <2>3. QED
    BY <1>6, <1>7, <2>1, <2>2, KeptInv DEF IInv
<1>9. QED
  BY <1>2, <1>8 DEF IInv

(* What the three ways to link in have to go by: the places of the list,   *)
(* none of which is the new record's, and the typing of their stores.      *)
LEMMA AtPlace ==
  ASSUME IInv, NEW p \in Kernels, pc[p] = "walk",
         NEW n \in Nat, NEW s, NEW i \in 1 .. n, Walking(p, s, n, i)
  PROVE  /\ s \in [1 .. n -> Cells] /\ Cells \subseteq Links
         /\ \A j, m \in 1 .. n : s[j] = s[m] => j = m
         /\ \A j \in 1 .. n : s[j] # new_record[p]
         /\ new_record[p] \in Cells /\ new_record[p] \in Links
         /\ \A j \in 1 .. n : data_bus[p][s[j]].n = IF j < n THEN s[j + 1] ELSE NULL_PTR
         /\ \A j, m \in 1 .. n : j < m => data_bus[p][s[j]].k <= data_bus[p][s[m]].k
         /\ \A j \in 1 .. n : data_bus[p][s[j]].k \in Int
         /\ Key(p) \in Int
         /\ data_bus \in [Kernels -> [Links -> Record]]
         /\ queue \in [Kernels -> Links]
         /\ queue[p] = s[1] /\ 1 \in 1 .. n
<1>1. s \in [1 .. n -> Cells] /\ Cells \subseteq Links
  BY DEF Walking, Chained, Cells, Links
<1>2. \A j \in 1 .. n : s[j] \in Members(s, n)
  BY DEF Members
<1>3. \A j \in 1 .. n : s[j] # new_record[p]
  BY <1>2 DEF Walking
<1>4. /\ new_record[p] \in Cells
      /\ data_bus \in [Kernels -> [Links -> Record]]
      /\ queue \in [Kernels -> Links]
  BY DEF Walking, Held, IInv, TypeOK
<1>5. \A j \in 1 .. n : data_bus[p][s[j]].k \in Int
  <2>1. \A r \in Record : r.k \in Int
    BY DEF Record
  <2>2. QED
    BY <1>1, <1>4, <2>1
<1>6. Key(p) \in Int
  <2>1. Key(p) \in Inputs
    BY WalkState
  <2>2. Inputs \subseteq Int
    BY MergerAssumption
  <2>3. QED
    BY <2>1, <2>2
<1>7. QED
  BY <1>1, <1>3, <1>4, <1>5, <1>6 DEF Walking, Chained

LEMMA NewRecordApart ==
  ASSUME NEW p, NEW s, NEW n, NEW i, Walking(p, s, n, i)
  PROVE  /\ data_bus[p][new_record[p]].k = Key(p)
         /\ data_bus[p][new_record[p]].n = NULL_PTR
         /\ new_record[p] \notin Members(s, n)
BY DEF Walking

(* A link stored into a record leaves its key and the other records alone. *)
WithLink(d, p, x, y) == [d EXCEPT ![p][x].n = y]

LEMMA LinkStored ==
  ASSUME NEW p \in Kernels, NEW x \in Links, NEW y \in Links,
         NEW d \in [Kernels -> [Links -> Record]]
  PROVE  /\ WithLink(d, p, x, y) \in [Kernels -> [Links -> Record]]
         /\ \A q \in Kernels : q # p => WithLink(d, p, x, y)[q] = d[q]
         /\ \A z \in Links : WithLink(d, p, x, y)[p][z].k = d[p][z].k
         /\ \A z \in Links :
              WithLink(d, p, x, y)[p][z].n = IF z = x THEN y ELSE d[p][z].n
<1> DEFINE r == [d[p][x] EXCEPT !.n = y]
<1>1. d[p][x] \in Record
  OBVIOUS
<1>2. r \in Record /\ r.k = d[p][x].k /\ r.n = y
  BY <1>1 DEF Record
<1> DEFINE e == WithLink(d, p, x, y)
<1>3. e = [d EXCEPT ![p] = [d[p] EXCEPT ![x] = r]]
  BY DEF WithLink
<1> HIDE DEF r, e
<1>4. /\ e \in [Kernels -> [Links -> Record]]
      /\ \A q \in Kernels : q # p => e[q] = d[q]
      /\ e[p] = [d[p] EXCEPT ![x] = r]
  <2>1. [d[p] EXCEPT ![x] = r] \in [Links -> Record]
    BY <1>2
  <2>2. QED
    BY <1>3, <2>1
<1>5. \A z \in Links : e[p][z] = IF z = x THEN r ELSE d[p][z]
  BY <1>4
<1>6. QED
  BY <1>2, <1>4, <1>5 DEF e

LEMMA InsertLastInv ==
  ASSUME IInv, NEW p \in Kernels, InsertLast(p)
  PROVE  IInv'
<1>1. pc[p] = "walk"
  BY DEF InsertLast, Inserted
<1>2. PICK n \in Nat : \E s \in [1 .. n -> Cells] : \E i \in 1 .. n : Walking(p, s, n, i)
  BY <1>1, WalkState
<1>3. PICK s \in [1 .. n -> Cells] : \E i \in 1 .. n : Walking(p, s, n, i)
  BY <1>2
<1>4. PICK i \in 1 .. n : Walking(p, s, n, i)
  BY <1>3
<1> DEFINE At(j) == data_bus[p][s[j]]
<1>5. i = n
  <2>1. At(i).n = NULL_PTR
    BY <1>4 DEF InsertLast, Here, Walking
  <2>2. i < n => s[i + 1] \in Cells /\ At(i).n = s[i + 1]
    BY <1>1, <1>4, AtPlace
  <2>3. QED
    BY <2>1, <2>2 DEF Cells, NULL_PTR
<1>6. At(n).k <= Key(p)
  BY <1>4, <1>5 DEF InsertLast, GoesAfter, Here, Walking
<1>7. \A j \in 1 .. n : At(j).k <= Key(p)
  BY <1>1, <1>4, <1>6, AtPlace
<1>8. data_bus' = WithLink(data_bus, p, s[n], new_record[p]) /\ queue' = queue
  BY <1>4, <1>5 DEF InsertLast, Walking, WithLink
<1>9. s[n] \in Links /\ new_record[p] \in Links
  BY <1>1, <1>4, AtPlace
<1>10. /\ data_bus' \in [Kernels -> [Links -> Record]]
       /\ \A q \in Kernels : q # p => data_bus'[q] = data_bus[q]
       /\ \A z \in Links : data_bus'[p][z].k = data_bus[p][z].k
       /\ \A z \in Links : data_bus'[p][z].n =
                            IF z = s[n] THEN new_record[p] ELSE data_bus[p][z].n
  <2>1. data_bus \in [Kernels -> [Links -> Record]]
    BY <1>1, <1>4, AtPlace
  <2>2. QED
    BY <1>8, <1>9, <2>1, LinkStored
<1>11. \A x \in Cells : data_bus'[p][x].k = data_bus[p][x].k
  BY <1>1, <1>4, <1>10, AtPlace
<1>12. ASSUME NEW j \in 1 .. n
       PROVE  data_bus'[p][s[j]].n = IF j = (n + 1) - 1 THEN new_record[p] ELSE At(j).n
  <2>1. s[j] \in Links
    BY <1>1, <1>4, AtPlace
  <2>2. s[j] = s[n] <=> j = n
    <3>1. \A x, y \in 1 .. n : s[x] = s[y] => x = y
      BY <1>1, <1>4, AtPlace
    <3>2. QED
      BY <1>1, <3>1
  <2>3. QED
    BY <1>10, <2>1, <2>2
<1>13. data_bus'[p][new_record[p]].n = NULL_PTR
  <2>1. s[n] # new_record[p]
    BY <1>1, <1>4, AtPlace
  <2>2. data_bus[p][new_record[p]].n = NULL_PTR
    BY <1>4, NewRecordApart
  <2>3. QED
    BY <1>9, <1>10, <2>1, <2>2
<1>14. n + 1 # 1 /\ n + 1 \in 1 .. n + 1 /\ \A j \in 1 .. n : ~(j >= n + 1) /\ j < n + 1
  OBVIOUS
<1>15. queue' \in [Kernels -> Links]
  BY <1>1, <1>4, <1>8, AtPlace
<1>16. data_bus'[p][new_record[p]].k = Key(p) /\ new_record[p] \notin Members(s, n)
  <2>1. new_record[p] \in Cells
    BY <1>1, <1>4, AtPlace
  <2>2. QED
    BY <1>4, <1>11, <2>1, NewRecordApart
<1>17. \A j \in 1 .. n : data_bus'[p][s[j]].k = At(j).k
  BY <1>1, <1>4, <1>11, AtPlace
<1>18. Spliced(data_bus[p], queue[p], data_bus'[p], queue'[p], s, n, n + 1, new_record[p])
  BY <1>7, <1>8, <1>12, <1>13, <1>14, <1>16, <1>17 DEF Spliced
<1>19. Inserted(p)
  BY DEF InsertLast
<1>20. QED
  BY <1>4, <1>8, <1>10, <1>11, <1>15, <1>18, <1>19, LinkedIn

LEMMA InsertFirstInv ==
  ASSUME IInv, NEW p \in Kernels, InsertFirst(p)
  PROVE  IInv'
<1>1. pc[p] = "walk"
  BY DEF InsertFirst, Inserted
<1>2. PICK n \in Nat : \E s \in [1 .. n -> Cells] : \E i \in 1 .. n : Walking(p, s, n, i)
  BY <1>1, WalkState
<1>3. PICK s \in [1 .. n -> Cells] : \E i \in 1 .. n : Walking(p, s, n, i)
  BY <1>2
<1>4. PICK i \in 1 .. n : Walking(p, s, n, i)
  BY <1>3
<1> DEFINE At(j) == data_bus[p][s[j]]
<1>5. i = 1
  <2>1. i > 1 => i - 1 \in 1 .. n /\ s[i - 1] \in Cells
    BY <1>1, <1>4, AtPlace
  <2>2. prev[p] = NULL_PTR /\ prev[p] = IF i = 1 THEN NULL_PTR ELSE s[i - 1]
    BY <1>4 DEF InsertFirst, Walking
  <2>3. QED
    BY <2>1, <2>2 DEF Cells, NULL_PTR
<1>6. ~(At(1).k <= Key(p))
  BY <1>4, <1>5 DEF InsertFirst, GoesAfter, Here, Walking
<1>7. \A j \in 1 .. n : Key(p) <= At(j).k
  BY <1>1, <1>4, <1>6, AtPlace
<1>8. /\ data_bus' = WithLink(data_bus, p, new_record[p], s[1])
      /\ queue' = [queue EXCEPT ![p] = new_record[p]]
  <2>1. queue[p] = s[1]
    BY <1>1, <1>4, AtPlace
  <2>2. QED
    BY <2>1 DEF InsertFirst, WithLink
<1>9. s[1] \in Links /\ new_record[p] \in Links
  BY <1>1, <1>4, AtPlace
<1>10. /\ data_bus' \in [Kernels -> [Links -> Record]]
       /\ \A q \in Kernels : q # p => data_bus'[q] = data_bus[q]
       /\ \A z \in Links : data_bus'[p][z].k = data_bus[p][z].k
       /\ \A z \in Links : data_bus'[p][z].n =
                            IF z = new_record[p] THEN s[1] ELSE data_bus[p][z].n
  <2>1. data_bus \in [Kernels -> [Links -> Record]]
    BY <1>1, <1>4, AtPlace
  <2>2. QED
    BY <1>8, <1>9, <2>1, LinkStored
<1>11. \A x \in Cells : data_bus'[p][x].k = data_bus[p][x].k
  BY <1>1, <1>4, <1>10, AtPlace
<1>12. ASSUME NEW j \in 1 .. n
       PROVE  data_bus'[p][s[j]].n = IF j = 1 - 1 THEN new_record[p] ELSE At(j).n
  <2>1. s[j] \in Links /\ s[j] # new_record[p]
    BY <1>1, <1>4, AtPlace
  <2>2. QED
    BY <1>10, <2>1
<1>13. data_bus'[p][new_record[p]].n = s[1]
  BY <1>9, <1>10
<1>14. 1 # n + 1 /\ 1 \in 1 .. n + 1 /\ \A j \in 1 .. n : ~(j < 1)
  OBVIOUS
<1>15. /\ queue' \in [Kernels -> Links] /\ queue'[p] = new_record[p]
       /\ \A q \in Kernels : q # p => queue'[q] = queue[q]
  <2>1. queue \in [Kernels -> Links]
    BY <1>1, <1>4, AtPlace
  <2>2. QED
    BY <1>8, <1>9, <2>1
<1>16. data_bus'[p][new_record[p]].k = Key(p) /\ new_record[p] \notin Members(s, n)
  <2>1. new_record[p] \in Cells
    BY <1>1, <1>4, AtPlace
  <2>2. QED
    BY <1>4, <1>11, <2>1, NewRecordApart
<1>17. \A j \in 1 .. n : data_bus'[p][s[j]].k = At(j).k
  BY <1>1, <1>4, <1>11, AtPlace
<1>18. Spliced(data_bus[p], queue[p], data_bus'[p], queue'[p], s, n, 1, new_record[p])
  BY <1>7, <1>12, <1>13, <1>14, <1>15, <1>16, <1>17 DEF Spliced
<1>19. Inserted(p)
  BY DEF InsertFirst
<1>20. QED
  BY <1>4, <1>10, <1>11, <1>15, <1>18, <1>19, LinkedIn

LEMMA InsertBetweenInv ==
  ASSUME IInv, NEW p \in Kernels, InsertBetween(p)
  PROVE  IInv'
<1>1. pc[p] = "walk"
  BY DEF InsertBetween, Inserted
<1>2. PICK n \in Nat : \E s \in [1 .. n -> Cells] : \E i \in 1 .. n : Walking(p, s, n, i)
  BY <1>1, WalkState
<1>3. PICK s \in [1 .. n -> Cells] : \E i \in 1 .. n : Walking(p, s, n, i)
  BY <1>2
<1>4. PICK i \in 1 .. n : Walking(p, s, n, i)
  BY <1>3
<1> DEFINE At(j) == data_bus[p][s[j]]
           c == new_record[p]
           between == WithLink(data_bus, p, s[i - 1], c)
<1>5. /\ i > 1 /\ i - 1 \in 1 .. n /\ i - 1 # n + 1
      /\ prev[p] = s[i - 1] /\ At(i - 1).k <= Key(p)
  BY <1>4 DEF InsertBetween, Walking
<1>6. ~(At(i).k <= Key(p))
  BY <1>4 DEF InsertBetween, GoesAfter, Here, Walking
<1>7. /\ \A j \in 1 .. n : j < i => At(j).k <= Key(p)
      /\ \A j \in 1 .. n : j >= i => Key(p) <= At(j).k
  <2>1. \A j \in 1 .. n : j < i => j < i - 1 \/ j = i - 1
    OBVIOUS
  <2>2. \A j \in 1 .. n : j >= i => j > i \/ j = i
    OBVIOUS
  <2>3. QED
    <3>1. /\ \A j, m \in 1 .. n : j < m => At(j).k <= At(m).k
          /\ \A j \in 1 .. n : At(j).k \in Int
          /\ Key(p) \in Int
      BY <1>1, <1>4, AtPlace
    <3> HIDE DEF At
    <3>2. \A j \in 1 .. n : j < i - 1 => At(j).k <= At(i - 1).k
      BY <1>5, <3>1
    <3>3. \A j \in 1 .. n : j > i => At(i).k <= At(j).k
      BY <3>1
    <3>4. QED
      BY <1>5, <1>6, <2>1, <2>2, <3>1, <3>2, <3>3
<1>8. data_bus' = WithLink(between, p, c, s[i]) /\ queue' = queue
  BY <1>4, <1>5 DEF InsertBetween, LinkBetween, WithLink, Walking
<1>9. s[i - 1] \in Links /\ s[i] \in Links /\ c \in Links /\ s[i - 1] # c
  <2>1. /\ s \in [1 .. n -> Cells] /\ Cells \subseteq Links /\ new_record[p] \in Links
        /\ \A j \in 1 .. n : s[j] # new_record[p]
    BY <1>1, <1>4, AtPlace
  <2>2. QED
    BY <1>5, <2>1
<1> HIDE DEF between
<1>10. /\ between \in [Kernels -> [Links -> Record]]
       /\ \A q \in Kernels : q # p => between[q] = data_bus[q]
       /\ \A z \in Links : between[p][z].k = data_bus[p][z].k
       /\ \A z \in Links : between[p][z].n = IF z = s[i - 1] THEN c ELSE data_bus[p][z].n
  <2>1. data_bus \in [Kernels -> [Links -> Record]]
    BY <1>1, <1>4, AtPlace
  <2>2. QED
    BY <1>9, <2>1, LinkStored DEF between
<1>11. /\ data_bus' \in [Kernels -> [Links -> Record]]
       /\ \A q \in Kernels : q # p => data_bus'[q] = between[q]
       /\ \A z \in Links : data_bus'[p][z].k = between[p][z].k
       /\ \A z \in Links : data_bus'[p][z].n = IF z = c THEN s[i] ELSE between[p][z].n
  BY <1>8, <1>9, <1>10, LinkStored
<1>12. \A x \in Cells : data_bus'[p][x].k = data_bus[p][x].k
  BY <1>1, <1>4, <1>10, <1>11, AtPlace
<1>13. ASSUME NEW j \in 1 .. n
       PROVE  data_bus'[p][s[j]].n = IF j = i - 1 THEN c ELSE At(j).n
  <2>1. s[j] \in Links /\ s[j] # c
    BY <1>1, <1>4, AtPlace
  <2>2. s[j] = s[i - 1] <=> j = i - 1
    <3>1. \A x, y \in 1 .. n : s[x] = s[y] => x = y
      BY <1>1, <1>4, AtPlace
    <3>2. QED
      BY <1>5, <3>1
  <2>3. QED
    BY <1>10, <1>11, <2>1, <2>2
<1>14. data_bus'[p][c].n = s[i] /\ i \in 1 .. n + 1 /\ i # n + 1
  BY <1>9, <1>11
<1>15. queue' \in [Kernels -> Links]
  BY <1>1, <1>4, <1>8, AtPlace
<1>16. data_bus'[p][c].k = Key(p) /\ c \notin Members(s, n)
  <2>1. c \in Cells
    BY <1>1, <1>4, AtPlace
  <2>2. QED
    BY <1>4, <1>12, <2>1, NewRecordApart
<1>17. \A j \in 1 .. n : data_bus'[p][s[j]].k = At(j).k
  BY <1>1, <1>4, <1>12, AtPlace
<1>18. Spliced(data_bus[p], queue[p], data_bus'[p], queue'[p], s, n, i, new_record[p])
  BY <1>5, <1>7, <1>8, <1>13, <1>14, <1>16, <1>17 DEF Spliced
<1>19. /\ Inserted(p)
       /\ \A q \in Kernels : q # p => data_bus'[q] = data_bus[q] /\ queue'[q] = queue[q]
  BY <1>8, <1>10, <1>11 DEF InsertBetween
<1>20. QED
  BY <1>4, <1>11, <1>12, <1>15, <1>18, <1>19, LinkedIn

(* An instance that is not inserting has all its cells in its list; its    *)
(* head, if there is one, is a cell it holds, with the least key.          *)
LEMMA HeadIsLeast ==
  ASSUME IInv, NEW p \in Kernels, pc[p] = "next"
  PROVE  /\ queue[p] = NULL_PTR => Held(p) = {}
         /\ queue[p] # NULL_PTR =>
              /\ queue[p] \in Cells /\ queue[p] \in Held(p) /\ HeadKey(p) \in Inputs
              /\ \A c \in Held(p) : HeadKey(p) <= data_bus[p][c].k
              /\ \E n \in Nat : \E t \in [1 .. n -> Cells] :
                   /\ Chained(data_bus[p], data_bus[p][queue[p]].n, t, n)
                   /\ Members(t, n) = Held(p) \ {queue[p]}
<1>1. PICK n \in Nat : \E s \in [1 .. n -> Cells] :
        Chained(data_bus[p], queue[p], s, n) /\ Members(s, n) = InList(p)
  BY DEF IInv, ListInv
<1>2. PICK s \in [1 .. n -> Cells] :
        Chained(data_bus[p], queue[p], s, n) /\ Members(s, n) = InList(p)
  BY <1>1
<1>3. Members(s, n) = Held(p)
  BY <1>2 DEF InList
<1>4. ASSUME queue[p] = NULL_PTR
      PROVE  Held(p) = {}
  <2>1. n = 0
    BY <1>2, <1>4, HeadOfList
  <2>2. QED
    BY <1>3, <2>1 DEF Members
<1>5. ASSUME queue[p] # NULL_PTR
      PROVE  /\ queue[p] \in Cells /\ queue[p] \in Held(p) /\ HeadKey(p) \in Inputs
             /\ \A c \in Held(p) : HeadKey(p) <= data_bus[p][c].k
             /\ \E m \in Nat : \E t \in [1 .. m -> Cells] :
                  /\ Chained(data_bus[p], data_bus[p][queue[p]].n, t, m)
                  /\ Members(t, m) = Held(p) \ {queue[p]}
  <2>1. n # 0 /\ n - 1 \in Nat
    BY <1>2, <1>5, HeadOfList
  <2>2. /\ queue[p] \in Cells /\ queue[p] \in Held(p)
        /\ \A c \in Held(p) : HeadKey(p) <= data_bus[p][c].k \/ c = queue[p]
        /\ \E t \in [1 .. n - 1 -> Cells] :
             /\ Chained(data_bus[p], data_bus[p][queue[p]].n, t, n - 1)
             /\ Members(t, n - 1) = Held(p) \ {queue[p]}
    BY <1>2, <1>3, <2>1, RemoveFirst DEF HeadKey
  <2>3. HeadKey(p) \in Inputs
    BY <2>2 DEF IInv, KeysInv, HeadKey
  <2>4. HeadKey(p) <= HeadKey(p)
    <3>1. \A x \in Inputs : x <= x
      BY MergerAssumption
    <3>2. QED
      BY <2>3, <3>1
  <2>5. QED
    BY <2>1, <2>2, <2>3, <2>4 DEF HeadKey
<1>6. QED
  BY <1>4, <1>5

(* delete_smallest emits the key of a head that is least of all, and frees *)
(* that head.                                                              *)
Deletes(p) ==
  /\ queue[p] \in Cells /\ queue[p] \in Held(p) /\ HeadKey(p) \in Inputs
  /\ \A q \in Kernels : queue[q] # NULL_PTR => HeadKey(p) <= HeadKey(q)
  /\ val_w' = Append(val_w, HeadKey(p))
  /\ queue' = [queue EXCEPT ![p] = data_bus[p][@].n]
  /\ Free(p, queue[p])

LEMMA DeletesLeast ==
  ASSUME KeysBelowMax, IInv, DeleteSmallest
  PROVE  /\ \A q \in Kernels : taken[q] = N /\ pc[q] = "next"
         /\ UNCHANGED <<val_r, insert, data_bus>>
         /\ \E p \in Kernels : Deletes(p)
<1> USE MergerAssumption
<1>1. \A q \in Kernels : taken[q] = N /\ pc[q] = "next"
  BY DEF DeleteSmallest, Inserting, IInv, TypeOK
<1>2. \A q \in Heads : HeadKey(q) \in Inputs /\ q \in Kernels
  BY <1>1, HeadIsLeast DEF Heads
<1>3. \A x \in Inputs : x \in Int /\ x < MAX_K
  BY DEF KeysBelowMax
<1>4. Below = Heads /\ Below # {}
  BY <1>2, <1>3 DEF Below, DeleteSmallest
<1>5. PICK p \in MinIdx :
        IF p = NoKernel THEN UNCHANGED <<heap, queue>>
        ELSE /\ queue' = [queue EXCEPT ![p] = data_bus[p][@].n]
             /\ Free(p, queue[p])
  BY DEF DeleteSmallest
<1>6. p \in Heads /\ p \in Kernels /\ p # NoKernel /\ Smallest(p)
  BY <1>4, <1>5 DEF MinIdx, Heads, NoKernel
<1>7. \A q \in Heads : HeadKey(p) <= HeadKey(q)
  <2> TAKE q \in Heads
  <2>1. HeadKey(p) < HeadKey(q) \/ HeadKey(p) = HeadKey(q)
    BY <1>4, <1>6 DEF Smallest
  <2>2. HeadKey(p) \in Int /\ HeadKey(q) \in Int
    BY <1>2, <1>3, <1>6
  <2>3. QED
    BY <2>1, <2>2
<1> DEFINE keys == {HeadKey(q) : q \in Below}
<1>8. Min(keys) = HeadKey(p)
  <2>1. HeadKey(p) \in keys /\ \A y \in keys : HeadKey(p) <= y /\ y \in Int
    BY <1>2, <1>3, <1>4, <1>6, <1>7
  <2> HIDE DEF keys
  <2>2. \A x \in keys : (\A y \in keys : x <= y) => x = HeadKey(p)
    BY <2>1
  <2>3. QED
    BY <2>1, <2>2 DEF Min
<1>9. val_w' = Append(val_w, HeadKey(p))
  BY <1>4, <1>8 DEF DeleteSmallest
<1>10. /\ queue[p] \in Cells /\ queue[p] \in Held(p) /\ HeadKey(p) \in Inputs
  BY <1>1, <1>6, HeadIsLeast DEF Heads
<1>11. Deletes(p)
  BY <1>5, <1>6, <1>7, <1>9, <1>10 DEF Deletes, Heads
<1>12. QED
  BY <1>1, <1>6, <1>11 DEF DeleteSmallest

LEMMA DeleteSmallestInv ==
  ASSUME KeysBelowMax, IInv, DeleteSmallest
  PROVE  IInv'
<1> USE HeapAssumption, MergerAssumption
<1>1. \A q \in Kernels : taken[q] = N /\ pc[q] = "next"
  BY DeletesLeast
<1>2. PICK p \in Kernels : Deletes(p)
  BY DeletesLeast
<1> DEFINE h == queue[p]
<1>3. /\ h \in Cells /\ h \in Links /\ h \in Held(p) /\ HeadKey(p) \in Inputs
      /\ h # NULL_PTR
  BY <1>2 DEF Deletes, Cells, Links, NULL_PTR
<1>4. /\ queue' = [queue EXCEPT ![p] = data_bus[p][h].n]
      /\ flist' = [flist EXCEPT ![p][h] = next_free_location[p]]
      /\ next_free_location' = [next_free_location EXCEPT ![p] = h]
      /\ owner' = [owner EXCEPT ![p][h] = @ + (-1)]
      /\ val_w' = Append(val_w, HeadKey(p))
      /\ UNCHANGED <<val_r, taken, pc, l, prev, new_record, data_bus>>
  BY <1>2, <1>3, DeletesLeast DEF Deletes, Free, Store, Count, insert
<1>5. PICK n \in Nat : \E t \in [1 .. n -> Cells] :
        Chained(data_bus[p], data_bus[p][h].n, t, n) /\ Members(t, n) = Held(p) \ {h}
  BY <1>1, <1>3, HeadIsLeast
<1>6. PICK t \in [1 .. n -> Cells] :
        Chained(data_bus[p], data_bus[p][h].n, t, n) /\ Members(t, n) = Held(p) \ {h}
  BY <1>5
<1>7. data_bus[p][h].n \in Links
  BY <1>6 DEF Chained, Cells, Links, NULL_PTR
<1> HIDE DEF h
<1>8. TypeOK'
  <2>1. HeapTypeOK'
    <3>1. h \in Nat
      BY <1>3 DEF Cells
    <3>2. HeapTypeOK
      BY DEF IInv, TypeOK
    <3>3. flist' \in [Kernels -> [Links -> Nat]]
      BY <1>3, <1>4, <3>2 DEF HeapTypeOK
    <3>4. next_free_location' \in [Kernels -> Nat]
      BY <1>4, <3>1, <3>2 DEF HeapTypeOK
    <3>5. owner' \in [Kernels -> [Cells -> Int]]
      BY <1>3, <1>4, <3>2 DEF HeapTypeOK
    <3>6. QED
      BY <3>3, <3>4, <3>5 DEF HeapTypeOK
  <2>2. val_w' \in Seq(MinKey .. MAX_K)
    BY <1>3, <1>4 DEF IInv, TypeOK
  <2>3. queue' \in [Kernels -> Links]
    BY <1>4, <1>7 DEF IInv, TypeOK
  <2>4. QED
    BY <1>4, <2>1, <2>2, <2>3 DEF IInv, TypeOK
<1>9. /\ queue'[p] = data_bus[p][h].n
      /\ owner'[p] = [owner[p] EXCEPT ![h] = @ + (-1)]
  BY <1>4 DEF IInv, TypeOK, HeapTypeOK
<1>10. /\ owner[p][h] = 1 /\ owner'[p][h] = 0
       /\ \A c \in Cells : c # h => owner'[p][c] = owner[p][c]
       /\ \A c \in Cells : owner'[p][c] \in {0, 1}
  BY <1>3, <1>9 DEF IInv, HeapInv, TypeOK, HeapTypeOK, Held
<1>11. Held(p)' = Held(p) \ {h}
  BY <1>10 DEF Held
<1>12. HeapInv(p)'
  BY <1>1, <1>4, <1>10 DEF HeapInv
<1>13. KeysInv(p)'
  BY <1>4, <1>11 DEF KeysInv, IInv
<1>14. ListInv(p)'
  <2>1. InList(p)' = Held(p)' /\ pc'[p] # "walk"
    BY <1>1, <1>4 DEF InList
  <2>2. QED
    BY <1>4, <1>6, <1>9, <1>11, <2>1 DEF ListInv
<1>15. ASSUME NEW q \in Kernels, q # p
       PROVE  Kept(q)
  BY <1>4, <1>15 DEF Kept, IInv, TypeOK, HeapTypeOK
<1>16. \A q \in Kernels : ListInv(q)' /\ KeysInv(q)' /\ HeapInv(q)'
  BY <1>4, <1>12, <1>13, <1>14, <1>15, KeptInv DEF IInv
<1>17. QED
  BY <1>8, <1>16 DEF IInv

(* The invariant of the merger: whatever the instances have done so far,   *)
(* each has its records in one sorted list, but for the one it is linking  *)
(* in, and a walk stands where the new record fits or before it.           *)
THEOREM MergerInvariant ==
  ASSUME RoomForAll, KeysBelowMax
  PROVE  Spec => []IInv
<1>1. Init => IInv
  BY InitInv
<1>2. IInv /\ [Next]_vars => IInv'
  <2> SUFFICES ASSUME IInv, [Next]_vars
               PROVE  IInv'
    OBVIOUS
  <2>1. ASSUME NEW p \in Kernels, NewRecord(p)
        PROVE  IInv'
    BY <2>1, NewRecordInv
  <2>2. ASSUME NEW p \in Kernels, Walk(p)
        PROVE  IInv'
    BY <2>2, WalkInv
  <2>3. ASSUME NEW p \in Kernels, InsertLast(p)
        PROVE  IInv'
    BY <2>3, InsertLastInv
  <2>4. ASSUME NEW p \in Kernels, InsertFirst(p)
        PROVE  IInv'
    BY <2>4, InsertFirstInv
  <2>5. ASSUME NEW p \in Kernels, InsertBetween(p)
        PROVE  IInv'
    BY <2>5, InsertBetweenInv
  <2>6. CASE DeleteSmallest
    BY <2>6, DeleteSmallestInv
  <2>7. CASE UNCHANGED vars
    <3>1. TypeOK'
      BY <2>7 DEF IInv, vars, insert, heap, TypeOK, HeapTypeOK
    <3>2. ASSUME NEW p \in Kernels
          PROVE  Kept(p) /\ val_r' = val_r
      BY <2>7 DEF vars, insert, heap, Kept
    <3>3. QED
      BY <3>1, <3>2, KeptInv DEF IInv
  <2>8. QED
    BY <2>1, <2>2, <2>3, <2>4, <2>5, <2>6, <2>7 DEF Next
<1>3. QED
  BY <1>1, <1>2, PTL DEF Spec

------------------------------------------------------------------------------
(* What the invariant gives.                                               *)

(* Every variable keeps its type: in particular no link that is followed   *)
(* and no head leaves the memories.                                        *)
THEOREM TypeCorrect ==
  ASSUME RoomForAll, KeysBelowMax
  PROVE  Spec => []TypeOK
<1>1. IInv => TypeOK
  BY DEF IInv
<1>2. QED
  BY <1>1, MergerInvariant, PTL

(* Between two insertions a list is sorted, ends in the null pointer and   *)
(* passes through each cell its instance holds, once.                      *)
THEOREM SortedLists ==
  ASSUME RoomForAll, KeysBelowMax
  PROVE  Spec => []ListsWellFormed
<1>1. IInv => ListsWellFormed
  <2> SUFFICES ASSUME IInv, NEW p \in Kernels, pc[p] = "next"
               PROVE  \E s \in [1 .. Cardinality(Held(p)) -> Held(p)] :
                        Held(p) = {s[i] : i \in DOMAIN s} /\ IsList(p, s)
    BY DEF ListsWellFormed
  <2>1. PICK n \in Nat : \E s \in [1 .. n -> Cells] :
          Chained(data_bus[p], queue[p], s, n) /\ Members(s, n) = InList(p)
    BY DEF IInv, ListInv
  <2>2. PICK s \in [1 .. n -> Cells] :
          Chained(data_bus[p], queue[p], s, n) /\ Members(s, n) = InList(p)
    BY <2>1
  <2>3. Members(s, n) = Held(p)
    BY <2>2 DEF InList
  <2>4. s \in [1 .. n -> Held(p)]
    BY <2>3 DEF Members
  <2>5. s \in Bijection(1 .. n, Held(p))
    <3>1. s \in Injection(1 .. n, Held(p))
      BY <2>2, <2>4 DEF Chained, Injection, IsInjective
    <3>2. s \in Surjection(1 .. n, Held(p))
      BY <2>3, <2>4 DEF Members, Surjection
    <3>3. QED
      BY <3>1, <3>2 DEF Bijection
  <2>6. Cardinality(Held(p)) = n
    BY <2>5, FS_CountingElements DEF ExistsBijection
  <2>7. IsList(p, s)
    <3>1. DOMAIN s = 1 .. n /\ (DOMAIN s = {} <=> n = 0)
      BY <2>4
    <3>2. \A i \in 1 .. n : i + 1 \in 1 .. n <=> i < n
      OBVIOUS
    <3>3. QED
      BY <2>2, <3>1, <3>2 DEF IsList, Chained
  <2>8. Held(p) = {s[i] : i \in DOMAIN s}
    BY <2>3, <2>4 DEF Members
  <2>9. QED
    BY <2>4, <2>6, <2>7, <2>8
<1>2. QED
  BY <1>1, MergerInvariant, PTL

------------------------------------------------------------------------------
(* The heaps.                                                              *)

(* Each instance uses its free list as FreeList asks of a client.          *)
THEOREM FreeListUse ==
  ASSUME RoomForAll, KeysBelowMax
  PROVE  Spec => UsesFreeList
<1>1. Init => \A p \in Kernels : List(p)!Init
  BY HeapAssumption DEF Init, HeapInit, List!Init, List!InitFlist, List!Links, List!Cells,
         List!FirstCell, Links, Cells
<1>2. IInv /\ [Next]_vars =>
        [\A p \in Kernels : List(p)!Next \/ UNCHANGED List(p)!vars]_heap
  <2> SUFFICES ASSUME IInv, [Next]_vars
               PROVE  (\A q \in Kernels : List(q)!Next \/ UNCHANGED List(q)!vars) \/ UNCHANGED heap
    OBVIOUS
  <2> USE HeapAssumption, MergerAssumption
  <2>1. ASSUME NEW p \in Kernels, NewRecord(p)
        PROVE  \A q \in Kernels : List(q)!Next \/ UNCHANGED List(q)!vars
    <3> DEFINE c == next_free_location[p]
    <3>1. c \in Cells /\ c \in Links
      <4>1. c = taken[p] + 1 /\ taken[p] \in 0 .. N /\ taken[p] < N
        BY <2>1 DEF IInv, HeapInv, TypeOK, NewRecord
      <4>2. QED
        BY <4>1 DEF RoomForAll, Cells, Links
    <3>2. /\ next_free_location' = [next_free_location EXCEPT ![p] = flist[p][c]]
          /\ owner' = [owner EXCEPT ![p][c] = @ + 1] /\ flist' = flist
      BY <2>1, <3>1 DEF NewRecord, Malloc, Count, Link
    <3>3. /\ next_free_location'[p] = flist[p][c]
          /\ owner'[p] = [owner[p] EXCEPT ![c] = @ + 1] /\ flist'[p] = flist[p]
      BY <3>2 DEF IInv, TypeOK, HeapTypeOK
    <3>4. List(p)!Malloc
      BY <3>1, <3>3 DEF List!Malloc, List!HasRoom, List!Cells, List!FirstCell, Cells
    <3>5. ASSUME NEW q \in Kernels, q # p
          PROVE  /\ next_free_location'[q] = next_free_location[q]
                 /\ owner'[q] = owner[q] /\ flist'[q] = flist[q]
      BY <3>2, <3>5 DEF IInv, TypeOK, HeapTypeOK
    <3>6. QED
      BY <3>4, <3>5 DEF List!Next, List!vars
  <2>2. ASSUME DeleteSmallest
        PROVE  \A q \in Kernels : List(q)!Next \/ UNCHANGED List(q)!vars
    <3>1. PICK p \in Kernels : Deletes(p)
      BY <2>2, DeletesLeast
    <3> DEFINE c == queue[p]
    <3>2. c \in Cells /\ c \in Links /\ owner[p][c] > 0
      BY <3>1 DEF Deletes, Held, Cells, Links
    <3>3. /\ next_free_location' = [next_free_location EXCEPT ![p] = c]
          /\ owner' = [owner EXCEPT ![p][c] = @ + (-1)]
          /\ flist' = [flist EXCEPT ![p][c] = next_free_location[p]]
      BY <3>1, <3>2 DEF Deletes, Free, Count, Store
    <3> HIDE DEF c
    <3>4. /\ next_free_location'[p] = c
          /\ owner'[p] = [owner[p] EXCEPT ![c] = @ + (-1)]
          /\ flist'[p] = [flist[p] EXCEPT ![c] = next_free_location[p]]
      BY <3>3 DEF IInv, TypeOK, HeapTypeOK
    <3>5. owner'[p] = [owner[p] EXCEPT ![c] = @ - 1]
      <4>1. owner[p] \in [Cells -> Int]
        BY DEF IInv, TypeOK, HeapTypeOK
      <4>2. QED
        BY <3>2, <3>4, <4>1
    <3>6. c \in List(p)!Cells /\ List(p)!Free(c)
      BY <3>2, <3>4, <3>5 DEF List!Free, List!Cells, List!FirstCell, Cells
    <3>7. ASSUME NEW q \in Kernels, q # p
          PROVE  /\ next_free_location'[q] = next_free_location[q]
                 /\ owner'[q] = owner[q] /\ flist'[q] = flist[q]
      BY <3>3, <3>7 DEF IInv, TypeOK, HeapTypeOK
    <3>8. QED
      BY <3>6, <3>7 DEF List!Next, List!vars
  <2>3. ASSUME NEW p \in Kernels,
               Walk(p) \/ InsertLast(p) \/ InsertFirst(p) \/ InsertBetween(p)
        PROVE  UNCHANGED heap
    BY <2>3 DEF Walk, InsertLast, InsertFirst, InsertBetween, Inserted
  <2>4. CASE UNCHANGED vars
    BY <2>4 DEF vars
  <2>5. QED
    BY <2>1, <2>2, <2>3, <2>4 DEF Next
<1>3. QED
  BY <1>1, <1>2, MergerInvariant, PTL DEF Spec, UsesFreeList

------------------------------------------------------------------------------
(* Bags.  The bag of the values that f takes on a finite set P.            *)
Where(P, f, k) == {x \in P : f[x] = k}
BagOf(P, f) == [k \in {f[x] : x \in P} |-> Cardinality(Where(P, f, k))]

LEMMA BagOfValues ==
  ASSUME NEW P, IsFiniteSet(P), NEW f
  PROVE  /\ \A k : IsFiniteSet(Where(P, f, k)) /\ Cardinality(Where(P, f, k)) \in Nat
         /\ \A k : k \in {f[x] : x \in P} <=> Cardinality(Where(P, f, k)) > 0
         /\ IsABag(BagOf(P, f))
<1>1. ASSUME NEW k
      PROVE  /\ IsFiniteSet(Where(P, f, k)) /\ Cardinality(Where(P, f, k)) \in Nat
             /\ k \in {f[x] : x \in P} <=> Cardinality(Where(P, f, k)) > 0
  <2>1. Where(P, f, k) \in SUBSET P
    BY DEF Where
  <2>2. IsFiniteSet(Where(P, f, k))
    BY <2>1, FS_Subset
  <2>3. Cardinality(Where(P, f, k)) \in Nat
    BY <2>2, FS_CardinalityType
  <2>4. k \in {f[x] : x \in P} <=> Where(P, f, k) # {}
    BY DEF Where
  <2>5. Cardinality(Where(P, f, k)) = 0 <=> Where(P, f, k) = {}
    BY <2>2, FS_EmptySet
  <2>6. QED
    BY <2>2, <2>3, <2>4, <2>5
<1>2. IsABag(BagOf(P, f))
  BY <1>1 DEF IsABag, BagOf
<1>3. QED
  BY <1>1, <1>2

(* An element that leaves P takes one copy of its value along.             *)
LEMMA BagRemoved ==
  ASSUME NEW P, IsFiniteSet(P), NEW y \in P, NEW f, NEW g,
         \A x \in P \ {y} : g[x] = f[x]
  PROVE  BagOf(P \ {y}, g) = BagOf(P, f) (-) SetToBag({f[y]})
<1> DEFINE C(k) == Cardinality(Where(P, f, k))
           D(k) == Cardinality(Where(P \ {y}, g, k))
<1>1. ASSUME NEW k
      PROVE  D(k) = IF k = f[y] THEN C(k) - 1 ELSE C(k)
  <2>1. Where(P \ {y}, g, k) = Where(P, f, k) \ {y}
    BY DEF Where
  <2>2. y \in Where(P, f, k) <=> k = f[y]
    BY DEF Where
  <2>3. IsFiniteSet(Where(P, f, k))
    BY BagOfValues
  <2>4. QED
    BY <2>1, <2>2, <2>3, FS_RemoveElement
<1>2. IsFiniteSet(P \ {y})
  BY FS_RemoveElement
<1>3. /\ \A k : k \in {f[x] : x \in P} <=> C(k) > 0
      /\ \A k : k \in {g[x] : x \in P \ {y}} <=> D(k) > 0
      /\ \A k : C(k) \in Nat /\ D(k) \in Nat
  BY <1>2, BagOfValues
<1> DEFINE B == BagOf(P, f)
           E == [k \in DOMAIN B |-> IF k = f[y] THEN B[k] - 1 ELSE B[k]]
<1>4. DOMAIN B = {f[x] : x \in P} /\ \A k \in DOMAIN B : B[k] = C(k)
  BY DEF BagOf
<1>5. /\ DOMAIN BagOf(P \ {y}, g) = {g[x] : x \in P \ {y}}
      /\ BagOf(P \ {y}, g) = [k \in {g[x] : x \in P \ {y}} |-> D(k)]
  BY DEF BagOf
<1>6. B (-) SetToBag({f[y]}) = [k \in {d \in DOMAIN E : E[d] > 0} |-> E[k]]
  BY DEF (-), SetToBag
<1> HIDE DEF C, D, B
<1>7. \A k \in DOMAIN E : E[k] = D(k)
  BY <1>1, <1>4
<1>8. {d \in DOMAIN E : E[d] > 0} = {g[x] : x \in P \ {y}}
  BY <1>1, <1>3, <1>4, <1>7
<1>9. QED
  BY <1>5, <1>6, <1>7, <1>8 DEF B

(* An element that is replaced by one with the same value changes nothing. *)
LEMMA BagMoved ==
  ASSUME NEW P, IsFiniteSet(P), NEW y \in P, NEW z, z \notin P, NEW f, NEW g,
         \A x \in P \ {y} : g[x] = f[x], g[z] = f[y]
  PROVE  BagOf((P \ {y}) \cup {z}, g) = BagOf(P, f)
<1> DEFINE Q == (P \ {y}) \cup {z}
<1>1. ASSUME NEW k
      PROVE  Cardinality(Where(Q, g, k)) = Cardinality(Where(P, f, k))
  <2>1. IsFiniteSet(Where(P, f, k))
    BY BagOfValues
  <2>2. CASE k = f[y]
    <3>1. Where(Q, g, k) = (Where(P, f, k) \ {y}) \cup {z}
      BY <2>2 DEF Where
    <3>2. y \in Where(P, f, k) /\ z \notin Where(P, f, k)
      BY <2>2 DEF Where
    <3>3. /\ IsFiniteSet(Where(P, f, k) \ {y})
          /\ Cardinality(Where(P, f, k) \ {y}) = Cardinality(Where(P, f, k)) - 1
          /\ z \notin Where(P, f, k) \ {y}
      BY <2>1, <3>2, FS_RemoveElement
    <3>4. Cardinality(Where(Q, g, k)) = Cardinality(Where(P, f, k)) - 1 + 1
      BY <3>1, <3>3, FS_AddElement
    <3>5. QED
      BY <2>1, <3>4, FS_CardinalityType
  <2>3. CASE k # f[y]
    BY <2>3 DEF Where
  <2>4. QED
    BY <2>2, <2>3
<1>2. {g[x] : x \in Q} = {f[x] : x \in P}
  OBVIOUS
<1>3. QED
  BY <1>1, <1>2 DEF BagOf

------------------------------------------------------------------------------
(* The stream.                                                             *)
Keys == [x \in Pending |-> KeyOf(x)]

LEMMA RemainingIsBag ==
  /\ Remaining = BagOf(Pending, Keys)
  /\ Remaining' = BagOf(Pending', Keys')
<1>1. /\ {KeyOf(x) : x \in Pending} = {Keys[x] : x \in Pending}
      /\ {KeyOf(x)' : x \in Pending'} = {Keys'[x] : x \in Pending'}
  BY DEF Keys
<1>2. /\ \A k : {x \in Pending : KeyOf(x) = k} = Where(Pending, Keys, k)
      /\ \A k : {x \in Pending' : KeyOf(x)' = k} = Where(Pending', Keys', k)
  BY DEF Keys, Where
<1>3. QED
  BY <1>1, <1>2 DEF Remaining, BagOf

(* Pending, element by element.                                            *)
LEMMA PendingElements ==
  ASSUME NEW x
  PROVE  /\ x \in Pending <=>
              \/ \E p \in Kernels : \E c \in Held(p) : x = <<"list", p, c>>
              \/ \E p \in Kernels : \E i \in taken[p] + 1 .. N : x = <<"input", p, i>>
         /\ x \in Pending' <=>
              \/ \E p \in Kernels : \E c \in Held(p)' : x = <<"list", p, c>>
              \/ \E p \in Kernels : \E i \in taken'[p] + 1 .. N : x = <<"input", p, i>>
BY DEF Pending

LEMMA PendingFinite ==
  ASSUME TypeOK
  PROVE  IsFiniteSet(Pending)
<1> USE HeapAssumption, MergerAssumption
<1> DEFINE m == IF N < HeapSize THEN HeapSize ELSE N
           Places == Kernels \X (1 .. m)
           Some(kind) == {x \in Pending : x[1] = kind}
           at == [x \in Pending |-> <<x[2], x[3]>>]
<1>1. m \in Nat /\ N <= m /\ HeapSize <= m
  OBVIOUS
<1> HIDE DEF m
<1>2. IsFiniteSet(Places)
  <2>1. 1 \in Int /\ m \in Int /\ IsFiniteSet(Kernels)
    BY <1>1
  <2>2. IsFiniteSet(1 .. m)
    BY <2>1, FS_Interval
  <2>3. QED
    BY <2>1, <2>2, FS_Product
<1>3. ASSUME NEW x \in Pending
      PROVE  /\ at[x] \in Places /\ x[1] \in {"list", "input"}
             /\ x = <<x[1], at[x][1], at[x][2]>>
  <2>1. CASE \E p \in Kernels : \E c \in Held(p) : x = <<"list", p, c>>
    <3>1. PICK p \in Kernels : \E c \in Held(p) : x = <<"list", p, c>>
      BY <2>1
    <3>2. PICK c \in Held(p) : x = <<"list", p, c>>
      BY <3>1
    <3>3. c \in 1 .. m
      BY <1>1 DEF Held, Cells
    <3>4. QED
      BY <3>2, <3>3
  <2>2. CASE \E p \in Kernels : \E i \in taken[p] + 1 .. N : x = <<"input", p, i>>
    <3>1. PICK p \in Kernels : \E i \in taken[p] + 1 .. N : x = <<"input", p, i>>
      BY <2>2
    <3>2. PICK i \in taken[p] + 1 .. N : x = <<"input", p, i>>
      BY <3>1
    <3>3. i \in 1 .. m
      BY <1>1 DEF TypeOK
    <3>4. QED
      BY <3>2, <3>3
  <2>3. QED
    BY <2>1, <2>2, PendingElements
<1>4. ASSUME NEW kind
      PROVE  IsFiniteSet(Some(kind))
  <2> DEFINE f == [x \in Some(kind) |-> at[x]]
  <2>1. f \in [Some(kind) -> Places]
    BY <1>3
  <2>2. \A x, y \in Some(kind) : f[x] = f[y] => x = y
    BY <1>3
  <2>3. f \in Injection(Some(kind), Places)
    BY <2>1, <2>2 DEF Injection, IsInjective
  <2>4. QED
    BY <1>2, <2>3, FS_Injection
<1>5. Pending = Some("list") \cup Some("input")
  BY <1>3
<1>6. QED
  <2>1. IsFiniteSet(Some("list")) /\ IsFiniteSet(Some("input"))
    BY <1>4
  <2> HIDE DEF Some
  <2>2. IsFiniteSet(Some("list") \cup Some("input"))
    BY <2>1, FS_Union
  <2>3. QED
    BY <1>5, <2>2

(* A step that keeps the cells, their keys and the inputs keeps the bag.   *)
LEMMA SameRemaining ==
  ASSUME UNCHANGED <<owner, taken, val_r>>,
         \A p \in Kernels : \A c \in Held(p) : data_bus'[p][c].k = data_bus[p][c].k
  PROVE  Remaining' = Remaining
<1>1. \A p : Held(p)' = Held(p)
  BY DEF Held
<1>2. Pending' = Pending
  BY <1>1 DEF Pending
<1>3. ASSUME NEW x \in Pending
      PROVE  KeyOf(x)' = KeyOf(x)
  <2>1. CASE \E p \in Kernels : \E c \in Held(p) : x = <<"list", p, c>>
    BY <2>1 DEF KeyOf
  <2>2. CASE \E p \in Kernels : \E i \in taken[p] + 1 .. N : x = <<"input", p, i>>
    BY <2>2 DEF KeyOf
  <2>3. QED
    BY <2>1, <2>2, PendingElements
<1>4. QED
  BY <1>2, <1>3 DEF Remaining

(* No step of an insertion changes a key that is held.                     *)
LEMMA KeysStay ==
  ASSUME IInv, NEW p \in Kernels,
         Walk(p) \/ InsertLast(p) \/ InsertFirst(p) \/ InsertBetween(p)
  PROVE  Remaining' = Remaining /\ val_w' = val_w
<1> USE HeapAssumption
<1>1. UNCHANGED <<owner, taken, val_r, val_w>>
  BY DEF Walk, InsertLast, InsertFirst, InsertBetween, Inserted, heap
<1>2. /\ data_bus \in [Kernels -> [Links -> Record]]
      /\ l[p] \in Links /\ prev[p] \in Links /\ new_record[p] \in Links
      /\ queue[p] \in Links
  BY DEF IInv, TypeOK
<1>3. \A q \in Kernels : \A c \in Links : data_bus'[q][c].k = data_bus[q][c].k
  <2>1. CASE Walk(p)
    BY <2>1 DEF Walk
  <2>2. CASE InsertLast(p)
    <3>1. data_bus' = WithLink(data_bus, p, l[p], new_record[p])
      BY <2>2 DEF InsertLast, WithLink
    <3>2. /\ \A q \in Kernels : q # p => data_bus'[q] = data_bus[q]
          /\ \A c \in Links : data_bus'[p][c].k = data_bus[p][c].k
      BY <1>2, <3>1, LinkStored
    <3>3. QED
      BY <3>2
  <2>3. CASE InsertFirst(p)
    <3>1. data_bus' = WithLink(data_bus, p, new_record[p], queue[p])
      BY <2>3 DEF InsertFirst, WithLink
    <3>2. /\ \A q \in Kernels : q # p => data_bus'[q] = data_bus[q]
          /\ \A c \in Links : data_bus'[p][c].k = data_bus[p][c].k
      BY <1>2, <3>1, LinkStored
    <3>3. QED
      BY <3>2
  <2>4. CASE InsertBetween(p)
    <3> DEFINE between == WithLink(data_bus, p, prev[p], new_record[p])
    <3>1. data_bus' = WithLink(between, p, new_record[p], l[p])
      BY <2>4 DEF InsertBetween, LinkBetween, WithLink
    <3> HIDE DEF between
    <3>2. /\ between \in [Kernels -> [Links -> Record]]
          /\ \A q \in Kernels : q # p => between[q] = data_bus[q]
          /\ \A c \in Links : between[p][c].k = data_bus[p][c].k
      BY <1>2, LinkStored DEF between
    <3>3. /\ \A q \in Kernels : q # p => data_bus'[q] = between[q]
          /\ \A c \in Links : data_bus'[p][c].k = between[p][c].k
      BY <1>2, <3>1, <3>2, LinkStored
    <3>4. QED
      BY <3>2, <3>3
  <2>5. QED
    BY <2>1, <2>2, <2>3, <2>4
<1>4. \A q \in Kernels : \A c \in Held(q) : data_bus'[q][c].k = data_bus[q][c].k
  BY <1>3 DEF Held, Cells, Links
<1>5. Remaining' = Remaining
  BY <1>1, <1>4, SameRemaining
<1>6. QED
  BY <1>1, <1>5

(* A value that is read becomes a record with that key.                    *)
LEMMA NewRecordStream ==
  ASSUME RoomForAll, IInv, NEW p \in Kernels, NewRecord(p)
  PROVE  Remaining' = Remaining /\ val_w' = val_w
<1> USE HeapAssumption, MergerAssumption
<1> DEFINE c == next_free_location[p]
           i == taken[p] + 1
           y == <<"input", p, i>>
           z == <<"list", p, c>>
<1>1. /\ c = taken[p] + 1 /\ taken[p] \in 0 .. N /\ taken[p] < N
      /\ \A x \in Cells : owner[p][x] = IF x <= taken[p] THEN 1 ELSE 0
  BY DEF IInv, TypeOK, HeapInv, NewRecord
<1>2. c \in Cells /\ c \in Links /\ c \notin Held(p)
  BY <1>1 DEF RoomForAll, Cells, Links, Held
<1>3. /\ owner' = [owner EXCEPT ![p][c] = @ + 1]
      /\ taken' = [taken EXCEPT ![p] = @ + 1]
      /\ data_bus' = [data_bus EXCEPT ![p][c] = [k |-> val_r[p][i], n |-> NULL_PTR]]
      /\ val_r' = val_r /\ val_w' = val_w
  BY <1>2 DEF NewRecord, Malloc, Count
<1>4. /\ owner \in [Kernels -> [Cells -> Int]]
      /\ taken \in [Kernels -> 0 .. N]
      /\ data_bus \in [Kernels -> [Links -> Record]]
  BY DEF IInv, TypeOK, HeapTypeOK
<1> HIDE DEF c
<1>5. Held(p)' = Held(p) \cup {c}
  <2>1. \A x \in Cells : owner'[p][x] = IF x = c THEN owner[p][x] + 1 ELSE owner[p][x]
    BY <1>2, <1>3, <1>4
  <2>2. owner[p][c] = 0
    BY <1>1, <1>2
  <2>3. QED
    BY <1>2, <2>1, <2>2 DEF Held
<1>6. \A q \in Kernels : q # p => Held(q)' = Held(q) /\ taken'[q] = taken[q]
  BY <1>3, <1>4 DEF Held
<1>7. /\ taken'[p] = i
      /\ taken[p] + 1 .. N = {i} \cup (i + 1 .. N) /\ i \notin i + 1 .. N
  BY <1>1, <1>3, <1>4
<1> HIDE DEF i
<1>8. y \in Pending /\ z \notin Pending
  BY <1>2, <1>7, PendingElements
<1>9. Pending' = (Pending \ {y}) \cup {z}
  <2>1. ASSUME NEW x
        PROVE  x \in Pending' <=> x \in (Pending \ {y}) \cup {z}
    <3>1. x \in Pending' <=>
            \/ \E q \in Kernels : \E d \in Held(q)' : x = <<"list", q, d>>
            \/ \E q \in Kernels : \E j \in taken'[q] + 1 .. N : x = <<"input", q, j>>
      BY PendingElements
    <3>2. (\E q \in Kernels : \E d \in Held(q)' : x = <<"list", q, d>>) <=>
            (\E q \in Kernels : \E d \in Held(q) : x = <<"list", q, d>>) \/ x = z
      BY <1>5, <1>6
    <3>3. (\E q \in Kernels : \E j \in taken'[q] + 1 .. N : x = <<"input", q, j>>) <=>
            /\ \E q \in Kernels : \E j \in taken[q] + 1 .. N : x = <<"input", q, j>>
            /\ x # y
      BY <1>6, <1>7
    <3>4. x = z => x # y
      OBVIOUS
    <3>5. (\E q \in Kernels : \E d \in Held(q) : x = <<"list", q, d>>) => x # y
      OBVIOUS
    <3>6. QED
      BY <3>1, <3>2, <3>3, <3>4, <3>5, PendingElements
  <2>2. QED
    BY <2>1
<1>10. ASSUME NEW x \in Pending \ {y}
       PROVE  Keys'[x] = Keys[x]
  <2>1. x \in Pending'
    BY <1>9
  <2>2. KeyOf(x)' = KeyOf(x)
    <3>1. CASE \E q \in Kernels : \E d \in Held(q) : x = <<"list", q, d>>
      <4>1. PICK q \in Kernels : \E d \in Held(q) : x = <<"list", q, d>>
        BY <3>1
      <4>2. PICK d \in Held(q) : x = <<"list", q, d>>
        BY <4>1
      <4>3. d \in Links /\ (q = p => d # c)
        BY <1>2 DEF Held, Cells, Links
      <4>4. data_bus'[q][d] = data_bus[q][d]
        BY <1>2, <1>3, <1>4, <4>3
      <4>5. QED
        BY <4>2, <4>4 DEF KeyOf
    <3>2. CASE \E q \in Kernels : \E j \in taken[q] + 1 .. N : x = <<"input", q, j>>
      BY <1>3, <3>2 DEF KeyOf
    <3>3. QED
      BY <3>1, <3>2, PendingElements
  <2>3. QED
    BY <2>1, <2>2 DEF Keys
<1>11. Keys'[z] = Keys[y]
  <2>1. z \in Pending'
    BY <1>9
  <2>2. ASSUME NEW x, x = z
        PROVE  KeyOf(x)' = val_r[p][i]
    <3>1. data_bus'[p][c] = [k |-> val_r[p][i], n |-> NULL_PTR]
      BY <1>2, <1>3, <1>4
    <3>2. QED
      BY <2>2, <3>1 DEF KeyOf
  <2>3. KeyOf(y) = val_r[p][i]
    BY DEF KeyOf
  <2> HIDE DEF y, z
  <2>4. QED
    BY <1>8, <2>1, <2>2, <2>3 DEF Keys
<1>12. Remaining' = BagOf(Pending', Keys')
  BY RemainingIsBag
<1>13. IsFiniteSet(Pending)
  BY PendingFinite DEF IInv
<1> DEFINE P == Pending
           f == Keys
           g == Keys'
<1> HIDE DEF P, f, g, y, z
<1>14. BagOf((P \ {y}) \cup {z}, g) = BagOf(P, f)
  <2>1. /\ IsFiniteSet(P) /\ y \in P /\ z \notin P
        /\ \A x \in P \ {y} : g[x] = f[x]
        /\ g[z] = f[y]
    BY <1>8, <1>10, <1>11, <1>13 DEF P, f, g
  <2>2. QED
    BY <2>1, BagMoved
<1>15. Remaining' = Remaining
  BY <1>9, <1>12, <1>14, RemainingIsBag DEF P, f, g
<1>16. QED
  BY <1>3, <1>15

(* What delete_smallest emits is a smallest value of those left, and it    *)
(* goes away once.                                                         *)
LEMMA DeleteStream ==
  ASSUME KeysBelowMax, IInv, DeleteSmallest
  PROVE  Stream!Emit
<1> USE HeapAssumption, MergerAssumption
<1>1. /\ \A q \in Kernels : taken[q] = N /\ pc[q] = "next"
      /\ UNCHANGED <<val_r, insert, data_bus>>
  BY DeletesLeast
<1>2. PICK p \in Kernels : Deletes(p)
  BY DeletesLeast
<1>3. PICK h : h = queue[p]
  OBVIOUS
<1>4. PICK k : k = HeadKey(p)
  OBVIOUS
<1> DEFINE y == <<"list", p, h>>
<1>5. /\ h \in Cells /\ h \in Held(p) /\ k \in Inputs /\ data_bus[p][h].k = k
      /\ val_w' = Append(val_w, k)
      /\ owner' = [owner EXCEPT ![p][h] = @ + (-1)]
  BY <1>2, <1>3, <1>4 DEF Deletes, Free, Count, HeadKey
<1>6. Held(p)' = Held(p) \ {h} /\ \A q \in Kernels : q # p => Held(q)' = Held(q)
  <2>1. owner \in [Kernels -> [Cells -> Int]] /\ owner[p][h] = 1
    <3>1. owner[p][h] > 0 /\ h \in Cells
      BY <1>5 DEF Held
    <3>2. owner[p][h] \in {0, 1}
      BY <3>1 DEF IInv, HeapInv
    <3>3. QED
      BY <3>1, <3>2 DEF IInv, TypeOK, HeapTypeOK
  <2>2. /\ \A c \in Cells : owner'[p][c] = IF c = h THEN owner[p][c] + (-1) ELSE owner[p][c]
        /\ \A q \in Kernels : q # p => owner'[q] = owner[q]
    BY <1>5, <2>1
  <2>3. owner'[p][h] = 0
    BY <1>5, <2>1, <2>2
  <2>4. \A c \in Cells : owner'[p][c] > 0 <=> owner[p][c] > 0 /\ c # h
    BY <2>2, <2>3
  <2>5. QED
    BY <2>2, <2>4 DEF Held
<1>7. /\ taken' = taken /\ data_bus' = data_bus /\ val_r' = val_r
      /\ \A q \in Kernels : taken[q] + 1 .. N = {}
  BY <1>1 DEF insert
<1>8. /\ \A x : x \in Pending <=> \E q \in Kernels : \E c \in Held(q) : x = <<"list", q, c>>
      /\ \A x : x \in Pending' <=> \E q \in Kernels : \E c \in Held(q)' : x = <<"list", q, c>>
  BY <1>7, PendingElements
<1>9. y \in Pending
  BY <1>5, <1>8
<1>10. Pending' = Pending \ {y}
  BY <1>6, <1>8
<1>11. \A x \in Pending \ {y} : Keys'[x] = Keys[x]
  <2>1. ASSUME NEW x \in Pending
        PROVE  KeyOf(x)' = KeyOf(x)
    BY <1>7 DEF KeyOf
  <2>2. QED
    BY <1>10, <2>1 DEF Keys
<1>12. \A q \in Kernels : \A c \in Held(q) : k <= data_bus[q][c].k
  <2> TAKE q \in Kernels
  <2> TAKE c \in Held(q)
  <2>1. queue[q] # NULL_PTR
    BY <1>1, HeadIsLeast
  <2>2. HeadKey(q) \in Inputs /\ HeadKey(q) <= data_bus[q][c].k
    BY <1>1, <2>1, HeadIsLeast
  <2>3. k <= HeadKey(q)
    BY <1>2, <1>4, <2>1 DEF Deletes
  <2>4. data_bus[q][c].k \in Inputs
    BY DEF IInv, KeysInv
  <2>5. \A x \in Inputs : x \in Int
    OBVIOUS
  <2>6. QED
    BY <1>5, <2>2, <2>3, <2>4, <2>5
<1>13. Keys[y] = k /\ \A x \in Pending : k <= Keys[x]
  <2>1. ASSUME NEW x \in Pending
        PROVE  k <= Keys[x]
    <3>1. PICK q \in Kernels : \E c \in Held(q) : x = <<"list", q, c>>
      BY <1>8
    <3>2. PICK c \in Held(q) : x = <<"list", q, c>>
      BY <3>1
    <3>3. KeyOf(x) = data_bus[q][c].k
      BY <3>2 DEF KeyOf
    <3>4. QED
      BY <1>12, <3>3 DEF Keys
  <2>2. KeyOf(y) = k
    BY <1>5 DEF KeyOf
  <2> HIDE DEF y
  <2>3. QED
    BY <1>9, <2>1, <2>2 DEF Keys
<1>14. Remaining = BagOf(Pending, Keys) /\ Remaining' = BagOf(Pending', Keys')
  BY RemainingIsBag
<1>15. IsFiniteSet(Pending)
  BY PendingFinite DEF IInv
<1> DEFINE P == Pending
           f == Keys
           g == Keys'
<1> HIDE DEF P, f, g, y
<1>16. BagOf(P \ {y}, g) = BagOf(P, f) (-) SetToBag({f[y]})
  <2>1. /\ IsFiniteSet(P) /\ y \in P /\ \A x \in P \ {y} : g[x] = f[x]
    BY <1>9, <1>11, <1>15 DEF P, f, g
  <2>2. QED
    BY <2>1, BagRemoved
<1>17. Remaining' = Remaining (-) SetToBag({k})
  BY <1>10, <1>13, <1>14, <1>16 DEF P, f, g
<1>18. k \in DOMAIN Remaining /\ \A j \in DOMAIN Remaining : k <= j
  <2>1. DOMAIN Remaining = {Keys[x] : x \in Pending}
    BY <1>14 DEF BagOf
  <2>2. QED
    BY <1>9, <1>13, <2>1
<1>19. QED
  BY <1>5, <1>17, <1>18
  DEF Stream!Emit, Stream!BagToSet, Stream!(-), Stream!SetToBag, SetToBag, (-)

(* The merger emits what came in, in sorted order, each key as often as it *)
(* came in: it implements the abstract stream.                             *)
THEOREM MergesSorted ==
  ASSUME RoomForAll, KeysBelowMax
  PROVE  Spec => ImplementsSortedStream
<1>1. Init => Stream!Init
  <2> SUFFICES ASSUME Init
               PROVE  Stream!Init
    OBVIOUS
  <2>1. TypeOK
    BY InitInv DEF IInv
  <2>2. IsABag(BagOf(Pending, Keys))
    BY <2>1, PendingFinite, BagOfValues
  <2>3. IsABag(Remaining)
    BY <2>2, RemainingIsBag
  <2>4. QED
    BY <2>3 DEF Stream!Init, Stream!IsABag, IsABag, Init
<1>2. IInv /\ [Next]_vars => [Stream!Emit]_<<Remaining, val_w>>
  <2> SUFFICES ASSUME IInv, [Next]_vars
               PROVE  Stream!Emit \/ UNCHANGED <<Remaining, val_w>>
    OBVIOUS
  <2>1. ASSUME NEW p \in Kernels, NewRecord(p)
        PROVE  UNCHANGED <<Remaining, val_w>>
    BY <2>1, NewRecordStream
  <2>2. ASSUME NEW p \in Kernels,
               Walk(p) \/ InsertLast(p) \/ InsertFirst(p) \/ InsertBetween(p)
        PROVE  UNCHANGED <<Remaining, val_w>>
    BY <2>2, KeysStay
  <2>3. CASE DeleteSmallest
    BY <2>3, DeleteStream
  <2>4. CASE UNCHANGED vars
    BY <2>4, SameRemaining DEF vars, heap, insert
  <2>5. QED
    BY <2>1, <2>2, <2>3, <2>4 DEF Next
<1>3. QED
  BY <1>1, <1>2, MergerInvariant, PTL DEF Spec, ImplementsSortedStream, Stream!Spec

==============================================================================
