------------------------- MODULE CriticalRegionProofs -------------------------
(***************************************************************************)
(* Proofs about the critical regions of the coherent scratchpad interface, *)
(* for every set of kernels, every record size and every number of         *)
(* regions.  The first part holds for both choices of WriteFirst and       *)
(* LongGap; the second, that no update is lost, where both are true.       *)
(***************************************************************************)
EXTENDS CriticalRegion, SequenceTheorems, TLAPS

(* A core that has not finished has a region to go: the counter that Leave *)
(* decrements does not underflow.                                          *)
RegionsToGo == \A p \in Kernels : pc[p] # "done" => left[p] > 0

(* The interface's two conditions, on their own: it believes it has the    *)
(* lock only while it owns it and has taken the answer; an access is at    *)
(* the memory only while it believes so.                                   *)
LockIsOwned == \A p \in Kernels : hasLock[p] => holder = p /\ ~granted
PendingUnderLock == \A p \in Kernels : pending[p] # <<>> => hasLock[p]

(* What of the type invariant these two rest on.                           *)
LockTypes ==
  /\ hasLock \in [Kernels -> BOOLEAN]
  /\ pending \in [Kernels -> Seq(Access)]

LockInv == LockIsOwned /\ PendingUnderLock

LEMMA AccessTypes ==
  /\ \A w \in Index : Read(w) \in Access
  /\ \A w \in Index, v \in Nat : Write(w, v) \in Access
  /\ \A a \in Access : a.write \in BOOLEAN /\ a.word \in Index /\ a.data \in Nat
  /\ 1 \in Index
BY CriticalRegionAssumption DEF Read, Write, Access, Index

(* Appending to a FIFO of accesses, and taking its head, keep its type.    *)
LEMMA FifoTypes ==
  ASSUME NEW q \in Seq(Access)
  PROVE  /\ \A a \in Access : Append(q, a) \in Seq(Access)
         /\ q # <<>> => Head(q) \in Access /\ Tail(q) \in Seq(Access)
OBVIOUS

(* Every variable keeps its type: in particular the word index stays in    *)
(* the record and the count of regions does not go below zero.             *)
THEOREM TypeCorrect == Spec => [](TypeOK /\ RegionsToGo)
<1>1. Init => TypeOK /\ RegionsToGo
  <2> SUFFICES ASSUME Init
               PROVE  TypeOK /\ RegionsToGo
    OBVIOUS
  <2>1. 1 \in Index /\ Read(1) \in Access /\ <<>> \in Seq(Access) /\ Regions \in Nat
    BY CriticalRegionAssumption, AccessTypes
  <2>2. pc \in [Kernels -> {"enter", "done"}] /\ left \in [Kernels -> 0 .. Regions]
    BY <2>1 DEF Init
  <2>3. RegionsToGo
    BY <2>1 DEF Init, RegionsToGo
  <2>4. TypeOK
    <3>1. request \in [Kernels -> Access] /\ word \in [Kernels -> Index]
      BY <2>1 DEF Init
    <3>2. /\ value \in [Kernels -> [Index -> Nat]] /\ datain \in [Kernels -> Nat]
          /\ memory \in [Index -> Nat] /\ applied \in [Index -> Nat]
      BY DEF Init
    <3>3. /\ writeFifo \in [Kernels -> Seq(Access)] /\ readAddrFifo \in [Kernels -> Seq(Access)]
          /\ pending \in [Kernels -> Seq(Access)]
      BY <2>1 DEF Init
    <3> QED
      BY <2>2, <3>1, <3>2, <3>3 DEF Init, TypeOK
  <2> QED
    BY <2>3, <2>4
<1>2. TypeOK /\ RegionsToGo /\ [Next]_vars => (TypeOK /\ RegionsToGo)'
  <2> SUFFICES ASSUME TypeOK, RegionsToGo, [Next]_vars
               PROVE  (TypeOK /\ RegionsToGo)'
    OBVIOUS
  <2> USE DEF core, bus, fifos, lockside, service
  <2>1. ASSUME NEW p \in Kernels, Enter(p)
        PROVE  (TypeOK /\ RegionsToGo)'
    BY <2>1 DEF Enter, Goto, EnterCriticalRegion, TypeOK, RegionsToGo
  <2>2. ASSUME NEW p \in Kernels, RequestRead(p)
        PROVE  (TypeOK /\ RegionsToGo)'
    BY <2>2, AccessTypes
    DEF RequestRead, Goto, Present, TypeOK, RegionsToGo
  <2>3. ASSUME NEW p \in Kernels, NEW from, NEW to, Advance(p, from, to),
               from \in {"await", "write"}, to \in {"write", "leave"}
        PROVE  /\ pc' \in [Kernels -> {"enter", "read", "await", "write", "leave", "done"}]
               /\ word' \in [Kernels -> Index]
               /\ \A q \in Kernels : pc'[q] # "done" => pc[q] # "done"
    <3>1. word[p] \in Index /\ NextWord(p) \in Index
      <4>1. word[p] \in Index
        BY DEF TypeOK
      <4> QED
        BY <4>1, CriticalRegionAssumption DEF NextWord, Index
    <3>2. word' \in [Kernels -> Index]
      BY <2>3, <3>1 DEF Advance, TypeOK
    <3>3. pc[p] = from /\ \E there \in {"read", "await", "write", "leave"} :
                             pc' = [pc EXCEPT ![p] = there]
      BY <2>3 DEF Advance, Goto
    <3>4. pc \in [Kernels -> {"enter", "read", "await", "write", "leave", "done"}]
      BY DEF TypeOK
    <3> QED
      BY <2>3, <3>2, <3>3, <3>4
  <2>4. ASSUME NEW p \in Kernels, ReceiveRead(p)
        PROVE  (TypeOK /\ RegionsToGo)'
    <3>1. value' \in [Kernels -> [Index -> Nat]]
      BY <2>4 DEF ReceiveRead, TypeOK
    <3> QED
      BY <2>3, <2>4, <3>1 DEF ReceiveRead, TypeOK, RegionsToGo
  <2>5. ASSUME NEW p \in Kernels, RequestWrite(p)
        PROVE  (TypeOK /\ RegionsToGo)'
    <3>1. value[p][word[p]] + 1 \in Nat /\ word[p] \in Index
      BY SMTT(20) DEF TypeOK
    <3>2. request' \in [Kernels -> Access]
      BY <2>5, <3>1, AccessTypes DEF RequestWrite, Present, TypeOK
    <3> QED
      BY <2>3, <2>5, <3>2 DEF RequestWrite, Present, TypeOK, RegionsToGo
  <2>6. ASSUME NEW p \in Kernels, Leave(p)
        PROVE  (TypeOK /\ RegionsToGo)'
    <3>1. pc[p] = "leave"
      BY <2>6 DEF Leave, Goto
    <3>2. left[p] \in 0 .. Regions /\ left[p] > 0
      BY <3>1 DEF TypeOK, RegionsToGo
    <3>3. Regions \in Nat /\ left[p] - 1 \in 0 .. Regions
      BY <3>2, CriticalRegionAssumption
    <3>4. /\ left' = [left EXCEPT ![p] = left[p] - 1]
          /\ pc' = [pc EXCEPT ![p] = IF left[p] = 1 THEN "done" ELSE "enter"]
          /\ lockReleaseFifo' = [lockReleaseFifo EXCEPT ![p] = @ \/ hasLock[p]]
          /\ UNCHANGED <<word, value, bus, fifos, hasLock, service, pending, memory,
                         applied>>
      BY <2>6 DEF Leave, Goto, LeaveCriticalRegion
    <3>5. left' \in [Kernels -> 0 .. Regions]
      BY <3>3, <3>4 DEF TypeOK
    <3>6. lockReleaseFifo' \in [Kernels -> BOOLEAN]
      BY <3>4 DEF TypeOK
    <3>7. TypeOK'
      BY <3>4, <3>5, <3>6 DEF TypeOK
    <3>8. RegionsToGo'
      <4>1. ASSUME NEW q \in Kernels, pc'[q] # "done"
            PROVE  left'[q] > 0
        <5>1. CASE q = p
          BY <3>2, <3>4, <4>1, <5>1 DEF TypeOK
        <5>2. CASE q # p
          BY <3>4, <4>1, <5>2 DEF TypeOK, RegionsToGo
        <5> QED
          BY <5>1, <5>2
      <4> QED
        BY <4>1 DEF RegionsToGo
    <3> QED
      BY <3>7, <3>8
  <2>7. ASSUME NEW p \in Kernels, Issue(p)
        PROVE  (TypeOK /\ RegionsToGo)'
    <3>1. /\ Append(writeFifo[p], request[p]) \in Seq(Access)
          /\ Append(readAddrFifo[p], request[p]) \in Seq(Access)
      BY FifoTypes DEF TypeOK
    <3> QED
      BY <2>7, <3>1 DEF Issue, TypeOK, RegionsToGo
  <2>8. ASSUME NEW p \in Kernels, EnWrite(p)
        PROVE  (TypeOK /\ RegionsToGo)'
    BY <2>8 DEF EnWrite, TypeOK, RegionsToGo
  <2>9. ASSUME NEW p \in Kernels, WriteResp(p)
        PROVE  (TypeOK /\ RegionsToGo)'
    <3>1. /\ Tail(writeFifo[p]) \in Seq(Access)
          /\ Append(pending[p], Head(writeFifo[p])) \in Seq(Access)
      BY <2>9, FifoTypes DEF WriteResp, TypeOK
    <3> QED
      BY <2>9, <3>1 DEF WriteResp, TypeOK, RegionsToGo
  <2>10. ASSUME NEW p \in Kernels, ReadReqAccept(p)
         PROVE  (TypeOK /\ RegionsToGo)'
    <3>1. /\ Tail(readAddrFifo[p]) \in Seq(Access)
          /\ Append(pending[p], Head(readAddrFifo[p])) \in Seq(Access)
      BY <2>10, FifoTypes DEF ReadReqAccept, TypeOK
    <3> QED
      BY <2>10, <3>1 DEF ReadReqAccept, TypeOK, RegionsToGo
  <2>11. ASSUME NEW p \in Kernels, ObtainLock(p) \/ ReleaseLock(p) \/ Grant(p)
         PROVE  (TypeOK /\ RegionsToGo)'
    BY <2>11 DEF ObtainLock, ReleaseLock, Grant, TypeOK, RegionsToGo
  <2>12. ASSUME NEW p \in Kernels, MemoryWrite(p) \/ MemoryRead(p)
         PROVE  (TypeOK /\ RegionsToGo)'
    <3>1. Head(pending[p]) \in Access /\ Tail(pending[p]) \in Seq(Access)
      BY <2>12, FifoTypes DEF MemoryWrite, MemoryRead, TypeOK
    <3>2. Head(pending[p]).word \in Index /\ Head(pending[p]).data \in Nat
      BY <3>1, AccessTypes
    <3>3. CASE MemoryWrite(p)
      <4>1. memory' \in [Index -> Nat] /\ applied' \in [Index -> Nat]
        <5> DEFINE access == Head(pending[p])
        <5>1. /\ memory' = [memory EXCEPT ![access.word] = access.data]
              /\ applied' = [applied EXCEPT ![access.word] = applied[access.word] + 1]
          BY <3>3 DEF MemoryWrite
        <5>2. access.word \in Index /\ access.data \in Nat
          BY <3>2
        <5> HIDE DEF access
        <5>3. memory \in [Index -> Nat] /\ applied \in [Index -> Nat]
          BY DEF TypeOK
        <5>4. applied[access.word] + 1 \in Nat
          BY <5>2, <5>3
        <5> QED
          BY <5>1, <5>2, <5>3, <5>4
      <4>2. pending' \in [Kernels -> Seq(Access)]
        BY <3>1, <3>3 DEF MemoryWrite, TypeOK
      <4> QED
        BY <3>3, <4>1, <4>2 DEF MemoryWrite, TypeOK, RegionsToGo
    <3>4. CASE MemoryRead(p)
      <4>1. memory[Head(pending[p]).word] \in Nat
        BY <3>2 DEF TypeOK
      <4> QED
        BY <3>1, <3>4, <4>1 DEF MemoryRead, TypeOK, RegionsToGo
    <3> QED
      BY <2>12, <3>3, <3>4
  <2>13. CASE UNCHANGED vars
    BY <2>13 DEF vars, TypeOK, RegionsToGo
  <2> QED
    BY <2>1, <2>2, <2>4, <2>5, <2>6, <2>7, <2>8, <2>9, <2>10, <2>11, <2>12, <2>13
    DEF Next, CoreStep, PortStep
<1> QED
  BY <1>1, <1>2, PTL DEF Spec

(* The interface's two conditions hold throughout, because readReqAccept   *)
(* and writeResp test the lock, releaseLock waits for the memory, and      *)
(* obtainLock takes the answer away.                                       *)
THEOREM LockInvariant == Spec => []LockInv
<1>1. Init => LockInv
  BY DEF Init, LockInv, LockIsOwned, PendingUnderLock
<1>2. LockTypes /\ LockInv /\ [Next]_vars => LockInv'
  <2> SUFFICES ASSUME LockTypes, LockInv, [Next]_vars
               PROVE  LockInv'
    OBVIOUS
  <2> USE DEF LockInv, LockIsOwned, PendingUnderLock, LockTypes
  <2> USE DEF core, bus, fifos, lockside, service
  <2>1. ASSUME NEW p \in Kernels, CoreStep(p)
        PROVE  LockInv'
    BY <2>1 DEF CoreStep, Enter, RequestRead, ReceiveRead, RequestWrite, Leave, Present
  <2>2. ASSUME NEW p \in Kernels, Issue(p) \/ EnWrite(p)
        PROVE  LockInv'
    BY <2>2 DEF Issue, EnWrite
  <2>3. ASSUME NEW p \in Kernels, WriteResp(p) \/ ReadReqAccept(p)
        PROVE  LockInv'
    BY <2>3 DEF WriteResp, ReadReqAccept, MayAccess
  <2>4. ASSUME NEW p \in Kernels, ObtainLock(p)
        PROVE  LockInv'
    BY <2>4 DEF ObtainLock
  <2>5. ASSUME NEW p \in Kernels, ReleaseLock(p)
        PROVE  LockInv'
    BY <2>5 DEF ReleaseLock, NothingPending
  <2>6. ASSUME NEW p \in Kernels, Grant(p)
        PROVE  LockInv'
    BY <2>6, CriticalRegionAssumption DEF Grant
  <2>7. ASSUME NEW p \in Kernels, MemoryWrite(p) \/ MemoryRead(p)
        PROVE  LockInv'
    BY <2>7 DEF MemoryWrite, MemoryRead
  <2>8. CASE UNCHANGED vars
    BY <2>8 DEF vars
  <2> QED
    BY <2>1, <2>2, <2>3, <2>4, <2>5, <2>6, <2>7, <2>8 DEF Next, PortStep
<1>3. TypeOK => LockTypes
  BY DEF TypeOK, LockTypes
<1> QED
  BY <1>1, <1>2, <1>3, TypeCorrect, PTL DEF Spec

(* Lock exclusion: accesses reach the memory only from the kernel that     *)
(* owns the lock, and an interface that believes it has the lock is right. *)
THEOREM LockExclusion == Spec => []OnlyHolderAccesses
<1>1. LockInv => OnlyHolderAccesses
  BY DEF LockInv, LockIsOwned, PendingUnderLock, OnlyHolderAccesses
<1> QED
  BY <1>1, LockInvariant, PTL

------------------------------------------------------------------------------
(* What the critical regions are for: no update of a shared record is      *)
(* lost, in a build where releaseLock fires only when no access could and  *)
(* a core is back only after its lock is released.                         *)

(* The writes of a kernel on their way, oldest first.                      *)
Presented(p) == IF bridge[p] = "mem_request" THEN <<request[p]>> ELSE <<>>
Line(p) == pending[p] \o writeFifo[p] \o Presented(p)

(* A core that has had an answer from the memory in this region.           *)
Reading(p) == pc[p] \in {"read", "await"}
HasAnswer(p) ==
  \/ pc[p] \in {"write", "leave"}
  \/ Reading(p) /\ word[p] > 1
  \/ pc[p] = "await" /\ bridge[p] = "free"

(* The lock's part: it is asked for from the beginning of a region until   *)
(* it is released behind its end, and held from the first answer on.       *)
RegionOf(p) ==
  /\ InRegion(p) => Asked(p) /\ ~lockReleaseFifo[p]
  /\ ~InRegion(p) => (Asked(p) => hasLock[p]) /\ (~hasLock[p] => ~AccessUnderWay(p))
  /\ holder = p => p \notin acquireReq
  /\ lockReleaseFifo[p] => hasLock[p]
  /\ HasAnswer(p) => hasLock[p]
  /\ ~InRegion(p) \/ pc[p] = "leave" => word[p] = 1
  /\ ~InRegion(p) => bridge[p] # "mem_request"

(* While a core reads, nothing but its one read is under way.              *)
ReadOf(p) ==
  /\ pc[p] = "read" => ~AccessUnderWay(p)
  /\ pc[p] = "await" =>
       /\ writeFifo[p] = <<>>
       /\ \/ /\ bridge[p] = "mem_request" /\ request[p] = Read(word[p])
             /\ readAddrFifo[p] = <<>> /\ pending[p] = <<>>
          \/ bridge[p] = "bus_read" /\ readAddrFifo[p] = <<Read(word[p])>> /\ pending[p] = <<>>
          \/ bridge[p] = "bus_read" /\ readAddrFifo[p] = <<>> /\ pending[p] = <<Read(word[p])>>
          \/ /\ bridge[p] = "free" /\ readAddrFifo[p] = <<>> /\ pending[p] = <<>>
             /\ datain[p] = memory[word[p]]

(* After that only its writes are: each to a word of its own, below those  *)
(* still to be written, and one more than what is there.                   *)
Updates(s, bound) ==
  /\ \A i \in 1 .. Len(s) :
       s[i].write /\ s[i].word < bound /\ s[i].data = memory[s[i].word] + 1
  /\ \A i, j \in 1 .. Len(s) : i < j => s[i].word < s[j].word

Bound(p) == IF pc[p] = "write" THEN word[p] ELSE Words + 1
WriteOf(p) ==
  ~Reading(p) =>
    /\ readAddrFifo[p] = <<>>
    /\ Updates(Line(p), Bound(p))

(* The words a core has read and not yet written are as it has read them.  *)
ValueOf(p) ==
  /\ Reading(p) => \A w \in Index : w < word[p] => value[p][w] = memory[w]
  /\ pc[p] = "write" => \A w \in Index : w >= word[p] => value[p][w] = memory[w]

KernelInv(p) == RegionOf(p) /\ ReadOf(p) /\ WriteOf(p) /\ ValueOf(p)
UpdateInv == NoLostUpdate /\ \A p \in Kernels : KernelInv(p)

------------------------------------------------------------------------------
(* The types at one kernel.                                                *)
LEMMA KernelTypes ==
  ASSUME TypeOK, NEW p \in Kernels
  PROVE  /\ word[p] \in Index /\ word[p] \in Nat /\ word[p] >= 1 /\ word[p] <= Words
         /\ Words \in Nat /\ Words >= 1
         /\ value[p] \in [Index -> Nat] /\ datain[p] \in Nat
         /\ request[p] \in Access
         /\ writeFifo[p] \in Seq(Access) /\ readAddrFifo[p] \in Seq(Access)
         /\ pending[p] \in Seq(Access)
         /\ hasLock[p] \in BOOLEAN /\ lockReleaseFifo[p] \in BOOLEAN
         /\ pc[p] \in {"enter", "read", "await", "write", "leave", "done"}
         /\ bridge[p] \in {"free", "mem_request", "bus_write", "bus_read"}
         /\ \A w \in Index : memory[w] \in Nat
<1>1. Words \in Nat /\ Words >= 1
  BY CriticalRegionAssumption
<1>2. word[p] \in Index
  BY DEF TypeOK
<1>3. word[p] \in Nat /\ word[p] >= 1 /\ word[p] <= Words
  BY <1>1, <1>2 DEF Index
<1>4. value[p] \in [Index -> Nat] /\ datain[p] \in Nat /\ \A w \in Index : memory[w] \in Nat
  BY DEF TypeOK
<1>5. /\ request[p] \in Access
      /\ writeFifo[p] \in Seq(Access) /\ readAddrFifo[p] \in Seq(Access)
      /\ pending[p] \in Seq(Access)
  BY DEF TypeOK
<1>6. /\ hasLock[p] \in BOOLEAN /\ lockReleaseFifo[p] \in BOOLEAN
      /\ pc[p] \in {"enter", "read", "await", "write", "leave", "done"}
      /\ bridge[p] \in {"free", "mem_request", "bus_write", "bus_read"}
  BY DEF TypeOK
<1>7. QED
  BY <1>1, <1>2, <1>3, <1>4, <1>5, <1>6

(* A line is a sequence of accesses, empty if nothing is on its way.       *)
LEMMA LineFacts ==
  ASSUME TypeOK, NEW p \in Kernels
  PROVE  /\ pending[p] \o writeFifo[p] \in Seq(Access)
         /\ Line(p) \in Seq(Access)
         /\ bridge[p] # "mem_request" => Line(p) = pending[p] \o writeFifo[p]
         /\ bridge[p] = "mem_request" =>
              Line(p) = Append(pending[p] \o writeFifo[p], request[p])
         /\ pending[p] = <<>> /\ writeFifo[p] = <<>> /\ bridge[p] # "mem_request" =>
              Line(p) = <<>>
<1> DEFINE s == pending[p] \o writeFifo[p]
<1>1. s \in Seq(Access) /\ request[p] \in Access
  BY KernelTypes
<1> HIDE DEF s
<1>2. s \o <<>> = s
  BY <1>1, ConcatEmptySeq
<1>3. s \o <<request[p]>> = Append(s, request[p])
  BY <1>1, AppendIsConcat
<1>4. Line(p) = s \o Presented(p)
  BY DEF Line, s
<1>5. /\ bridge[p] # "mem_request" => Line(p) = s
      /\ bridge[p] = "mem_request" => Line(p) = Append(s, request[p])
  BY <1>2, <1>3, <1>4 DEF Presented
<1>6. Line(p) \in Seq(Access)
  <2>1. CASE bridge[p] = "mem_request"
    BY <1>1, <1>5, <2>1
  <2>2. CASE bridge[p] # "mem_request"
    BY <1>1, <1>5, <2>2
  <2>3. QED
    BY <2>1, <2>2
<1>7. pending[p] = <<>> /\ writeFifo[p] = <<>> => s = <<>>
  BY KernelTypes, ConcatEmptySeq DEF s
<1>8. QED
  BY <1>1, <1>5, <1>6, <1>7 DEF s

(* Taking the head of one FIFO into the next leaves what both hold.        *)
LEMMA HandOver ==
  ASSUME NEW S, NEW s \in Seq(S), NEW t \in Seq(S), t # <<>>
  PROVE  Append(s, Head(t)) \o Tail(t) = s \o t
<1>1. /\ Head(t) \in S /\ Tail(t) \in Seq(S)
      /\ Append(s, Head(t)) \in Seq(S)
  BY HeadTailProperties
<1>2. /\ Append(s, Head(t)) \o Tail(t) \in Seq(S) /\ s \o t \in Seq(S)
      /\ Len(Append(s, Head(t)) \o Tail(t)) = Len(s) + Len(t)
      /\ Len(s \o t) = Len(s) + Len(t)
  BY <1>1
<1>3. \A j \in 1 .. Len(s) + Len(t) : (Append(s, Head(t)) \o Tail(t))[j] = (s \o t)[j]
  BY <1>1
<1>4. QED
  BY <1>2, <1>3, SeqEqual

(* An element put into the last FIFO comes last of what both hold.         *)
LEMMA PutLast ==
  ASSUME NEW S, NEW s \in Seq(S), NEW t \in Seq(S), NEW e \in S
  PROVE  s \o Append(t, e) = Append(s \o t, e)
<1>1. /\ s \o Append(t, e) \in Seq(S) /\ Append(s \o t, e) \in Seq(S)
      /\ Len(s \o Append(t, e)) = Len(Append(s \o t, e))
      /\ Len(Append(s \o t, e)) = Len(s) + Len(t) + 1
  OBVIOUS
<1>2. \A j \in 1 .. Len(s) + Len(t) + 1 :
        (s \o Append(t, e))[j] = Append(s \o t, e)[j]
  OBVIOUS
<1>3. QED
  BY <1>1, <1>2, SeqEqual

(* Three FIFOs one behind the other, seen from the first of them.          *)
LEMMA FrontOfThree ==
  ASSUME NEW S, NEW s \in Seq(S), NEW t \in Seq(S), NEW u \in Seq(S)
  PROVE  /\ t \o u \in Seq(S) /\ (s \o t) \o u = s \o (t \o u)
<1>1. t \o u \in Seq(S)
  OBVIOUS
<1>2. (s \o t) \o u = s \o (t \o u)
  BY ConcatAssociative
<1>3. QED
  BY <1>1, <1>2

LEMMA LastOfAppend ==
  ASSUME NEW S, NEW s \in Seq(S), NEW e \in S
  PROVE  LET t == Append(s, e) IN Len(t) \in 1 .. Len(t) /\ t[Len(t)] = e
OBVIOUS

LEMMA FirstOfConcat ==
  ASSUME NEW S, NEW s \in Seq(S), NEW t \in Seq(S), s # <<>>
  PROVE  Len(s \o t) \in Nat /\ Len(s \o t) >= 1 /\ (s \o t)[1] = Head(s)
OBVIOUS

(* The oldest element leaves the first FIFO.                               *)
LEMMA TakeFirst ==
  ASSUME NEW S, NEW s \in Seq(S), NEW t \in Seq(S), s # <<>>
  PROVE  /\ s \o t # <<>> /\ Head(s \o t) = Head(s) /\ Tail(s \o t) = Tail(s) \o t
<1>1. /\ Tail(s) \in Seq(S) /\ Len(Tail(s)) = Len(s) - 1 /\ Len(s) \in Nat /\ Len(s) >= 1
      /\ \A j \in 1 .. Len(s) - 1 : Tail(s)[j] = s[j + 1]
  BY HeadTailProperties
<1>2. s \o t \in Seq(S) /\ Len(s \o t) = Len(s) + Len(t) /\ Len(t) \in Nat
  OBVIOUS
<1>3. s \o t # <<>> /\ Head(s \o t) = Head(s)
  BY <1>1, <1>2
<1>4. /\ Tail(s \o t) \in Seq(S) /\ Len(Tail(s \o t)) = Len(s) + Len(t) - 1
      /\ \A j \in 1 .. Len(s) + Len(t) - 1 : Tail(s \o t)[j] = (s \o t)[j + 1]
  BY <1>2, <1>3, HeadTailProperties
<1>5. Tail(s) \o t \in Seq(S) /\ Len(Tail(s) \o t) = Len(s) + Len(t) - 1
  BY <1>1, <1>2
<1>6. \A j \in 1 .. Len(s) + Len(t) - 1 : Tail(s \o t)[j] = (Tail(s) \o t)[j]
  BY <1>1, <1>2, <1>4, <1>5
<1>7. QED
  BY <1>3, <1>4, <1>5, <1>6, SeqEqual

(* Behind the memory's part of a line are the bridge's and the interface's. *)
Behind(p) == writeFifo[p] \o Presented(p)

LEMMA LineSplit ==
  ASSUME TypeOK, NEW p \in Kernels
  PROVE  /\ Behind(p) \in Seq(Access) /\ Line(p) = pending[p] \o Behind(p)
         /\ pending[p] # <<>> => Tail(pending[p]) \o Behind(p) = Tail(pending[p]) \o writeFifo[p] \o Presented(p)
         /\ pending[p] \o Append(writeFifo[p], request[p])
              = Append(pending[p] \o writeFifo[p], request[p])
<1> DEFINE s == pending[p]
           t == writeFifo[p]
           u == Presented(p)
           e == request[p]
<1>1. s \in Seq(Access) /\ t \in Seq(Access) /\ e \in Access
  BY KernelTypes
<1>2. u \in Seq(Access)
  BY KernelTypes DEF Presented
<1>3. s # <<>> => Tail(s) \in Seq(Access)
  BY <1>1, FifoTypes
<1> HIDE DEF s, t, u, e
<1>4. t \o u \in Seq(Access) /\ (s \o t) \o u = s \o (t \o u)
  BY <1>1, <1>2, FrontOfThree
<1>5. s # <<>> => (Tail(s) \o t) \o u = Tail(s) \o (t \o u)
  BY <1>1, <1>2, <1>3, FrontOfThree
<1>6. s \o Append(t, e) = Append(s \o t, e)
  BY <1>1, PutLast
<1>7. QED
  BY <1>4, <1>5, <1>6 DEF Line, Behind, s, t, u, e

(* A write of the next word joins the line.                                *)
LEMMA UpdatesGrow ==
  ASSUME NEW s \in Seq(Access), NEW w \in Index, Updates(s, w)
  PROVE  Updates(Append(s, Write(w, memory[w] + 1)), w + 1)
<1> DEFINE a == Write(w, memory[w] + 1)
           t == Append(s, a)
<1>1. a.write /\ a.word = w /\ a.data = memory[a.word] + 1
  BY DEF Write
<1> HIDE DEF a
<1>2. /\ Len(s) \in Nat /\ Len(t) = Len(s) + 1 /\ t[Len(s) + 1] = a
      /\ \A i \in 1 .. Len(s) : t[i] = s[i]
  OBVIOUS
<1>3. w \in Nat /\ \A i \in 1 .. Len(s) : s[i].word \in Nat
  BY AccessTypes DEF Index
<1> HIDE DEF t
<1>4. \A i \in 1 .. Len(t) : i \in 1 .. Len(s) \/ i = Len(s) + 1
  BY <1>2
<1>5. \A i \in 1 .. Len(t) : t[i].write /\ t[i].word < w + 1 /\ t[i].data = memory[t[i].word] + 1
  <2> TAKE i \in 1 .. Len(t)
  <2>1. CASE i \in 1 .. Len(s)
    BY <1>2, <1>3, <2>1 DEF Updates
  <2>2. CASE i = Len(s) + 1
    BY <1>1, <1>2, <1>3, <2>2
  <2>3. QED
    BY <1>4, <2>1, <2>2
<1>6. \A i, j \in 1 .. Len(t) : i < j => t[i].word < t[j].word
  <2> TAKE i, j \in 1 .. Len(t)
  <2> HAVE i < j
  <2>1. i \in 1 .. Len(s)
    BY <1>2
  <2>2. CASE j \in 1 .. Len(s)
    BY <1>2, <2>1, <2>2 DEF Updates
  <2>3. CASE j = Len(s) + 1
    BY <1>1, <1>2, <2>1, <2>3 DEF Updates
  <2>4. QED
    BY <1>4, <2>2, <2>3
<1>7. QED
  BY <1>5, <1>6 DEF Updates, t, a

------------------------------------------------------------------------------
(* What a step of one kernel leaves to another.                            *)
Same(q) ==
  /\ pc'[q] = pc[q] /\ word'[q] = word[q] /\ value'[q] = value[q]
  /\ bridge'[q] = bridge[q] /\ request'[q] = request[q] /\ datain'[q] = datain[q]
  /\ writeFifo'[q] = writeFifo[q] /\ readAddrFifo'[q] = readAddrFifo[q]
  /\ hasLock'[q] = hasLock[q] /\ lockReleaseFifo'[q] = lockReleaseFifo[q]
  /\ pending'[q] = pending[q]
  /\ q \in acquireReq' <=> q \in acquireReq
  /\ holder' = q <=> holder = q

KernelStep(p) == CoreStep(p) \/ PortStep(p) \/ Grant(p)

LEMMA OthersSame ==
  ASSUME TypeOK, LockInv, NEW p \in Kernels, NEW q \in Kernels, q # p, KernelStep(p)
  PROVE  Same(q)
<1> USE CriticalRegionAssumption DEF Same, TypeOK, core, bus, fifos, lockside, service
<1>1. CASE Enter(p)
  BY <1>1 DEF Enter, Goto, EnterCriticalRegion
<1>2. CASE RequestRead(p)
  BY <1>2 DEF RequestRead, Goto, Present
<1>3. CASE ReceiveRead(p)
  BY <1>3 DEF ReceiveRead, Advance, Goto
<1>4. CASE RequestWrite(p)
  BY <1>4 DEF RequestWrite, Advance, Goto, Present
<1>5. CASE Leave(p)
  BY <1>5 DEF Leave, Goto, LeaveCriticalRegion
<1>6. CASE Issue(p)
  BY <1>6 DEF Issue
<1>7. CASE EnWrite(p)
  BY <1>7 DEF EnWrite
<1>8. CASE WriteResp(p)
  BY <1>8 DEF WriteResp
<1>9. CASE ReadReqAccept(p)
  BY <1>9 DEF ReadReqAccept
<1>10. CASE ObtainLock(p)
  BY <1>10 DEF ObtainLock
<1>11. CASE ReleaseLock(p)
  BY <1>11 DEF ReleaseLock, LockInv, LockIsOwned
<1>12. CASE MemoryWrite(p)
  BY <1>12 DEF MemoryWrite
<1>13. CASE MemoryRead(p)
  BY <1>13 DEF MemoryRead
<1>14. CASE Grant(p)
  BY <1>14 DEF Grant
<1>15. QED
  BY <1>1, <1>2, <1>3, <1>4, <1>5, <1>6, <1>7, <1>8, <1>9, <1>10, <1>11, <1>12,
     <1>13, <1>14
  DEF KernelStep, CoreStep, PortStep

(* Another kernel keeps its part of the invariant, if the memory stays as  *)
(* it is, or if it has no lock: then it has read nothing, and nothing of   *)
(* it is on its way.                                                       *)
LEMMA OthersKeep ==
  ASSUME TypeOK, NEW q \in Kernels, KernelInv(q), Same(q), memory' = memory \/ ~hasLock[q]
  PROVE  KernelInv(q)'
<1>1. RegionOf(q)'
  BY DEF KernelInv, RegionOf, Same, InRegion, AccessUnderWay, Asked, HasAnswer, Reading
<1>2. ReadOf(q)'
  BY DEF KernelInv, RegionOf, ReadOf, Same, AccessUnderWay, HasAnswer, Reading
<1>3. Line(q)' = Line(q) /\ Bound(q)' = Bound(q)
  BY DEF Same, Line, Presented, Bound
<1>4. ~Reading(q) /\ ~hasLock[q] => Line(q) = <<>>
  BY KernelTypes, LineFacts DEF KernelInv, RegionOf, AccessUnderWay, InRegion, HasAnswer, Reading
<1>5. WriteOf(q)'
  <2>1. CASE memory' = memory
    BY <1>3, <2>1 DEF KernelInv, WriteOf, Updates, Same, Reading
  <2>2. CASE ~hasLock[q]
    BY <1>3, <1>4, <2>2 DEF KernelInv, WriteOf, Updates, Same, Reading
  <2>3. QED
    BY <2>1, <2>2
<1>6. ValueOf(q)'
  <2>1. CASE memory' = memory
    BY <2>1 DEF KernelInv, ValueOf, Same, Reading
  <2>2. CASE ~hasLock[q]
    <3>1. pc[q] # "write" /\ (Reading(q) => word[q] = 1)
      BY <2>2, KernelTypes DEF KernelInv, RegionOf, HasAnswer
    <3>2. \A w \in Index : ~(w < 1)
      BY KernelTypes DEF Index
    <3>3. QED
      BY <3>1, <3>2 DEF ValueOf, Same, Reading
  <2>3. QED
    BY <2>1, <2>2
<1>7. QED
  BY <1>1, <1>2, <1>5, <1>6 DEF KernelInv

(* A step that leaves a line and its bound alone.                          *)
LEMMA WriteStays ==
  ASSUME NEW p \in Kernels, WriteOf(p), ~Reading(p), memory' = memory,
         readAddrFifo'[p] = readAddrFifo[p],
         Line(p)' = Line(p), Bound(p)' = Bound(p)
  PROVE  WriteOf(p)'
BY DEF WriteOf, Updates

(* The steps of the core.                                                  *)
LEMMA CoreKeeps ==
  ASSUME TypeOK, TypeOK', LockInv, NEW p \in Kernels, KernelInv(p), CoreStep(p), LongGap
  PROVE  KernelInv(p)'
<1> USE DEF KernelInv, core, bus, fifos, lockside, service
<1>1. /\ memory' = memory /\ pending' = pending /\ writeFifo' = writeFifo
      /\ readAddrFifo' = readAddrFifo /\ hasLock' = hasLock /\ holder' = holder
      /\ datain' = datain
  BY DEF CoreStep, Enter, RequestRead, ReceiveRead, RequestWrite, Leave, Present
<1>2. CASE Enter(p)
  <2>1. /\ pc[p] = "enter" /\ pc'[p] = "read" /\ ~hasLock[p]
        /\ word' = word /\ bridge' = bridge /\ lockReleaseFifo' = lockReleaseFifo
        /\ acquireReq' = acquireReq \cup {p} /\ value' = value
    BY <1>2 DEF Enter, Goto, EnterCriticalRegion, TypeOK
  <2>2. ~AccessUnderWay(p) /\ word[p] = 1 /\ ~Asked(p)
    BY <2>1 DEF RegionOf, InRegion
  <2>3. RegionOf(p)'
    BY <1>1, <2>1, <2>2 DEF RegionOf, InRegion, AccessUnderWay, Asked, HasAnswer, Reading
  <2>4. ReadOf(p)' /\ WriteOf(p)'
    BY <1>1, <2>1, <2>2 DEF ReadOf, WriteOf, Reading, AccessUnderWay
  <2>5. ValueOf(p)'
    <3>1. \A w \in Index : ~(w < 1)
      BY KernelTypes DEF Index
    <3>2. QED
      BY <2>1, <2>2, <3>1 DEF ValueOf, Reading
  <2>6. QED
    BY <2>3, <2>4, <2>5
<1>3. CASE RequestRead(p)
  <2>1. /\ pc[p] = "read" /\ pc'[p] = "await" /\ bridge[p] = "free"
        /\ bridge'[p] = "mem_request" /\ request'[p] = Read(word[p])
        /\ word' = word /\ value' = value
        /\ lockReleaseFifo' = lockReleaseFifo /\ acquireReq' = acquireReq
    BY <1>3 DEF RequestRead, Goto, Present, TypeOK
  <2>2. ~AccessUnderWay(p)
    BY <2>1 DEF ReadOf
  <2>3. RegionOf(p)'
    BY <1>1, <2>1 DEF RegionOf, InRegion, AccessUnderWay, Asked, HasAnswer, Reading
  <2>4. ReadOf(p)' /\ WriteOf(p)' /\ ValueOf(p)'
    BY <1>1, <2>1, <2>2 DEF ReadOf, WriteOf, ValueOf, Reading, AccessUnderWay
  <2>5. QED
    BY <2>3, <2>4
<1>4. CASE ReceiveRead(p)
  <2> DEFINE last == word[p] = Words
  <2>1. /\ pc[p] = "await" /\ bridge[p] = "free"
        /\ pc'[p] = IF last THEN "write" ELSE "read"
        /\ word'[p] = IF last THEN 1 ELSE word[p] + 1
        /\ bridge' = bridge
        /\ lockReleaseFifo' = lockReleaseFifo /\ acquireReq' = acquireReq
    BY <1>4 DEF ReceiveRead, Advance, Goto, NextWord, TypeOK
  <2>2. value'[p] = [value[p] EXCEPT ![word[p]] = datain[p]]
    BY <1>4 DEF ReceiveRead, TypeOK
  <2>3. hasLock[p] /\ ~AccessUnderWay(p) /\ datain[p] = memory[word[p]]
    BY <2>1 DEF RegionOf, HasAnswer, ReadOf, AccessUnderWay
  <2>4. RegionOf(p)'
    BY <1>1, <2>1, <2>3 DEF RegionOf, InRegion, AccessUnderWay, Asked, HasAnswer, Reading
  <2>5. ReadOf(p)'
    BY <1>1, <2>1, <2>3 DEF ReadOf, AccessUnderWay
  <2>6. Line(p)' = <<>> /\ readAddrFifo'[p] = <<>>
    BY <1>1, <2>1, <2>3, LineFacts DEF AccessUnderWay, Line, Presented
  <2>7. WriteOf(p)'
    BY <2>6 DEF WriteOf, Updates
  <2>8. \A w \in Index : w < word[p] \/ w = word[p] => value'[p][w] = memory[w]
    BY <2>1, <2>2, <2>3, KernelTypes DEF ValueOf, Reading, Index
  <2>9. ValueOf(p)'
    <3>1. CASE last
      <4>1. \A w \in Index : w < word[p] \/ w = word[p]
        BY <3>1, KernelTypes DEF Index
      <4>2. QED
        BY <1>1, <2>1, <2>8, <3>1, <4>1 DEF ValueOf, Reading
    <3>2. CASE ~last
      <4>1. \A w \in Index : w < word[p] + 1 => w < word[p] \/ w = word[p]
        BY KernelTypes DEF Index
      <4>2. QED
        BY <1>1, <2>1, <2>8, <3>2, <4>1 DEF ValueOf, Reading
    <3>3. QED
      BY <3>1, <3>2
  <2>10. QED
    BY <2>4, <2>5, <2>7, <2>9
<1>5. CASE RequestWrite(p)
  <2> DEFINE last == word[p] = Words
             update == Write(word[p], memory[word[p]] + 1)
  <2>1. /\ pc[p] = "write" /\ bridge[p] = "free"
        /\ pc'[p] = IF last THEN "leave" ELSE "write"
        /\ word'[p] = IF last THEN 1 ELSE word[p] + 1
        /\ bridge'[p] = "mem_request"
        /\ request'[p] = Write(word[p], value[p][word[p]] + 1)
        /\ value' = value /\ lockReleaseFifo' = lockReleaseFifo /\ acquireReq' = acquireReq
    BY <1>5 DEF RequestWrite, Advance, Goto, NextWord, Present, TypeOK
  <2>2. hasLock[p] /\ value[p][word[p]] = memory[word[p]]
    BY <2>1, KernelTypes DEF RegionOf, HasAnswer, ValueOf
  <2>3. RegionOf(p)'
    BY <1>1, <2>1, <2>2 DEF RegionOf, InRegion, AccessUnderWay, Asked, HasAnswer, Reading
  <2>4. ReadOf(p)'
    BY <2>1 DEF ReadOf
  <2>5. Line(p)' = Append(Line(p), update)
    <3>1. Line(p) = pending[p] \o writeFifo[p] /\ request'[p] = update
      BY <2>1, <2>2, LineFacts
    <3>2. Line(p)' = (pending[p] \o writeFifo[p]) \o <<update>>
      BY <1>1, <2>1, <3>1 DEF Line, Presented
    <3>3. update \in Access
      BY AccessTypes, KernelTypes
    <3>4. QED
      BY <3>1, <3>2, <3>3, LineFacts, AppendIsConcat
  <2>6. Bound(p)' = word[p] + 1 /\ Bound(p) = word[p]
    BY <2>1, KernelTypes DEF Bound
  <2>7. WriteOf(p)'
    <3>1. Updates(Line(p), word[p]) /\ readAddrFifo[p] = <<>>
      BY <2>1, <2>6 DEF WriteOf, Reading
    <3>2. Updates(Append(Line(p), update), word[p] + 1)
      BY <3>1, LineFacts, KernelTypes, UpdatesGrow
    <3>3. Updates(Line(p), Bound(p))'
      BY <1>1, <2>5, <2>6, <3>2 DEF Updates
    <3>4. QED
      BY <1>1, <3>1, <3>3 DEF WriteOf
  <2>8. ValueOf(p)'
    <3>1. \A w \in Index : w >= word[p] + 1 => w >= word[p]
      BY KernelTypes DEF Index
    <3>2. QED
      BY <1>1, <2>1, <3>1 DEF ValueOf, Reading
  <2>9. QED
    BY <2>3, <2>4, <2>7, <2>8
<1>6. CASE Leave(p)
  <2>1. /\ pc[p] = "leave" /\ pc'[p] \in {"done", "enter"} /\ bridge[p] # "mem_request"
        /\ word' = word /\ value' = value /\ bridge' = bridge /\ request' = request
        /\ lockReleaseFifo'[p] = (lockReleaseFifo[p] \/ hasLock[p]) /\ acquireReq' = acquireReq
    BY <1>6 DEF Leave, Goto, LeaveCriticalRegion, TypeOK
  <2>2. hasLock[p]
    BY <2>1 DEF RegionOf, HasAnswer
  <2>3. RegionOf(p)'
    BY <1>1, <2>1, <2>2 DEF RegionOf, InRegion, AccessUnderWay, Asked, HasAnswer, Reading
  <2>4. ReadOf(p)' /\ ValueOf(p)'
    BY <2>1 DEF ReadOf, ValueOf, Reading
  <2>5. Line(p)' = Line(p) /\ Bound(p)' = Bound(p)
    BY <1>1, <2>1 DEF Line, Presented, Bound
  <2>6. WriteOf(p)'
    BY <1>1, <2>1, <2>5, WriteStays DEF Reading
  <2>7. QED
    BY <2>3, <2>4, <2>6
<1>7. QED
  BY <1>2, <1>3, <1>4, <1>5, <1>6 DEF CoreStep

(* The steps of bridge and interface that hand an access on.               *)
LEMMA PortKeeps ==
  ASSUME TypeOK, TypeOK', LockInv, NEW p \in Kernels, KernelInv(p),
         Issue(p) \/ EnWrite(p) \/ WriteResp(p) \/ ReadReqAccept(p)
  PROVE  KernelInv(p)'
<1> USE DEF KernelInv, core, bus, fifos, lockside, service
<1>1. /\ memory' = memory /\ hasLock' = hasLock /\ holder' = holder /\ datain' = datain
      /\ pc' = pc /\ word' = word /\ value' = value /\ request' = request
      /\ lockReleaseFifo' = lockReleaseFifo /\ acquireReq' = acquireReq
  BY DEF Issue, EnWrite, WriteResp, ReadReqAccept
<1>2. ValueOf(p)' /\ Bound(p)' = Bound(p) /\ (Reading(p)' <=> Reading(p))
  BY <1>1 DEF ValueOf, Reading, Bound
<1>3. CASE Issue(p)
  <2>1. bridge[p] = "mem_request" /\ pending' = pending
    BY <1>3 DEF Issue
  <2>2. /\ request[p].write =>
             /\ bridge'[p] = "bus_write" /\ writeFifo'[p] = Append(writeFifo[p], request[p])
             /\ readAddrFifo'[p] = readAddrFifo[p]
        /\ ~request[p].write =>
             /\ bridge'[p] = "bus_read" /\ readAddrFifo'[p] = Append(readAddrFifo[p], request[p])
             /\ writeFifo'[p] = writeFifo[p]
    BY <1>3 DEF Issue, TypeOK
  <2>3. InRegion(p) /\ pc[p] # "read" /\ request[p].write \in BOOLEAN
    BY <2>1, KernelTypes, AccessTypes DEF RegionOf, ReadOf, AccessUnderWay
  <2>4. RegionOf(p)'
    BY <1>1, <2>2, <2>3 DEF RegionOf, InRegion, Asked, HasAnswer, Reading
  <2>5. CASE pc[p] = "await"
    <3>1. /\ request[p] = Read(word[p]) /\ readAddrFifo[p] = <<>> /\ pending[p] = <<>>
          /\ writeFifo[p] = <<>>
      BY <2>1, <2>5 DEF ReadOf
    <3>2. ~request[p].write /\ Append(<<>>, Read(word[p])) = <<Read(word[p])>>
      BY <3>1 DEF Read
    <3>3. ReadOf(p)'
      BY <1>1, <2>1, <2>2, <2>5, <3>1, <3>2 DEF ReadOf
    <3>4. QED
      BY <1>1, <1>2, <2>4, <2>5, <3>3 DEF WriteOf, Reading
  <2>6. CASE pc[p] # "await"
    <3>1. ~Reading(p)
      BY <2>3, <2>6 DEF Reading
    <3>2. Line(p) = Append(pending[p] \o writeFifo[p], request[p])
      BY <2>1, LineFacts
    <3>3. request[p].write
      <4>1. Len(Line(p)) \in 1 .. Len(Line(p)) /\ Line(p)[Len(Line(p))] = request[p]
        <5>1. pending[p] \o writeFifo[p] \in Seq(Access) /\ request[p] \in Access
          BY LineFacts, KernelTypes
        <5>2. QED
          BY <3>2, <5>1, LastOfAppend, Zenon
      <4>2. QED
        BY <3>1, <4>1 DEF WriteOf, Updates
    <3>4. Line(p)' = Line(p)
      <4>2. pending[p] \o Append(writeFifo[p], request[p])
              = Append(pending[p] \o writeFifo[p], request[p])
        BY LineSplit
      <4>3. Line(p)' = (pending[p] \o Append(writeFifo[p], request[p])) \o <<>>
        BY <2>1, <2>2, <3>3 DEF Line, Presented
      <4>4. QED
        BY <3>2, <4>2, <4>3, LineFacts, ConcatEmptySeq
    <3>5. WriteOf(p)'
      BY <1>1, <1>2, <2>2, <3>1, <3>3, <3>4, WriteStays
    <3>6. ReadOf(p)'
      BY <1>1, <3>1 DEF ReadOf, Reading
    <3>7. QED
      BY <1>2, <2>4, <3>5, <3>6
  <2>7. QED
    BY <2>5, <2>6
<1>4. CASE EnWrite(p)
  <2>1. /\ bridge[p] = "bus_write" /\ bridge'[p] = "free"
        /\ writeFifo' = writeFifo /\ readAddrFifo' = readAddrFifo /\ pending' = pending
    BY <1>4 DEF EnWrite, TypeOK
  <2>2. pc[p] # "await"
    BY <2>1 DEF ReadOf
  <2>3. RegionOf(p)' /\ ReadOf(p)'
    BY <1>1, <2>1, <2>2 DEF RegionOf, ReadOf, InRegion, AccessUnderWay, Asked, HasAnswer, Reading
  <2>4. Line(p)' = Line(p)
    BY <2>1 DEF Line, Presented
  <2>5. WriteOf(p)'
    BY <1>1, <1>2, <2>1, <2>4, WriteStays DEF WriteOf
  <2>6. QED
    BY <1>2, <2>3, <2>5
<1>5. CASE WriteResp(p)
  <2>1. /\ writeFifo[p] # <<>> /\ hasLock[p]
        /\ pending'[p] = Append(pending[p], Head(writeFifo[p]))
        /\ writeFifo'[p] = Tail(writeFifo[p])
        /\ bridge' = bridge /\ readAddrFifo' = readAddrFifo
    BY <1>5 DEF WriteResp, MayAccess, TypeOK
  <2>2. ~Reading(p)
    BY <2>1 DEF ReadOf, Reading, AccessUnderWay
  <2>3. RegionOf(p)' /\ ReadOf(p)'
    BY <1>1, <2>1, <2>2 DEF RegionOf, ReadOf, InRegion, Asked, HasAnswer, Reading
  <2>4. Line(p)' = Line(p)
    <3>1. Append(pending[p], Head(writeFifo[p])) \o Tail(writeFifo[p])
            = pending[p] \o writeFifo[p]
      BY <2>1, KernelTypes, HandOver
    <3>2. QED
      BY <1>1, <2>1, <3>1 DEF Line, Presented
  <2>5. WriteOf(p)'
    BY <1>1, <1>2, <2>1, <2>2, <2>4, WriteStays
  <2>6. QED
    BY <1>2, <2>3, <2>5
<1>6. CASE ReadReqAccept(p)
  <2>1. /\ readAddrFifo[p] # <<>> /\ hasLock[p]
        /\ pending'[p] = Append(pending[p], Head(readAddrFifo[p]))
        /\ readAddrFifo'[p] = Tail(readAddrFifo[p])
        /\ bridge' = bridge /\ writeFifo' = writeFifo
    BY <1>6 DEF ReadReqAccept, MayAccess, TypeOK
  <2>2. pc[p] = "await"
    BY <2>1 DEF ReadOf, WriteOf, Reading, AccessUnderWay
  <2>3. /\ writeFifo[p] = <<>> /\ bridge[p] = "bus_read"
        /\ readAddrFifo[p] = <<Read(word[p])>> /\ pending[p] = <<>>
    BY <2>1, <2>2 DEF ReadOf
  <2>4. readAddrFifo'[p] = <<>> /\ pending'[p] = <<Read(word[p])>>
    BY <2>1, <2>3
  <2>5. RegionOf(p)'
    BY <1>1, <2>1, <2>2 DEF RegionOf, InRegion, Asked, HasAnswer, Reading
  <2>6. ReadOf(p)' /\ WriteOf(p)'
    BY <1>1, <2>1, <2>2, <2>3, <2>4 DEF ReadOf, WriteOf, Reading
  <2>7. QED
    BY <1>2, <2>5, <2>6
<1>7. QED
  BY <1>3, <1>4, <1>5, <1>6

(* The lock changes hands.                                                 *)
LEMMA LockKeeps ==
  ASSUME TypeOK, TypeOK', LockInv, NEW p \in Kernels, KernelInv(p), WriteFirst,
         ObtainLock(p) \/ ReleaseLock(p) \/ Grant(p)
  PROVE  KernelInv(p)'
<1> USE DEF KernelInv, core, bus, fifos, lockside, service
<1>1. /\ memory' = memory /\ pending' = pending /\ datain' = datain
      /\ pc' = pc /\ word' = word /\ value' = value /\ request' = request
      /\ bridge' = bridge /\ writeFifo' = writeFifo /\ readAddrFifo' = readAddrFifo
  BY DEF ObtainLock, ReleaseLock, Grant
<1>2. ReadOf(p)' /\ ValueOf(p)'
  BY <1>1 DEF ReadOf, ValueOf, Reading, AccessUnderWay
<1>3. WriteOf(p)'
  BY <1>1 DEF WriteOf, Updates, Line, Presented, Bound, Reading
<1>4. RegionOf(p)'
  <2>1. CASE ObtainLock(p)
    <3>1. /\ ~hasLock[p] /\ hasLock'[p] /\ holder = p /\ holder' = holder
          /\ acquireReq' = acquireReq /\ lockReleaseFifo' = lockReleaseFifo
      BY <2>1 DEF ObtainLock, TypeOK
    <3>2. QED
      BY <1>1, <3>1 DEF RegionOf, InRegion, Asked, AccessUnderWay, HasAnswer, Reading
  <2>2. CASE ReleaseLock(p)
    <3>1. /\ hasLock[p] /\ ~hasLock'[p] /\ lockReleaseFifo[p] /\ ~lockReleaseFifo'[p]
          /\ pending[p] = <<>> /\ writeFifo[p] = <<>> /\ readAddrFifo[p] = <<>>
          /\ holder' = NoKernel /\ acquireReq' = acquireReq
      BY <2>2 DEF ReleaseLock, NothingPending, TypeOK
    <3>2. holder = p /\ p # NoKernel
      BY <3>1, CriticalRegionAssumption DEF LockInv, LockIsOwned
    <3>3. ~InRegion(p) /\ p \notin acquireReq /\ bridge[p] # "mem_request"
      BY <3>1, <3>2 DEF RegionOf
    <3>4. QED
      BY <1>1, <3>1, <3>2, <3>3 DEF RegionOf, InRegion, Asked, AccessUnderWay, HasAnswer, Reading
  <2>3. CASE Grant(p)
    <3>1. /\ holder = NoKernel /\ p \in acquireReq /\ holder' = p
          /\ acquireReq' = acquireReq \ {p}
          /\ hasLock' = hasLock /\ lockReleaseFifo' = lockReleaseFifo
      BY <2>3 DEF Grant
    <3>2. QED
      BY <1>1, <3>1 DEF RegionOf, InRegion, Asked, AccessUnderWay, HasAnswer, Reading
  <2>4. QED
    BY <2>1, <2>2, <2>3
<1>5. QED
  BY <1>2, <1>3, <1>4

(* A write is performed: it adds one to its word, and no other write of    *)
(* the line, and no word that is still to be written, is of that word.     *)
LEMMA MemoryWriteKeeps ==
  ASSUME TypeOK, TypeOK', LockInv, NoLostUpdate, NEW p \in Kernels, KernelInv(p), MemoryWrite(p)
  PROVE  KernelInv(p)' /\ NoLostUpdate'
<1> USE DEF KernelInv, core, bus, fifos, lockside, service
<1> DEFINE access == Head(pending[p])
           w == access.word
<1>1. /\ pending[p] # <<>> /\ access.write
      /\ memory' = [memory EXCEPT ![w] = access.data]
      /\ applied' = [applied EXCEPT ![w] = applied[w] + 1]
      /\ pending'[p] = Tail(pending[p])
      /\ pc' = pc /\ word' = word /\ value' = value /\ bridge' = bridge /\ request' = request
      /\ datain' = datain /\ writeFifo' = writeFifo /\ readAddrFifo' = readAddrFifo
      /\ hasLock' = hasLock /\ lockReleaseFifo' = lockReleaseFifo
      /\ acquireReq' = acquireReq /\ holder' = holder
  BY DEF MemoryWrite, TypeOK
<1>2. access \in Access /\ w \in Index
  BY <1>1, KernelTypes, FifoTypes, AccessTypes
<1>3. ~Reading(p)
  <2>1. pc[p] # "read"
    BY <1>1 DEF ReadOf, AccessUnderWay
  <2>2. pc[p] # "await"
    <3> SUFFICES ASSUME pc[p] = "await" PROVE FALSE
      OBVIOUS
    <3>1. pending[p] = <<Read(word[p])>>
      BY <1>1 DEF ReadOf
    <3>2. access = Read(word[p])
      BY <3>1
    <3>3. QED
      BY <1>1, <3>2 DEF Read
  <2>3. QED
    BY <2>1, <2>2 DEF Reading
<1>4. hasLock[p]
  BY <1>1 DEF LockInv, PendingUnderLock
<1>5. /\ Line(p) \in Seq(Access) /\ Line(p) # <<>> /\ Head(Line(p)) = access
      /\ Line(p)' = Tail(Line(p))
  <2>1. /\ Line(p) = pending[p] \o Behind(p)
        /\ Tail(pending[p]) \o Behind(p) = Tail(pending[p]) \o writeFifo[p] \o Presented(p)
    BY <1>1, LineSplit
  <2>2. Behind(p) \in Seq(Access) /\ pending[p] \in Seq(Access)
    BY LineSplit, KernelTypes
  <2>3. Presented(p)' = Presented(p)
    BY <1>1 DEF Presented
  <2>4. Line(p)' = Tail(pending[p]) \o Behind(p)
    BY <1>1, <2>1, <2>3 DEF Line
  <2>5. pending[p] \o Behind(p) # <<>> /\ Head(pending[p] \o Behind(p)) = Head(pending[p])
        /\ Tail(pending[p] \o Behind(p)) = Tail(pending[p]) \o Behind(p)
    BY <1>1, <2>2, TakeFirst
  <2>6. QED
    BY <2>1, <2>4, <2>5, LineFacts
<1> HIDE DEF access
<1> DEFINE line == Line(p)
           tail == Tail(line)
<1>6. Updates(line, Bound(p)) /\ readAddrFifo[p] = <<>>
  BY <1>3 DEF WriteOf
<1>7. /\ Len(line) \in Nat /\ Len(line) >= 1 /\ Len(tail) = Len(line) - 1
      /\ line[1] = access
      /\ \A j \in 1 .. Len(tail) : tail[j] = line[j + 1] /\ line[j + 1] \in Access
  BY <1>5, HeadTailProperties
<1> HIDE DEF line, tail
<1>8. access.data = memory[w] + 1 /\ w < Bound(p)
  BY <1>6, <1>7 DEF Updates
<1>9. /\ memory \in [Index -> Nat] /\ applied \in [Index -> Nat]
      /\ memory' = [memory EXCEPT ![w] = memory[w] + 1]
  BY <1>1, <1>8 DEF TypeOK
<1>10. NoLostUpdate'
  BY <1>1, <1>2, <1>9 DEF NoLostUpdate
<1>11. Bound(p)' = Bound(p) /\ (Reading(p)' <=> Reading(p))
  BY <1>1 DEF Bound, Reading
<1>12. \A j \in 1 .. Len(tail) :
         /\ tail[j].write /\ tail[j].word < Bound(p) /\ tail[j].word \in Index
         /\ tail[j].word > w /\ tail[j].data = memory[tail[j].word] + 1
  <2> TAKE j \in 1 .. Len(tail)
  <2>1. j + 1 \in 1 .. Len(line) /\ 1 \in 1 .. Len(line) /\ 1 < j + 1
    BY <1>7
  <2>2. tail[j] = line[j + 1] /\ tail[j].word \in Index
    BY <1>7, AccessTypes
  <2>3. line[1].word < line[j + 1].word
    BY <1>6, <2>1 DEF Updates
  <2>4. QED
    BY <1>2, <1>6, <1>7, <2>1, <2>2, <2>3 DEF Updates, Index
<1>13. \A i, j \in 1 .. Len(tail) : i < j => tail[i].word < tail[j].word
  <2> TAKE i, j \in 1 .. Len(tail)
  <2>1. i + 1 \in 1 .. Len(line) /\ j + 1 \in 1 .. Len(line) /\ (i < j => i + 1 < j + 1)
    BY <1>7
  <2>2. QED
    BY <1>6, <1>7, <2>1 DEF Updates
<1>14. WriteOf(p)'
  <2>1. \A v \in Index : v > w => memory'[v] = memory[v]
    BY <1>2, <1>9 DEF Index
  <2>2. \A j \in 1 .. Len(tail) : tail[j].data = memory'[tail[j].word] + 1
    BY <1>12, <2>1
  <2>3. Line(p)' = tail
    BY <1>5 DEF tail, line
  <2>4. Updates(Line(p), Bound(p))'
    BY <1>11, <1>12, <1>13, <2>2, <2>3 DEF Updates
  <2>5. QED
    BY <1>1, <1>6, <2>4 DEF WriteOf
<1>15. ValueOf(p)'
  <2>1. pc[p] = "write" => \A v \in Index : v >= word[p] => v # w
    BY <1>2, <1>8, KernelTypes DEF Bound, Index
  <2>2. pc[p] = "write" => \A v \in Index : v >= word[p] => memory'[v] = memory[v]
    BY <1>2, <1>9, <2>1
  <2>3. QED
    BY <1>1, <1>3, <2>2 DEF ValueOf, Reading
<1>16. RegionOf(p)' /\ ReadOf(p)'
  BY <1>1, <1>3, <1>4 DEF RegionOf, ReadOf, InRegion, Asked, HasAnswer, Reading
<1>17. QED
  BY <1>10, <1>14, <1>15, <1>16

(* A read is answered with the word as it is.                              *)
LEMMA MemoryReadKeeps ==
  ASSUME TypeOK, TypeOK', LockInv, NEW p \in Kernels, KernelInv(p), MemoryRead(p)
  PROVE  KernelInv(p)'
<1> USE DEF KernelInv, core, bus, fifos, lockside, service
<1>1. /\ pending[p] # <<>> /\ ~Head(pending[p]).write
      /\ datain'[p] = memory[Head(pending[p]).word]
      /\ bridge'[p] = IF bridge[p] = "bus_read" THEN "free" ELSE bridge[p]
      /\ pending'[p] = Tail(pending[p])
      /\ pc' = pc /\ word' = word /\ value' = value /\ request' = request /\ memory' = memory
      /\ writeFifo' = writeFifo /\ readAddrFifo' = readAddrFifo
      /\ hasLock' = hasLock /\ lockReleaseFifo' = lockReleaseFifo
      /\ acquireReq' = acquireReq /\ holder' = holder
  BY DEF MemoryRead, TypeOK
<1>2. hasLock[p]
  BY <1>1 DEF LockInv, PendingUnderLock
<1>3. pc[p] = "await"
  <2> SUFFICES ASSUME pc[p] # "await" PROVE FALSE
    OBVIOUS
  <2>1. ~Reading(p)
    BY <1>1 DEF ReadOf, Reading, AccessUnderWay
  <2>2. pending[p] \in Seq(Access) /\ Behind(p) \in Seq(Access)
        /\ Line(p) = pending[p] \o Behind(p)
    BY KernelTypes, LineSplit
  <2>3. Len(Line(p)) >= 1 /\ Line(p)[1] = Head(pending[p]) /\ Len(Line(p)) \in Nat
    BY <1>1, <2>2, FirstOfConcat
  <2>4. QED
    BY <1>1, <2>1, <2>3 DEF WriteOf, Updates
<1>4. /\ bridge[p] = "bus_read" /\ pending[p] = <<Read(word[p])>>
      /\ readAddrFifo[p] = <<>> /\ writeFifo[p] = <<>>
  BY <1>1, <1>3 DEF ReadOf
<1>5. datain'[p] = memory[word[p]] /\ pending'[p] = <<>> /\ bridge'[p] = "free"
  BY <1>1, <1>4 DEF Read
<1>6. RegionOf(p)'
  BY <1>1, <1>2, <1>3, <1>5 DEF RegionOf, InRegion, Asked, HasAnswer, Reading
<1>7. ReadOf(p)' /\ WriteOf(p)' /\ ValueOf(p)'
  BY <1>1, <1>3, <1>4, <1>5 DEF ReadOf, WriteOf, ValueOf, Reading
<1>8. QED
  BY <1>6, <1>7

------------------------------------------------------------------------------
(* Only a memory write changes the record or the count of writes.          *)
LEMMA RecordStays ==
  ASSUME NEW p \in Kernels, KernelStep(p), ~MemoryWrite(p)
  PROVE  memory' = memory /\ applied' = applied
BY DEF KernelStep, CoreStep, PortStep, Enter, RequestRead, ReceiveRead, RequestWrite, Leave,
       Present, Issue, EnWrite, WriteResp, ReadReqAccept, ObtainLock, ReleaseLock, Grant,
       MemoryRead

LEMMA UpdateInit == Init => UpdateInv
<1> SUFFICES ASSUME Init PROVE UpdateInv
  OBVIOUS
<1>1. NoLostUpdate
  BY DEF Init, NoLostUpdate
<1>2. ASSUME NEW p \in Kernels
      PROVE  KernelInv(p)
  <2>1. /\ pc[p] \in {"enter", "done"} /\ word[p] = 1 /\ bridge[p] = "free"
        /\ writeFifo[p] = <<>> /\ readAddrFifo[p] = <<>> /\ pending[p] = <<>>
        /\ ~hasLock[p] /\ ~lockReleaseFifo[p] /\ acquireReq = {}
        /\ holder = NoKernel /\ p # NoKernel
    BY CriticalRegionAssumption DEF Init
  <2>2. RegionOf(p) /\ ReadOf(p) /\ ValueOf(p)
    BY <2>1
    DEF RegionOf, ReadOf, ValueOf, InRegion, Asked, AccessUnderWay, HasAnswer, Reading
  <2>3. Line(p) = <<>>
    BY <2>1 DEF Line, Presented
  <2>4. WriteOf(p)
    BY <2>1, <2>3 DEF WriteOf, Updates
  <2>5. QED
    BY <2>2, <2>4 DEF KernelInv
<1>3. QED
  BY <1>1, <1>2 DEF UpdateInv

LEMMA UpdateStep ==
  ASSUME TypeOK, TypeOK', LockInv, UpdateInv, [Next]_vars, WriteFirst, LongGap
  PROVE  UpdateInv'
<1>1. ASSUME NEW p \in Kernels, KernelStep(p)
      PROVE  UpdateInv'
  <2>1. NoLostUpdate /\ KernelInv(p)
    BY DEF UpdateInv
  <2>2. KernelInv(p)' /\ NoLostUpdate'
    <3>1. CASE MemoryWrite(p)
      BY <2>1, <3>1, MemoryWriteKeeps
    <3>2. CASE ~MemoryWrite(p)
      <4>1. NoLostUpdate'
        BY <1>1, <2>1, <3>2, RecordStays DEF NoLostUpdate
      <4>2. CASE CoreStep(p)
        BY <2>1, <4>1, <4>2, CoreKeeps
      <4>3. CASE Issue(p) \/ EnWrite(p) \/ WriteResp(p) \/ ReadReqAccept(p)
        BY <2>1, <4>1, <4>3, PortKeeps
      <4>4. CASE ObtainLock(p) \/ ReleaseLock(p) \/ Grant(p)
        BY <2>1, <4>1, <4>4, LockKeeps
      <4>5. CASE MemoryRead(p)
        BY <2>1, <4>1, <4>5, MemoryReadKeeps
      <4>6. QED
        BY <1>1, <3>2, <4>2, <4>3, <4>4, <4>5 DEF KernelStep, PortStep
    <3>3. QED
      BY <3>1, <3>2
  <2>3. ASSUME NEW q \in Kernels, q # p
        PROVE  KernelInv(q)'
    <3>1. KernelInv(q) /\ Same(q)
      BY <1>1, <2>3, OthersSame DEF UpdateInv
    <3>2. memory' = memory \/ ~hasLock[q]
      <4>1. CASE MemoryWrite(p)
        <5>1. hasLock[p]
          BY <4>1 DEF MemoryWrite, LockInv, PendingUnderLock
        <5>2. QED
          BY <2>3, <5>1 DEF LockInv, LockIsOwned
      <4>2. CASE ~MemoryWrite(p)
        BY <1>1, <4>2, RecordStays
      <4>3. QED
        BY <4>1, <4>2
    <3>3. QED
      BY <3>1, <3>2, OthersKeep
  <2>4. QED
    BY <2>2, <2>3 DEF UpdateInv
<1>2. CASE UNCHANGED vars
  <2>1. memory' = memory /\ applied' = applied /\ \A q \in Kernels : Same(q)
    BY <1>2 DEF vars, core, bus, fifos, lockside, service, Same
  <2>2. \A q \in Kernels : KernelInv(q)'
    BY <2>1, OthersKeep DEF UpdateInv
  <2>3. QED
    BY <2>1, <2>2 DEF UpdateInv, NoLostUpdate
<1>3. QED
  BY <1>1, <1>2 DEF Next, KernelStep

(* The invariant holds in every reachable state of such a build.           *)
THEOREM UpdateInvariant ==
  ASSUME WriteFirst, LongGap
  PROVE  Spec => []UpdateInv
<1>1. Init => UpdateInv
  BY UpdateInit
<1>2. TypeOK /\ TypeOK' /\ LockInv /\ UpdateInv /\ [Next]_vars => UpdateInv'
  BY UpdateStep, WriteFirst, LongGap
<1>3. Spec => [](TypeOK /\ LockInv)
  BY TypeCorrect, LockInvariant, PTL
<1>4. QED
  BY <1>1, <1>2, <1>3, PTL DEF Spec

(* No update is lost: whatever kernels interleave, a shared word is what   *)
(* the writes performed on it add up to, because none was computed from a  *)
(* value that another kernel had replaced.                                 *)
THEOREM NoUpdateLost ==
  ASSUME WriteFirst, LongGap
  PROVE  Spec => []NoLostUpdate
<1>1. UpdateInv => NoLostUpdate
  BY DEF UpdateInv
<1>2. QED
  BY <1>1, UpdateInvariant, WriteFirst, LongGap, PTL

(* The unanswered request for the lock suffices: a core in a region, or    *)
(* one with an access under way, has asked for the lock or owns it, and    *)
(* so no access waits at the interface for a lock nobody will ask for.     *)
THEOREM RegionsHaveTheLock ==
  ASSUME WriteFirst, LongGap
  PROVE  Spec => []RegionHasLock
<1>1. LockInv /\ UpdateInv => RegionHasLock
  BY DEF LockInv, LockIsOwned, UpdateInv, KernelInv, RegionOf, RegionHasLock, Asked
<1>2. QED
  BY <1>1, LockInvariant, UpdateInvariant, WriteFirst, LongGap, PTL

(* The end of a region is never early: when the interface has given the    *)
(* lock up, all the core wrote in its region is in the memory.             *)
THEOREM ReleasedAfterWriting ==
  ASSUME WriteFirst, LongGap
  PROVE  Spec => []ReleasedMeansWritten
<1>1. UpdateInv => ReleasedMeansWritten
  BY DEF UpdateInv, KernelInv, RegionOf, ReleasedMeansWritten
<1>2. QED
  BY <1>1, UpdateInvariant, WriteFirst, LongGap, PTL

==============================================================================
