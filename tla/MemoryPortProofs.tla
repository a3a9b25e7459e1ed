--------------------------- MODULE MemoryPortProofs ---------------------------
(***************************************************************************)
(* Proofs about the private memory port, for every size of its queues,     *)
(* every set of addresses and of values: one request at a time is on its   *)
(* way through the FIFOs, and the port behaves as an array although stores *)
(* are posted and loads and stores take different FIFOs.                   *)
(***************************************************************************)
EXTENDS MemoryPort, FiniteSetTheorems, WellFoundedInduction, TLAPS

(* Where the one request can be.  What the scratchpad has accepted before  *)
(* a load is accepted are stores; the load is the last of what it has      *)
(* accepted, and finds them performed.                                     *)
AllStores(q) == \A i \in 1 .. Len(q) : q[i].write
LoadLast(q) ==
  /\ Len(q) > 0
  /\ \A i \in 1 .. Len(q) : q[i].write <=> i < Len(q)
  /\ q[Len(q)].addr = addr

(* The core waits for its load and for nothing else.                       *)
OfTheCore(r) == (r.write <=> pc = "run") /\ (~r.write => r.addr = addr)

FifoEmpty == depth_cnt = 0 /\ wr_ptr = rd_ptr
StoresOnly ==
  /\ writeFifo = <<>> /\ readAddrFifo = <<>> /\ readRsp = <<>> /\ AllStores(accepted)

Free ==
  /\ state = "free" /\ FifoEmpty /\ ~valid /\ StoresOnly
  /\ pc = "load" => accepted = <<>> /\ datain = memory[addr]
Queued ==
  /\ state = "mem_request" /\ ~valid /\ StoresOnly
  /\ depth_cnt = 1 /\ wr_ptr = (rd_ptr + 1) % Depth
  /\ OfTheCore(slots[rd_ptr])
Sent ==
  /\ state = "mem_request" /\ FifoEmpty /\ valid /\ StoresOnly
  /\ OfTheCore(dout)
Writing ==
  /\ state = "bus_write" /\ FifoEmpty /\ ~valid /\ pc = "run"
  /\ readAddrFifo = <<>> /\ readRsp = <<>> /\ AllStores(accepted)
  /\ writeFifo = <<>> \/ (Len(writeFifo) = 1 /\ writeFifo[1].write)
Reading ==
  /\ state = "bus_read" /\ FifoEmpty /\ ~valid /\ pc = "load" /\ writeFifo = <<>>
  /\ \/ /\ Len(readAddrFifo) = 1 /\ OfTheCore(readAddrFifo[1])
        /\ AllStores(accepted) /\ readRsp = <<>>
     \/ readAddrFifo = <<>> /\ LoadLast(accepted) /\ readRsp = <<>>
     \/ readAddrFifo = <<>> /\ accepted = <<>> /\ readRsp = <<memory[addr]>>

IInv == TypeOK /\ (Free \/ Queued \/ Sent \/ Writing \/ Reading)

------------------------------------------------------------------------------
(* The last of several places.  That there is one needs induction, which   *)
(* is taken from the well-founded order of the library: of the intervals   *)
(* that end in n, one of the least that start in the set.                  *)
LEMMA MaxOfPlaces ==
  ASSUME NEW n \in Nat, NEW T \in SUBSET (1 .. n), T # {}
  PROVE  Max(T) \in T /\ \A j \in T : j <= Max(T)
<1> DEFINE S == 1 .. n
           R == StrictSubsetOrdering(S)
           U == {x .. n : x \in T}
<1>1. IsFiniteSet(S)
  BY FS_Interval
<1>2. IsWellFoundedOn(R, SUBSET S)
  BY <1>1, FS_StrictSubsetOrderingWellFounded, FS_FiniteSubsetsOfFinite
<1>3. \A x, y \in SUBSET S : <<x, y>> \in R <=> x \subseteq y /\ x # y
  BY DEF StrictSubsetOrdering
<1>4. U \subseteq SUBSET S /\ U # {}
  <2>1. \A x \in T : x .. n \in SUBSET S
    OBVIOUS
  <2>2. U # {}
    OBVIOUS
  <2> HIDE DEF S
  <2>3. QED
    BY <2>1, <2>2
<1> HIDE DEF R
<1>5. PICK u \in U : \A v \in U : ~ (<<v, u>> \in R)
  BY <1>2, <1>4, WFMin
<1>6. PICK x \in T : u = x .. n
  OBVIOUS
<1>7. ASSUME NEW j \in T
      PROVE  j <= x
  <2>1. SUFFICES ASSUME x < j
                 PROVE  FALSE
    OBVIOUS
  <2>2. j .. n \in U /\ j .. n \subseteq x .. n /\ x \in x .. n /\ x \notin j .. n
    BY <2>1
  <2>3. <<j .. n, u>> \in R
    BY <1>3, <1>4, <1>6, <2>2
  <2>4. QED
    BY <1>5, <2>2, <2>3
<1>8. \E y \in T : \A j \in T : y >= j
  BY <1>7
<1>9. QED
  BY <1>8 DEF Max

LEMMA MaxIs ==
  ASSUME NEW T \in SUBSET Nat, NEW x \in T, \A j \in T : j <= x
  PROVE  Max(T) = x
<1>1. \A y \in T : (\A j \in T : y >= j) => y = x
  OBVIOUS
<1>2. QED
  BY <1>1 DEF Max

------------------------------------------------------------------------------
(* The value of an array behind a queue of accesses, access by access.     *)
Words == [Addresses -> Data]
Perform(m, r) == IF r.write THEN [m EXCEPT ![r.addr] = r.data] ELSE m

LEMMA PerformType ==
  ASSUME NEW m \in Words, NEW r \in Request
  PROVE  Perform(m, r) \in Words
BY DEF Perform, Words, Request

LEMMA AfterNone ==
  ASSUME NEW m \in Words
  PROVE  After(m, <<>>) = m
<1>1. \A a : Stores(<<>>, a) = {}
  BY DEF Stores
<1>2. QED
  BY <1>1 DEF After, Words

LEMMA AfterAppend ==
  ASSUME NEW m \in Words, NEW q \in Seq(Request), NEW r \in Request
  PROVE  After(m, Append(q, r)) = Perform(After(m, q), r)
<1> DEFINE w == Append(q, r)
<1>1. /\ DOMAIN q = 1 .. Len(q) /\ DOMAIN w = 1 .. Len(q) + 1 /\ Len(q) \in Nat
      /\ \A i \in 1 .. Len(q) : w[i] = q[i]
      /\ w[Len(q) + 1] = r
  OBVIOUS
<1> HIDE DEF w
<1>2. ASSUME NEW a \in Addresses
      PROVE  After(m, w)[a] = Perform(After(m, q), r)[a]
  <2>1. CASE r.write /\ r.addr = a
    <3>1. Len(q) + 1 \in Stores(w, a)
      BY <1>1, <2>1 DEF Stores
    <3>2. Stores(w, a) \subseteq Nat /\ \A j \in Stores(w, a) : j <= Len(q) + 1
      BY <1>1 DEF Stores
    <3>3. Max(Stores(w, a)) = Len(q) + 1
      BY <3>1, <3>2, MaxIs
    <3>4. After(m, w)[a] = r.data
      BY <1>1, <3>1, <3>3 DEF After
    <3>5. Perform(After(m, q), r)[a] = r.data
      BY <2>1 DEF Perform, After
    <3>6. QED
      BY <3>4, <3>5
  <2>2. CASE ~(r.write /\ r.addr = a)
    <3>1. Stores(w, a) = Stores(q, a)
      BY <1>1, <2>2 DEF Stores
    <3>2. Stores(q, a) # {} => Max(Stores(q, a)) \in 1 .. Len(q)
      <4>1. Stores(q, a) \in SUBSET (1 .. Len(q))
        BY <1>1 DEF Stores
      <4>2. QED
        BY <1>1, <4>1, MaxOfPlaces
    <3>3. After(m, w)[a] = After(m, q)[a]
      BY <1>1, <3>1, <3>2 DEF After
    <3>4. Perform(After(m, q), r)[a] = After(m, q)[a]
      BY <2>2 DEF Perform, After
    <3>5. QED
      BY <3>3, <3>4
  <2>3. QED
    BY <2>1, <2>2
<1>3. After(m, w) = [a \in Addresses |-> After(m, w)[a]]
  BY DEF After
<1>4. Perform(After(m, q), r) = [a \in Addresses |-> Perform(After(m, q), r)[a]]
  BY DEF Perform, After
<1>5. QED
  BY <1>2, <1>3, <1>4 DEF w

LEMMA AfterPerform ==
  ASSUME NEW m \in Words, NEW q \in Seq(Request), q # <<>>
  PROVE  After(Perform(m, Head(q)), Tail(q)) = After(m, q)
<1> DEFINE w == Tail(q)
           r == Head(q)
<1>1. /\ DOMAIN q = 1 .. Len(q) /\ Len(q) \in Nat /\ Len(q) >= 1
      /\ DOMAIN w = 1 .. Len(q) - 1 /\ r = q[1] /\ r \in Request
      /\ \A i \in 1 .. Len(q) - 1 : w[i] = q[i + 1]
  OBVIOUS
<1> HIDE DEF w, r
<1>2. ASSUME NEW a \in Addresses
      PROVE  After(Perform(m, r), w)[a] = After(m, q)[a]
  <2>1. \A i \in 1 .. Len(q) - 1 : i \in Stores(w, a) <=> i + 1 \in Stores(q, a)
    BY <1>1 DEF Stores
  <2>2. 1 \in Stores(q, a) <=> r.write /\ r.addr = a
    BY <1>1 DEF Stores
  <2>3. Stores(w, a) \subseteq 1 .. Len(q) - 1 /\ Stores(q, a) \subseteq 1 .. Len(q)
    BY <1>1 DEF Stores
  <2>4. CASE Stores(w, a) # {}
    <3> DEFINE x == Max(Stores(w, a))
    <3>1. x \in Stores(w, a) /\ \A j \in Stores(w, a) : j <= x
      <4>1. Len(q) - 1 \in Nat /\ Stores(w, a) \in SUBSET (1 .. Len(q) - 1)
        BY <1>1, <2>3
      <4>2. QED
        BY <2>4, <4>1, MaxOfPlaces
    <3> HIDE DEF x
    <3>2. x + 1 \in Stores(q, a)
      BY <2>1, <2>3, <3>1
    <3>3. \A j \in Stores(q, a) : j <= x + 1
      <4> TAKE j \in Stores(q, a)
      <4>1. CASE j = 1
        BY <2>3, <3>1, <4>1
      <4>2. CASE j # 1
        <5>1. j - 1 \in 1 .. Len(q) - 1 /\ (j - 1) + 1 = j
          BY <1>1, <2>3, <4>2
        <5>2. QED
          BY <1>1, <2>1, <2>3, <3>1, <5>1
      <4>3. QED
        BY <4>1, <4>2
    <3>4. Max(Stores(q, a)) = x + 1
      <4>1. Stores(q, a) \in SUBSET Nat
        BY <2>3
      <4>2. QED
        BY <3>2, <3>3, <4>1, MaxIs
    <3>5. w[x] = q[x + 1]
      BY <1>1, <2>3, <3>1
    <3>6. QED
      BY <2>4, <3>2, <3>4, <3>5 DEF After, x
  <2>5. CASE Stores(w, a) = {}
    <3>1. Stores(q, a) = IF r.write /\ r.addr = a THEN {1} ELSE {}
      <4>1. ASSUME NEW j \in Stores(q, a), j # 1
            PROVE  FALSE
        <5>1. j - 1 \in 1 .. Len(q) - 1 /\ (j - 1) + 1 = j
          BY <1>1, <2>3, <4>1
        <5>2. QED
          BY <2>1, <2>5, <4>1, <5>1
      <4>2. QED
        BY <2>2, <4>1
    <3>2. Max({1}) = 1
      BY MaxIs
    <3>3. CASE r.write /\ r.addr = a
      BY <1>1, <2>5, <3>1, <3>2, <3>3 DEF After, Perform, Words
    <3>4. CASE ~(r.write /\ r.addr = a)
      <4>1. Perform(m, r)[a] = m[a]
        BY <1>1, <3>4 DEF Perform, Words
      <4>2. QED
        BY <2>5, <3>1, <3>4, <4>1 DEF After
    <3>5. QED
      BY <3>3, <3>4
  <2>6. QED
    BY <2>4, <2>5
<1>3. QED
  BY <1>2 DEF After, w, r

------------------------------------------------------------------------------
(* One clock of the components.                                            *)

(* Short queues.                                                           *)
LEMMA ShortQueue ==
  ASSUME NEW q \in Seq(Request)
  PROVE  /\ Len(q) \in Nat
         /\ Len(q) = 0 <=> q = <<>>
         /\ Len(q) = 1 => q[1] \in Request /\ q = <<q[1]>> /\ Head(q) = q[1] /\ Tail(q) = <<>>
OBVIOUS

(* Pointers and counters wrap around.                                      *)
LEMMA ModType ==
  ASSUME NEW n \in Nat \ {0}, NEW x \in Nat
  PROVE  x % n \in 0 .. n - 1
OBVIOUS

LEMMA ModSame ==
  ASSUME NEW n \in Nat \ {0}, NEW x \in 0 .. n - 1
  PROVE  x % n = x /\ (x + n) % n = x
OBVIOUS

Ready(willing) == willing /\ Len(accepted) < ScratchpadQueue

LEMMA PresentedType ==
  ASSUME NEW req \in Presented
  PROVE  req = <<>> \/ \E r \in Request : req = <<r>>
BY DEF Presented

LEMMA PopType ==
  ASSUME NEW S, NEW q \in Seq(S), NEW b \in BOOLEAN
  PROVE  Pop(q, b) \in Seq(S) /\ Len(Pop(q, b)) <= Len(q)
BY DEF Pop

(* A queue takes in at most one request, if it has room.                   *)
LEMMA QueueType ==
  ASSUME NEW q \in Seq(Request), Len(q) <= FifoSize, NEW b \in BOOLEAN,
         NEW r \in Request, NEW new \in {<<>>, <<r>>}, new # <<>> => Len(q) < FifoSize
  PROVE  Pop(q, b) \o new \in Seq(Request) /\ Len(Pop(q, b) \o new) <= FifoSize
<1>1. Pop(q, b) \in Seq(Request) /\ Len(Pop(q, b)) <= Len(q)
  BY PopType
<1>2. CASE new = <<>>
  BY <1>1, <1>2, MemoryPortAssumption
<1>3. CASE new = <<r>>
  BY <1>1, <1>3, MemoryPortAssumption
<1>4. QED
  BY <1>2, <1>3

(* All but the fill of the FIFO keeps its type whatever is presented.      *)
ClockType ==
  /\ pc \in {"run", "load"} /\ addr \in Addresses /\ result \in Data
  /\ state \in {"free", "mem_request", "bus_write", "bus_read"}
  /\ datain \in Data
  /\ slots \in [0 .. Depth - 1 -> Request]
  /\ rd_ptr \in 0 .. Depth - 1 /\ wr_ptr \in 0 .. Depth - 1
  /\ dout \in Request /\ valid \in BOOLEAN
  /\ writeFifo \in Seq(Request) /\ Len(writeFifo) <= FifoSize
  /\ readAddrFifo \in Seq(Request) /\ Len(readAddrFifo) <= FifoSize
  /\ accepted \in Seq(Request)
  /\ readRsp \in Seq(Data)
  /\ memory \in Words

LEMMA TypeSplit ==
  /\ TypeOK <=> ClockType /\ depth_cnt \in 0 .. Depth
  /\ TypeOK' <=> ClockType' /\ depth_cnt' \in 0 .. Depth
BY DEF TypeOK, ClockType, Words

LEMMA ClockKeepsTypes ==
  ASSUME TypeOK, NEW req \in Presented, NEW willing \in BOOLEAN, NEW serve \in BOOLEAN,
         Clock(req, willing, serve)
  PROVE  ClockType'
<1> USE MemoryPortAssumption
<1>1. req = <<>> \/ \E r \in Request : req = <<r>>
  BY PresentedType
<1>2. ClockType
  BY TypeSplit
<1>3. pc' \in {"run", "load"} /\ addr' \in Addresses /\ result' \in Data
  BY <1>1, <1>2 DEF Clock, CoreClock, ClockType, Request
<1>4. state' \in {"free", "mem_request", "bus_write", "bus_read"}
  BY <1>2 DEF Clock, BridgeClock, ClockType, AfterAccess
<1>5. datain' \in Data
  BY <1>2 DEF Clock, BridgeClock, ClockType, hlsBusReadResp
<1>6. slots' \in [0 .. Depth - 1 -> Request] /\ dout' \in Request /\ valid' \in BOOLEAN
  BY <1>1, <1>2 DEF Clock, FifoClock, ClockType, rd_en
<1>7. rd_ptr' \in 0 .. Depth - 1 /\ wr_ptr' \in 0 .. Depth - 1
  <2>1. Len(req) \in Nat /\ Bit(rd_en) \in Nat
    BY <1>1 DEF Bit
  <2>2. wr_ptr + Len(req) \in Nat /\ rd_ptr + Bit(rd_en) \in Nat
    BY <1>2, <2>1 DEF ClockType
  <2>3. QED
    BY <2>2, ModType DEF Clock, FifoClock
<1>8. Ready(willing) \in BOOLEAN
  BY DEF Ready
<1>9. /\ writeFifo' \in Seq(Request) /\ Len(writeFifo') <= FifoSize
      /\ readAddrFifo' \in Seq(Request) /\ Len(readAddrFifo') <= FifoSize
  <2>1. /\ hlsBusWriteReq \in {<<>>, <<dout>>}
        /\ hlsBusWriteReq # <<>> => Len(writeFifo) < FifoSize
        /\ hlsBusReadReq \in {<<>>, <<dout>>}
        /\ hlsBusReadReq # <<>> => Len(readAddrFifo) < FifoSize
    BY DEF hlsBusWriteReq, hlsBusReadReq
  <2>2. /\ writeFifo' = Pop(writeFifo, Ready(willing)) \o hlsBusWriteReq
        /\ readAddrFifo' = Pop(readAddrFifo, Ready(willing)) \o hlsBusReadReq
    BY DEF Clock, InterfaceClock, Ready
  <2>3. QED
    BY <1>2, <1>8, <2>1, <2>2, QueueType DEF ClockType
<1>10. accepted' \in Seq(Request)
  <2> DEFINE busy == serve /\ accepted # <<>>
  <2>1. accepted' = Pop(accepted, busy) \o Accepts(Ready(willing))
    BY DEF Clock, ScratchpadClock, Ready
  <2>2. Pop(accepted, busy) \in Seq(Request)
    BY <1>2, PopType DEF ClockType
  <2>3. Accepts(Ready(willing)) \in Seq(Request)
    BY <1>2 DEF Accepts, ClockType, Bit
  <2>4. QED
    BY <2>1, <2>2, <2>3
<1>11. readRsp' \in Seq(Data) /\ memory' \in Words
  <2> DEFINE busy == serve /\ accepted # <<>>
             answer == IF busy /\ ~Head(accepted).write
                         THEN <<memory[Head(accepted).addr]>> ELSE <<>>
  <2>1. /\ readRsp' = Pop(readRsp, TRUE) \o answer
        /\ memory' = IF busy /\ Head(accepted).write
                       THEN [memory EXCEPT ![Head(accepted).addr] = Head(accepted).data]
                       ELSE memory
    BY DEF Clock, ScratchpadClock
  <2>2. accepted # <<>> => Head(accepted) \in Request
    BY <1>2 DEF ClockType
  <2>3. Pop(readRsp, TRUE) \in Seq(Data)
    BY <1>2, PopType DEF ClockType
  <2>4. answer \in Seq(Data)
    BY <1>2, <2>2 DEF ClockType, Words, Request
  <2> HIDE DEF answer
  <2>5. readRsp' \in Seq(Data)
    <3>1. \A s, t \in Seq(Data) : s \o t \in Seq(Data)
      OBVIOUS
    <3>2. QED
      BY <2>1, <2>3, <2>4, <3>1
  <2>6. memory' \in Words
    BY <1>2, <2>1, <2>2 DEF ClockType, Words, Request
  <2>7. QED
    BY <2>5, <2>6
<1>12. QED
  BY <1>3, <1>4, <1>5, <1>6, <1>7, <1>9, <1>10, <1>11 DEF ClockType

(* A bridge that is not free gets no request, and the core stands still.   *)
LEMMA NoRequest ==
  ASSUME TypeOK, state # "free", NEW req \in Presented, CoreClock(req)
  PROVE  req = <<>> /\ UNCHANGED <<pc, addr, result>>
BY DEF CoreClock, MayPresent, req_full_n, rsp_empty_n, core

(* The FIFO without a request: it stays as it is, but for the one that is  *)
(* read out.                                                               *)
LEMMA FifoStands ==
  ASSUME TypeOK, FifoClock(<<>>), ~rd_en
  PROVE  /\ slots' = slots /\ wr_ptr' = wr_ptr /\ rd_ptr' = rd_ptr
         /\ depth_cnt' = depth_cnt /\ valid' = FALSE
<1> USE MemoryPortAssumption DEF TypeOK
<1>1. Len(<<>>) = 0 /\ Bit(rd_en) = 0
  BY DEF Bit
<1>2. wr_ptr' = wr_ptr /\ rd_ptr' = rd_ptr
  <2>1. wr_ptr' = (wr_ptr + 0) % Depth /\ rd_ptr' = (rd_ptr + 0) % Depth
    BY <1>1 DEF FifoClock
  <2>2. wr_ptr + 0 = wr_ptr /\ rd_ptr + 0 = rd_ptr
    OBVIOUS
  <2>3. QED
    BY <2>1, <2>2, ModSame
<1>3. depth_cnt' = depth_cnt
  <2>1. 2 * Depth \in Nat \ {0} /\ depth_cnt \in 0 .. 2 * Depth - 1
    OBVIOUS
  <2>2. depth_cnt' = (depth_cnt + 0 + 2 * Depth - 0) % (2 * Depth)
    BY <1>1 DEF FifoClock
  <2>3. depth_cnt + 0 + 2 * Depth - 0 = depth_cnt + 2 * Depth
    OBVIOUS
  <2>4. QED
    BY <2>1, <2>2, <2>3, ModSame
<1>4. QED
  BY <1>2, <1>3 DEF FifoClock

(* The scratchpad performs a store it has accepted, or nothing; what it    *)
(* then accepts comes behind the rest.                                     *)
LEMMA ServeStores ==
  ASSUME TypeOK, AllStores(accepted), readRsp = <<>>,
         NEW serve \in BOOLEAN, NEW ready, ScratchpadClock(ready, serve)
  PROVE  \E q \in Seq(Request) :
           /\ AllStores(q) /\ accepted' = q \o Accepts(ready)
           /\ readRsp' = <<>>
           /\ After(memory', q) = After(memory, accepted)
           /\ accepted = <<>> => q = <<>> /\ memory' = memory
<1> DEFINE busy == serve /\ accepted # <<>>
           r == Head(accepted)
<1>1. /\ accepted' = Pop(accepted, busy) \o Accepts(ready)
      /\ memory' = IF busy /\ r.write THEN [memory EXCEPT ![r.addr] = r.data] ELSE memory
      /\ readRsp' = Pop(readRsp, TRUE) \o
                      IF busy /\ ~r.write THEN <<memory[r.addr]>> ELSE <<>>
  BY DEF ScratchpadClock
<1>2. accepted \in Seq(Request) /\ memory \in Words
  BY DEF TypeOK, Words
<1>3. Pop(readRsp, TRUE) = <<>> /\ <<>> \o <<>> = <<>>
  BY DEF Pop
<1>4. CASE busy
  <2>1. r.write /\ AllStores(Tail(accepted)) /\ Tail(accepted) \in Seq(Request)
    BY <1>2, <1>4 DEF AllStores
  <2>2. memory' = Perform(memory, r)
    BY <1>1, <1>4, <2>1 DEF Perform
  <2>3. Pop(accepted, busy) = Tail(accepted)
    BY <1>4 DEF Pop
  <2>4. After(memory', Tail(accepted)) = After(memory, accepted)
    BY <1>2, <1>4, <2>2, AfterPerform
  <2>5. readRsp' = <<>>
    BY <1>1, <1>3, <2>1
  <2>6. accepted # <<>>
    BY <1>4
  <2>7. QED
    BY <1>1, <2>1, <2>3, <2>4, <2>5, <2>6
<1>5. CASE ~busy
  <2>1. Pop(accepted, busy) = accepted
    BY <1>5 DEF Pop
  <2>2. memory' = memory /\ readRsp' = <<>>
    BY <1>1, <1>3, <1>5
  <2>3. QED
    BY <1>1, <1>2, <2>1, <2>2
<1>6. QED
  BY <1>4, <1>5

(* The load is answered once every store before it has been performed.     *)
LEMMA ServeLoad ==
  ASSUME TypeOK, LoadLast(accepted), readRsp = <<>>, addr' = addr,
         NEW serve \in BOOLEAN, NEW ready, ScratchpadClock(ready, serve),
         Accepts(ready) = <<>>
  PROVE  /\ \/ LoadLast(accepted)' /\ readRsp' = <<>>
            \/ accepted' = <<>> /\ readRsp' = <<memory'[addr]>>
         /\ After(memory', accepted') = After(memory, accepted)
<1> DEFINE busy == serve /\ accepted # <<>>
           r == Head(accepted)
<1>1. accepted \in Seq(Request) /\ memory \in Words
  BY DEF TypeOK, Words
<1>2. Pop(accepted, busy) \in Seq(Request)
  BY <1>1, PopType
<1>3. /\ accepted' = Pop(accepted, busy)
      /\ memory' = IF busy /\ r.write THEN [memory EXCEPT ![r.addr] = r.data] ELSE memory
      /\ readRsp' = IF busy /\ ~r.write THEN <<memory[r.addr]>> ELSE <<>>
  <2>1. Pop(readRsp, TRUE) = <<>>
    BY DEF Pop
  <2>2. \A s \in Seq(Data) : <<>> \o s = s
    OBVIOUS
  <2>3. \A s \in Seq(Request) : s \o <<>> = s
    OBVIOUS
  <2>4. (IF busy /\ ~r.write THEN <<memory[r.addr]>> ELSE <<>>) \in Seq(Data)
    <3>1. accepted # <<>> => r \in Request
      BY <1>1
    <3> HIDE DEF r
    <3>2. r \in Request => <<memory[r.addr]>> \in Seq(Data)
      BY <1>1 DEF Words, Request
    <3>3. QED
      BY <3>1, <3>2
  <2>5. /\ accepted' = Pop(accepted, busy) \o Accepts(ready)
        /\ memory' = IF busy /\ r.write THEN [memory EXCEPT ![r.addr] = r.data] ELSE memory
        /\ readRsp' = Pop(readRsp, TRUE) \o
                        IF busy /\ ~r.write THEN <<memory[r.addr]>> ELSE <<>>
    BY DEF ScratchpadClock
  <2>6. QED
    BY <1>2, <2>1, <2>2, <2>3, <2>4, <2>5
<1>4. CASE ~busy
  <2>1. accepted' = accepted /\ memory' = memory /\ readRsp' = <<>>
    BY <1>3, <1>4 DEF Pop
  <2>2. QED
    BY <2>1 DEF LoadLast
<1>5. CASE busy /\ Len(accepted) = 1
  <2>1. r = accepted[1] /\ ~r.write /\ r.addr = addr /\ Tail(accepted) = <<>>
    <3>1. r = accepted[1] /\ ~r.write /\ r.addr = addr
      BY <1>1, <1>5 DEF LoadLast
    <3>2. Tail(accepted) = <<>>
      BY <1>1, <1>5, ShortQueue
    <3>3. QED
      BY <3>1, <3>2
  <2>2. accepted' = Tail(accepted) /\ memory' = memory /\ readRsp' = <<memory[addr]>>
    BY <1>3, <1>5, <2>1 DEF Pop
  <2>3. Perform(memory, r) = memory
    BY <2>1 DEF Perform
  <2>4. After(memory, Tail(accepted)) = After(memory, accepted)
    BY <1>1, <1>5, <2>3, AfterPerform
  <2>5. QED
    BY <2>1, <2>2, <2>4
<1>6. CASE busy /\ Len(accepted) # 1
  <2>1. Len(accepted) > 1 /\ r = accepted[1] /\ r.write
    <3>1. Len(accepted) \in Nat /\ Len(accepted) > 1
      <4>1. Len(accepted) \in Nat /\ Len(accepted) > 0
        BY <1>1, ShortQueue DEF LoadLast
      <4>2. Len(accepted) # 1
        BY <1>6
      <4>3. \A n \in Nat : n > 0 /\ n # 1 => n > 1
        OBVIOUS
      <4>4. QED
        BY <4>1, <4>2, <4>3
    <3>2. 1 \in 1 .. Len(accepted) /\ 1 < Len(accepted)
      BY <3>1
    <3>3. accepted[1].write
      BY <3>2 DEF LoadLast
    <3>4. QED
      BY <1>1, <3>1, <3>3
  <2>2. accepted' = Tail(accepted) /\ memory' = Perform(memory, r) /\ readRsp' = <<>>
    BY <1>3, <1>6, <2>1 DEF Pop, Perform
  <2>3. LoadLast(accepted)'
    BY <1>1, <2>1, <2>2 DEF LoadLast
  <2>4. After(memory', accepted') = After(memory, accepted)
    BY <1>1, <1>6, <2>2, AfterPerform
  <2>5. QED
    BY <2>2, <2>3, <2>4
<1>7. QED
  BY <1>4, <1>5, <1>6

LEMMA AcceptsNone ==
  ASSUME NEW ready, writeFifo = <<>>, readAddrFifo = <<>>
  PROVE  Accepts(ready) = <<>>
BY DEF Accepts, Bit

------------------------------------------------------------------------------
(* The array, wherever the request is.                                     *)
View ==
  LET performed == After(memory, accepted)
  IN  /\ ~valid /\ depth_cnt = 0 /\ writeFifo = <<>> => Array = performed
      /\ ~valid /\ depth_cnt = 0 /\ Len(writeFifo) = 1 =>
           Array = Perform(performed, writeFifo[1])
      /\ valid /\ depth_cnt = 0 /\ writeFifo = <<>> => Array = Perform(performed, dout)
      /\ ~valid /\ depth_cnt = 1 /\ writeFifo = <<>> =>
           Array = Perform(performed, slots[rd_ptr])

LEMMA ArrayView == TypeOK => View
<1> SUFFICES ASSUME TypeOK
             PROVE  View
  OBVIOUS
<1> USE MemoryPortAssumption DEF TypeOK
<1>1. memory \in Words /\ accepted \in Seq(Request) /\ Array = After(memory, OnTheirWay)
  BY DEF Words, Array
<1>2. depth_cnt = 0 => InFifo = <<>>
  <2>1. ASSUME depth_cnt = 0
        PROVE  InFifo \in Seq(Request) /\ Len(InFifo) = 0
    BY <2>1 DEF InFifo
  <2>2. QED
    BY <2>1
<1>3. depth_cnt = 1 => InFifo = <<slots[rd_ptr]>>
  <2>1. ASSUME depth_cnt = 1
        PROVE  InFifo \in Seq(Request) /\ Len(InFifo) = 1 /\ InFifo[1] = slots[rd_ptr]
    <3>1. InFifo = [i \in 1 .. 1 |-> slots[(rd_ptr + i - 1) % Depth]]
      BY <2>1 DEF InFifo
    <3>2. rd_ptr + 1 - 1 = rd_ptr /\ rd_ptr % Depth = rd_ptr
      <4>1. rd_ptr \in 0 .. Depth - 1 /\ Depth \in Nat \ {0}
        OBVIOUS
      <4>2. QED
        <5>1. rd_ptr + 1 - 1 = rd_ptr
          BY <4>1
        <5>2. rd_ptr % Depth = rd_ptr
          BY <4>1, ModSame
        <5>3. QED
          BY <5>1, <5>2
    <3>3. InFifo = [i \in 1 .. 1 |-> slots[rd_ptr]] /\ slots[rd_ptr] \in Request
      BY <3>1, <3>2
    <3>4. QED
      BY <3>3
  <2>2. QED
    BY <2>1
<1>4. ASSUME NEW r \in Request
      PROVE  /\ accepted \o <<r>> = Append(accepted, r)
             /\ After(memory, Append(accepted, r)) = Perform(After(memory, accepted), r)
  BY <1>1, AfterAppend
<1>5. ASSUME ~valid, depth_cnt = 0, writeFifo = <<>>
      PROVE  OnTheirWay = accepted
  BY <1>2, <1>5 DEF OnTheirWay
<1>6. ASSUME ~valid, depth_cnt = 0, Len(writeFifo) = 1
      PROVE  OnTheirWay = accepted \o <<writeFifo[1]>> /\ writeFifo[1] \in Request
  <2>1. writeFifo = <<writeFifo[1]>> /\ writeFifo[1] \in Request
    BY <1>6, ShortQueue
  <2>2. \A s \in Seq(Request) : s \o <<>> = s
    OBVIOUS
  <2>3. accepted \o writeFifo \in Seq(Request)
    OBVIOUS
  <2>4. OnTheirWay = accepted \o writeFifo
    BY <1>2, <1>6, <2>2, <2>3 DEF OnTheirWay
  <2>5. QED
    BY <2>1, <2>4
<1>7. ASSUME valid, depth_cnt = 0, writeFifo = <<>>
      PROVE  OnTheirWay = accepted \o <<dout>>
  BY <1>2, <1>7 DEF OnTheirWay
<1>8. ASSUME ~valid, depth_cnt = 1, writeFifo = <<>>
      PROVE  OnTheirWay = accepted \o <<slots[rd_ptr]>> /\ slots[rd_ptr] \in Request
  <2>1. accepted \o <<>> = accepted /\ slots[rd_ptr] \in Request
    OBVIOUS
  <2>2. QED
    BY <1>3, <1>8, <2>1 DEF OnTheirWay
<1>9. QED
  BY <1>1, <1>4, <1>5, <1>6, <1>7, <1>8 DEF View

LEMMA ArrayViewNext == TypeOK' => View'
BY ArrayView, PTL

------------------------------------------------------------------------------
(* The invariant, stage by stage.  What a clock does to the array and the  *)
(* last value loaded is a store, a load or nothing.                        *)
ArrayStep == Sequential!Next \/ UNCHANGED <<Array, result>>

(* What the clock does while no request is presented and none read out.    *)
LEMMA InterfaceStands ==
  ASSUME ~valid, writeFifo = <<>>, readAddrFifo = <<>>, NEW ready, InterfaceClock(ready)
  PROVE  writeFifo' = <<>> /\ readAddrFifo' = <<>>
<1>1. hlsBusWriteReq = <<>> /\ hlsBusReadReq = <<>>
  BY DEF hlsBusWriteReq, hlsBusReadReq, writeReq, readReq
<1>2. Pop(writeFifo, ready) = <<>> /\ Pop(readAddrFifo, ready) = <<>>
  BY DEF Pop
<1>3. QED
  BY <1>1, <1>2 DEF InterfaceClock

(* While both FIFOs are empty the scratchpad only performs stores.         *)
LEMMA StoresStand ==
  ASSUME TypeOK, StoresOnly, ~valid, NEW serve \in BOOLEAN, NEW ready,
         InterfaceClock(ready), ScratchpadClock(ready, serve)
  PROVE  /\ StoresOnly' /\ After(memory', accepted') = After(memory, accepted)
         /\ accepted = <<>> => accepted' = <<>> /\ memory' = memory
<1>1. PICK q \in Seq(Request) :
        /\ AllStores(q) /\ accepted' = q \o Accepts(ready)
        /\ readRsp' = <<>>
        /\ After(memory', q) = After(memory, accepted)
        /\ accepted = <<>> => q = <<>> /\ memory' = memory
  BY ServeStores DEF StoresOnly
<1>2. accepted' = q
  <2>1. Accepts(ready) = <<>>
    BY AcceptsNone DEF StoresOnly
  <2>2. QED
    BY <1>1, <2>1
<1>3. writeFifo' = <<>> /\ readAddrFifo' = <<>>
  BY InterfaceStands DEF StoresOnly
<1>4. QED
  BY <1>1, <1>2, <1>3 DEF StoresOnly, AllStores

LEMMA FreeStep ==
  ASSUME TypeOK, Free, NEW req \in Presented, NEW willing \in BOOLEAN, NEW serve \in BOOLEAN,
         Clock(req, willing, serve)
  PROVE  IInv' /\ ArrayStep
<1> USE MemoryPortAssumption
<1>1. /\ CoreClock(req) /\ BridgeClock(req) /\ FifoClock(req)
      /\ InterfaceClock(Ready(willing)) /\ ScratchpadClock(Ready(willing), serve)
  BY DEF Clock, Ready
<1>2. /\ StoresOnly' /\ After(memory', accepted') = After(memory, accepted)
      /\ accepted = <<>> => accepted' = <<>> /\ memory' = memory
  BY <1>1, StoresStand DEF Free
<1>3. Array = After(memory, accepted)
  BY ArrayView DEF View, Free, FifoEmpty, StoresOnly
<1>4. ClockType'
  BY ClockKeepsTypes
<1>5. ~rd_en /\ datain' = datain /\ valid' = FALSE
  BY <1>1 DEF Free, rd_en, BridgeClock, FifoClock
<1>6. writeFifo' = <<>>
  BY <1>2 DEF StoresOnly
<1>7. CASE req = <<>>
  <2>1. wr_ptr' = wr_ptr /\ rd_ptr' = rd_ptr /\ depth_cnt' = 0
    BY <1>1, <1>5, <1>7, FifoStands DEF Free, FifoEmpty
  <2>2. state' = "free"
    BY <1>1, <1>7 DEF BridgeClock, Free
  <2>3. TypeOK'
    <3>1. 0 \in 0 .. Depth
      OBVIOUS
    <3>2. QED
      BY <1>4, <2>1, <3>1, TypeSplit
  <2>4. Array' = Array
    BY <1>2, <1>3, <1>5, <1>6, <2>1, <2>3, ArrayViewNext DEF View
  <2>5. CASE pc = "run"
    <3>1. pc' = "run" /\ result' = result
      BY <1>1, <1>7, <2>5 DEF CoreClock
    <3>2. Free'
      BY <1>2, <1>5, <2>1, <2>2, <3>1 DEF Free, FifoEmpty
    <3>3. QED
      BY <2>3, <2>4, <3>1, <3>2 DEF IInv, ArrayStep
  <2>6. CASE pc = "load"
    <3>1. pc' = "run" /\ result' = memory[addr] /\ accepted = <<>>
      BY <1>1, <1>7, <2>6 DEF CoreClock, rsp_empty_n, Free
    <3>2. Free'
      BY <1>2, <1>5, <2>1, <2>2, <3>1 DEF Free, FifoEmpty
    <3>3. Array = memory /\ addr \in Addresses
      BY <1>3, <3>1, AfterNone DEF TypeOK, Words
    <3>4. Sequential!Load(addr)
      BY <2>4, <3>1, <3>3 DEF Sequential!Load
    <3>5. QED
      BY <2>3, <3>2, <3>3, <3>4 DEF IInv, ArrayStep, Sequential!Next
  <2>7. QED
    BY <2>5, <2>6 DEF TypeOK
<1>8. ASSUME NEW r \in Request, req = <<r>>
      PROVE  IInv' /\ ArrayStep
  <2>1. req # <<>> /\ req[1] = r /\ Len(req) = 1
    BY <1>8
  <2>2. /\ pc = "run" /\ result' = result
        /\ IF r.write THEN pc' = pc ELSE pc' = "load" /\ addr' = r.addr
    BY <1>1, <2>1 DEF CoreClock
  <2>3. state' = "mem_request"
    BY <1>1, <2>1 DEF BridgeClock, Free
  <2>4. /\ rd_ptr' = rd_ptr /\ depth_cnt' = 1 /\ wr_ptr' = (rd_ptr' + 1) % Depth
        /\ slots'[rd_ptr'] = r
    <3>1. /\ wr_ptr' = (wr_ptr + 1) % Depth /\ rd_ptr' = (rd_ptr + 0) % Depth
          /\ depth_cnt' = (0 + 1 + 2 * Depth - 0) % (2 * Depth)
          /\ slots' = [slots EXCEPT ![wr_ptr] = r]
      BY <1>1, <1>5, <2>1 DEF FifoClock, Bit, Free, FifoEmpty
    <3>2. rd_ptr \in 0 .. Depth - 1 /\ wr_ptr = rd_ptr
      BY DEF TypeOK, Free, FifoEmpty
    <3>3. rd_ptr' = rd_ptr
      <4>1. rd_ptr + 0 = rd_ptr
        BY <3>2
      <4>2. QED
        BY <3>1, <3>2, <4>1, ModSame
    <3>4. depth_cnt' = 1
      <4>1. /\ 0 + 1 + 2 * Depth - 0 = 1 + 2 * Depth
            /\ 2 * Depth \in Nat \ {0} /\ 1 \in 0 .. 2 * Depth - 1
        OBVIOUS
      <4>2. QED
        BY <3>1, <4>1, ModSame
    <3>5. QED
      BY <3>1, <3>2, <3>3, <3>4 DEF TypeOK
  <2>5. TypeOK'
    <3>1. 1 \in 0 .. Depth
      OBVIOUS
    <3>2. QED
      BY <1>4, <2>4, <3>1, TypeSplit
  <2>6. Queued'
    BY <1>2, <1>5, <2>2, <2>3, <2>4 DEF Queued, OfTheCore
  <2>7. Array' = Perform(Array, r)
    BY <1>2, <1>3, <1>5, <1>6, <2>4, <2>5, ArrayViewNext DEF View
  <2>8. ArrayStep
    <3>1. CASE r.write
      BY <2>2, <2>7, <3>1 DEF Perform, ArrayStep, Sequential!Next, Sequential!Store, Request
    <3>2. CASE ~r.write
      BY <2>2, <2>7, <3>2 DEF Perform, ArrayStep
    <3>3. QED
      BY <3>1, <3>2
  <2>9. QED
    BY <2>5, <2>6, <2>8 DEF IInv
<1>9. QED
  BY <1>7, <1>8, PresentedType

LEMMA QueuedStep ==
  ASSUME TypeOK, Queued, NEW req \in Presented, NEW willing \in BOOLEAN,
         NEW serve \in BOOLEAN, Clock(req, willing, serve)
  PROVE  IInv' /\ ArrayStep
<1> USE MemoryPortAssumption
<1>1. /\ CoreClock(req) /\ BridgeClock(req) /\ FifoClock(req)
      /\ InterfaceClock(Ready(willing)) /\ ScratchpadClock(Ready(willing), serve)
  BY DEF Clock, Ready
<1>2. req = <<>> /\ pc' = pc /\ addr' = addr /\ result' = result
  BY <1>1, NoRequest DEF Queued
<1>3. /\ StoresOnly' /\ After(memory', accepted') = After(memory, accepted)
  BY <1>1, StoresStand DEF Queued
<1>4. /\ depth_cnt' = 0 /\ wr_ptr' = rd_ptr' /\ valid' = TRUE /\ dout' = slots[rd_ptr]
  <2>1. rd_en /\ Len(<<>>) = 0
    BY DEF rd_en, Queued
  <2>2. /\ wr_ptr' = (wr_ptr + 0) % Depth /\ rd_ptr' = (rd_ptr + 1) % Depth
        /\ depth_cnt' = (1 + 0 + 2 * Depth - 1) % (2 * Depth)
        /\ valid' = TRUE /\ dout' = slots[rd_ptr]
    BY <1>1, <1>2, <2>1 DEF FifoClock, Bit, Queued
  <2>3. wr_ptr' = wr_ptr
    <3>1. wr_ptr + 0 = wr_ptr /\ wr_ptr \in 0 .. Depth - 1
      BY DEF TypeOK
    <3>2. QED
      BY <2>2, <3>1, ModSame
  <2>4. depth_cnt' = 0
    <3>1. 1 + 0 + 2 * Depth - 1 = 0 + 2 * Depth /\ 2 * Depth \in Nat \ {0}
      OBVIOUS
    <3>2. 0 \in 0 .. 2 * Depth - 1
      OBVIOUS
    <3>3. QED
      BY <2>2, <3>1, <3>2, ModSame
  <2>5. QED
    BY <2>2, <2>3, <2>4 DEF Queued
<1>5. state' = "mem_request"
  BY <1>1, <1>2 DEF BridgeClock, Queued, writeReq, readReq
<1>6. TypeOK'
  <2>1. 0 \in 0 .. Depth
    OBVIOUS
  <2>2. QED
    BY <1>4, <2>1, ClockKeepsTypes, TypeSplit
<1>7. Sent'
  BY <1>2, <1>3, <1>4, <1>5 DEF Sent, Queued, FifoEmpty, OfTheCore
<1>8. Array = Perform(After(memory, accepted), slots[rd_ptr])
  BY ArrayView DEF View, Queued, StoresOnly
<1>9. Array' = Perform(After(memory', accepted'), dout')
  BY <1>3, <1>4, <1>6, ArrayViewNext DEF View, StoresOnly
<1>10. QED
  BY <1>2, <1>3, <1>4, <1>6, <1>7, <1>8, <1>9 DEF IInv, ArrayStep

(* While the bridge waits for an access to end, nothing else moves: the    *)
(* FIFO is empty and no pulse is on its wires.                             *)
LEMMA BridgeWaits ==
  ASSUME TypeOK, FifoEmpty, state # "free", ~rd_en,
         NEW req \in Presented, NEW willing \in BOOLEAN, NEW serve \in BOOLEAN,
         Clock(req, willing, serve)
  PROVE  /\ req = <<>> /\ pc' = pc /\ addr' = addr /\ result' = result
         /\ FifoEmpty' /\ valid' = FALSE
         /\ TypeOK'
<1>1. req = <<>> /\ pc' = pc /\ addr' = addr /\ result' = result
  BY NoRequest DEF Clock
<1>2. FifoClock(<<>>)
  BY <1>1 DEF Clock
<1>3. FifoEmpty' /\ valid' = FALSE
  BY <1>2, FifoStands DEF FifoEmpty
<1>4. TypeOK'
  <2>1. 0 \in 0 .. Depth
    BY MemoryPortAssumption
  <2>2. QED
    BY <1>3, <2>1, ClockKeepsTypes, TypeSplit DEF FifoEmpty
<1>5. QED
  BY <1>1, <1>3, <1>4

LEMMA SentStep ==
  ASSUME TypeOK, Sent, NEW req \in Presented, NEW willing \in BOOLEAN,
         NEW serve \in BOOLEAN, Clock(req, willing, serve)
  PROVE  IInv' /\ ArrayStep
<1> USE MemoryPortAssumption
<1>1. /\ BridgeClock(req) /\ InterfaceClock(Ready(willing))
      /\ ScratchpadClock(Ready(willing), serve)
  BY DEF Clock, Ready
<1>2. /\ req = <<>> /\ pc' = pc /\ addr' = addr /\ result' = result
      /\ FifoEmpty' /\ valid' = FALSE
      /\ TypeOK'
  BY BridgeWaits DEF Sent, rd_en
<1>3. PICK q \in Seq(Request) :
        /\ AllStores(q) /\ accepted' = q \o Accepts(Ready(willing))
        /\ readRsp' = <<>>
        /\ After(memory', q) = After(memory, accepted)
  BY <1>1, ServeStores DEF Sent, StoresOnly
<1>4. accepted' = q
  BY <1>3, AcceptsNone DEF Sent, StoresOnly
<1>5. Array = Perform(After(memory', accepted'), dout)
  BY <1>3, <1>4, ArrayView DEF View, Sent, StoresOnly, FifoEmpty
<1>6. /\ Pop(writeFifo, Ready(willing)) = <<>> /\ Pop(readAddrFifo, Ready(willing)) = <<>>
      /\ Len(writeFifo) = 0 /\ Len(readAddrFifo) = 0 /\ dout \in Request
  BY DEF Pop, Sent, StoresOnly, TypeOK
<1>7. /\ writeFifo' = <<>> \o hlsBusWriteReq /\ readAddrFifo' = <<>> \o hlsBusReadReq
  BY <1>1, <1>6 DEF InterfaceClock
<1>8. CASE dout.write
  <2>1. hlsBusWriteReq = <<dout>> /\ hlsBusReadReq = <<>>
    BY <1>6, <1>8 DEF Sent, hlsBusWriteReq, hlsBusReadReq, writeReq, readReq
  <2>2. writeFifo' = <<dout>> /\ readAddrFifo' = <<>>
    BY <1>6, <1>7, <2>1
  <2>3. Len(writeFifo') = 1 /\ writeFifo'[1] = dout
    BY <2>2
  <2>4. state' = "bus_write" /\ pc' = "run"
    <3>1. state = "mem_request" /\ writeReq /\ ~readReq
      BY <1>8 DEF Sent, writeReq, readReq
    <3>2. state' = "bus_write"
      BY <1>1, <3>1 DEF BridgeClock
    <3>3. pc = "run"
      BY <1>8 DEF Sent, OfTheCore
    <3>4. QED
      BY <1>2, <3>2, <3>3
  <2>5. Writing'
    BY <1>2, <1>3, <1>4, <1>8, <2>2, <2>3, <2>4 DEF Writing, AllStores
  <2>6. Array' = Array
    BY <1>2, <1>5, <2>3, ArrayViewNext DEF View, FifoEmpty
  <2>7. QED
    BY <1>2, <2>5, <2>6 DEF IInv, ArrayStep
<1>9. CASE ~dout.write
  <2>1. hlsBusWriteReq = <<>> /\ hlsBusReadReq = <<dout>>
    BY <1>6, <1>9 DEF Sent, hlsBusWriteReq, hlsBusReadReq, writeReq, readReq
  <2>2. writeFifo' = <<>> /\ readAddrFifo' = <<dout>>
    BY <1>6, <1>7, <2>1
  <2>3. Len(readAddrFifo') = 1 /\ readAddrFifo'[1] = dout
    BY <2>2
  <2>4. state' = "bus_read" /\ pc' = "load" /\ dout.addr = addr'
    BY <1>1, <1>2, <1>9 DEF Sent, BridgeClock, writeReq, readReq, OfTheCore, TypeOK
  <2>5. Reading'
    BY <1>2, <1>3, <1>4, <1>9, <2>2, <2>3, <2>4 DEF Reading, AllStores, OfTheCore
  <2>6. Array' = Array
    BY <1>2, <1>5, <1>9, <2>2, ArrayViewNext DEF View, FifoEmpty, Perform
  <2>7. QED
    BY <1>2, <2>5, <2>6 DEF IInv, ArrayStep
<1>10. QED
  BY <1>8, <1>9

(* The scratchpad takes the one request at its doorstep, or leaves it.     *)
LEMMA DoorstepWrite ==
  ASSUME TypeOK, ~valid, readAddrFifo = <<>>, Len(writeFifo) = 1,
         NEW ready \in BOOLEAN, InterfaceClock(ready)
  PROVE  /\ readAddrFifo' = <<>>
         /\ IF ready THEN writeFifo' = <<>> /\ Accepts(ready) = <<writeFifo[1]>>
                     ELSE writeFifo' = writeFifo /\ Accepts(ready) = <<>>
<1>1. hlsBusWriteReq = <<>> /\ hlsBusReadReq = <<>>
  BY DEF hlsBusWriteReq, hlsBusReadReq, writeReq, readReq
<1>2. writeFifo \in Seq(Request) /\ writeFifo = <<writeFifo[1]>> /\ Tail(writeFifo) = <<>>
  BY ShortQueue DEF TypeOK
<1>3. writeFifo \o <<>> = writeFifo /\ SubSeq(writeFifo, 1, 1) = writeFifo
  BY <1>2
<1>4. SubSeq(<<>>, 1, 0) = <<>>
  OBVIOUS
<1>5. writeFifo # <<>> /\ Bit(writeFifo # <<>>) = 1 /\ Bit(readAddrFifo # <<>>) = 0
  <2>1. writeFifo # <<>>
    BY ShortQueue DEF TypeOK
  <2>2. (writeFifo # <<>>) = TRUE /\ (readAddrFifo # <<>>) = FALSE
    BY <2>1
  <2>3. QED
    BY <2>1, <2>2 DEF Bit
<1>6. Accepts(ready) = IF ready THEN writeFifo ELSE <<>>
  BY <1>3, <1>4, <1>5 DEF Accepts
<1>7. readAddrFifo' = <<>> /\ writeFifo' = IF ready THEN <<>> ELSE writeFifo
  <2>1. Pop(writeFifo, ready) = (IF ready THEN <<>> ELSE writeFifo) /\ Pop(readAddrFifo, ready) = <<>>
    BY <1>2, <1>5 DEF Pop
  <2>2. writeFifo' = Pop(writeFifo, ready) \o <<>> /\ readAddrFifo' = Pop(readAddrFifo, ready) \o <<>>
    BY <1>1 DEF InterfaceClock
  <2>3. <<>> \o <<>> = <<>>
    OBVIOUS
  <2>4. CASE ready
    BY <2>1, <2>2, <2>3, <2>4
  <2>5. CASE ~ready
    BY <1>3, <2>1, <2>2, <2>3, <2>5
  <2>6. QED
    BY <2>4, <2>5
<1>8. QED
  BY <1>2, <1>6, <1>7

LEMMA DoorstepRead ==
  ASSUME TypeOK, ~valid, writeFifo = <<>>, Len(readAddrFifo) = 1,
         NEW ready \in BOOLEAN, InterfaceClock(ready)
  PROVE  /\ writeFifo' = <<>>
         /\ IF ready THEN readAddrFifo' = <<>> /\ Accepts(ready) = <<readAddrFifo[1]>>
                     ELSE readAddrFifo' = readAddrFifo /\ Accepts(ready) = <<>>
<1>1. hlsBusWriteReq = <<>> /\ hlsBusReadReq = <<>>
  BY DEF hlsBusWriteReq, hlsBusReadReq, writeReq, readReq
<1>2. /\ readAddrFifo \in Seq(Request) /\ readAddrFifo = <<readAddrFifo[1]>>
      /\ Tail(readAddrFifo) = <<>>
  BY ShortQueue DEF TypeOK
<1>3. /\ readAddrFifo \o <<>> = readAddrFifo /\ SubSeq(readAddrFifo, 1, 1) = readAddrFifo
      /\ <<>> \o readAddrFifo = readAddrFifo
  BY <1>2
<1>4. SubSeq(<<>>, 1, 0) = <<>>
  OBVIOUS
<1>5. readAddrFifo # <<>> /\ Bit(readAddrFifo # <<>>) = 1 /\ Bit(writeFifo # <<>>) = 0
  <2>1. readAddrFifo # <<>>
    BY ShortQueue DEF TypeOK
  <2>2. (readAddrFifo # <<>>) = TRUE /\ (writeFifo # <<>>) = FALSE
    BY <2>1
  <2>3. QED
    BY <2>1, <2>2 DEF Bit
<1>6. Accepts(ready) = IF ready THEN readAddrFifo ELSE <<>>
  BY <1>3, <1>4, <1>5 DEF Accepts
<1>7. writeFifo' = <<>> /\ readAddrFifo' = IF ready THEN <<>> ELSE readAddrFifo
  <2>1. Pop(readAddrFifo, ready) = (IF ready THEN <<>> ELSE readAddrFifo) /\ Pop(writeFifo, ready) = <<>>
    BY <1>2, <1>5 DEF Pop
  <2>2. readAddrFifo' = Pop(readAddrFifo, ready) \o <<>> /\ writeFifo' = Pop(writeFifo, ready) \o <<>>
    BY <1>1 DEF InterfaceClock
  <2>3. <<>> \o <<>> = <<>>
    OBVIOUS
  <2>4. CASE ready
    BY <2>1, <2>2, <2>3, <2>4
  <2>5. CASE ~ready
    BY <1>3, <2>1, <2>2, <2>3, <2>5
  <2>6. QED
    BY <2>4, <2>5
<1>8. QED
  BY <1>2, <1>6, <1>7

LEMMA WritingStep ==
  ASSUME TypeOK, Writing, NEW req \in Presented, NEW willing \in BOOLEAN,
         NEW serve \in BOOLEAN, Clock(req, willing, serve)
  PROVE  IInv' /\ ArrayStep
<1> USE MemoryPortAssumption
<1>1. /\ BridgeClock(req) /\ InterfaceClock(Ready(willing))
      /\ ScratchpadClock(Ready(willing), serve)
  BY DEF Clock, Ready
<1>2. /\ req = <<>> /\ pc' = "run" /\ addr' = addr /\ result' = result
      /\ FifoEmpty' /\ valid' = FALSE
      /\ TypeOK'
  BY BridgeWaits DEF Writing, rd_en
<1>3. CASE writeFifo = <<>>
  <2>1. StoresOnly /\ ~valid
    BY <1>3 DEF Writing, StoresOnly
  <2>2. StoresOnly' /\ After(memory', accepted') = After(memory, accepted)
    BY <1>1, <2>1, StoresStand
  <2>3. state' = "free"
    BY <1>1, <1>2, <1>3 DEF Writing, FifoEmpty, BridgeClock, hlsEnWrite, AfterAccess
  <2>4. Free'
    BY <1>2, <2>2, <2>3 DEF Free
  <2>5. Array = After(memory, accepted)
    BY <1>3, ArrayView DEF View, Writing, FifoEmpty
  <2>6. Array' = After(memory', accepted')
    BY <1>2, <2>2, ArrayViewNext DEF View, FifoEmpty, StoresOnly
  <2>7. QED
    BY <1>2, <2>2, <2>4, <2>5, <2>6 DEF IInv, ArrayStep
<1>4. CASE Len(writeFifo) = 1 /\ writeFifo[1].write
  <2> DEFINE r == writeFifo[1]
  <2>1. PICK q \in Seq(Request) :
          /\ AllStores(q) /\ accepted' = q \o Accepts(Ready(willing))
          /\ readRsp' = <<>>
          /\ After(memory', q) = After(memory, accepted)
    BY <1>1, ServeStores DEF Writing
  <2>2. state' = "bus_write"
    <3>1. state = "bus_write" /\ writeFifo # <<>>
      BY <1>4, ShortQueue DEF Writing, TypeOK
    <3>2. QED
      BY <1>1, <3>1 DEF BridgeClock, hlsEnWrite
  <2>3. r \in Request /\ memory' \in Words
    BY <1>2, <1>4, ShortQueue DEF TypeOK, Words
  <2>4. Array = Perform(After(memory, accepted), r)
    BY <1>4, ArrayView DEF View, Writing, FifoEmpty
  <2>5. CASE Ready(willing)
    <3>1. readAddrFifo' = <<>> /\ writeFifo' = <<>> /\ Accepts(Ready(willing)) = <<r>>
      BY <1>1, <1>4, <2>5, DoorstepWrite DEF Writing, Ready
    <3> HIDE DEF r
    <3>2. accepted' = Append(q, r)
      BY <2>1, <2>3, <3>1
    <3>3. AllStores(accepted')
      BY <1>4, <2>1, <2>3, <3>2 DEF AllStores, r
    <3>4. After(memory', accepted') = Perform(After(memory', q), r)
      BY <2>3, <3>2, AfterAppend
    <3>5. Array' = After(memory', accepted')
      BY <1>2, <3>1, ArrayViewNext DEF View, FifoEmpty
    <3>6. Writing'
      BY <1>2, <2>1, <2>2, <3>1, <3>3 DEF Writing, AllStores
    <3>7. QED
      BY <1>2, <2>1, <2>4, <3>4, <3>5, <3>6 DEF IInv, ArrayStep
  <2>6. CASE ~Ready(willing)
    <3>1. readAddrFifo' = <<>> /\ writeFifo' = writeFifo /\ Accepts(Ready(willing)) = <<>>
      BY <1>1, <1>4, <2>6, DoorstepWrite DEF Writing, Ready
    <3>2. accepted' = q
      BY <2>1, <3>1
    <3>3. Array' = Perform(After(memory', accepted'), r)
      BY <1>2, <1>4, <3>1, ArrayViewNext DEF View, FifoEmpty
    <3>4. Writing'
      BY <1>2, <1>4, <2>1, <2>2, <3>1, <3>2 DEF Writing, AllStores
    <3>5. QED
      BY <1>2, <2>1, <2>4, <3>2, <3>3, <3>4 DEF IInv, ArrayStep
  <2>7. QED
    BY <2>5, <2>6
<1>5. QED
  BY <1>3, <1>4 DEF Writing

LEMMA ReadingStep ==
  ASSUME TypeOK, Reading, NEW req \in Presented, NEW willing \in BOOLEAN,
         NEW serve \in BOOLEAN, Clock(req, willing, serve)
  PROVE  IInv' /\ ArrayStep
<1> USE MemoryPortAssumption
<1>1. /\ BridgeClock(req) /\ InterfaceClock(Ready(willing))
      /\ ScratchpadClock(Ready(willing), serve)
  BY DEF Clock, Ready
<1>2. /\ req = <<>> /\ pc' = "load" /\ addr' = addr /\ result' = result
      /\ FifoEmpty' /\ valid' = FALSE
      /\ TypeOK'
  BY BridgeWaits DEF Reading, rd_en
<1>3. Array = After(memory, accepted)
  BY ArrayView DEF View, Reading, FifoEmpty
<1>4. writeFifo' = <<>> => Array' = After(memory', accepted')
  BY <1>2, ArrayViewNext DEF View, FifoEmpty
<1>5. readRsp = <<>> => state' = "bus_read"
  BY <1>1, <1>2 DEF Reading, BridgeClock, hlsBusReadResp
<1>6. CASE Len(readAddrFifo) = 1 /\ OfTheCore(readAddrFifo[1]) /\ AllStores(accepted)
             /\ readRsp = <<>>
  <2> DEFINE r == readAddrFifo[1]
  <2>1. PICK q \in Seq(Request) :
          /\ AllStores(q) /\ accepted' = q \o Accepts(Ready(willing))
          /\ readRsp' = <<>>
          /\ After(memory', q) = After(memory, accepted)
    BY <1>1, <1>6, ServeStores
  <2>2. r \in Request /\ memory' \in Words /\ ~r.write /\ r.addr = addr'
    BY <1>2, <1>6, ShortQueue DEF TypeOK, Words, OfTheCore, Reading
  <2>3. CASE Ready(willing)
    <3>1. readAddrFifo' = <<>> /\ writeFifo' = <<>> /\ Accepts(Ready(willing)) = <<r>>
      BY <1>1, <1>6, <2>3, DoorstepRead DEF Reading, Ready
    <3> HIDE DEF r
    <3>2. accepted' = Append(q, r)
      BY <2>1, <2>2, <3>1
    <3>3. LoadLast(accepted)'
      BY <2>1, <2>2, <3>2 DEF LoadLast, AllStores
    <3>4. After(memory', accepted') = After(memory, accepted)
      BY <2>1, <2>2, <3>2, AfterAppend DEF Perform
    <3>5. Reading'
      BY <1>2, <1>5, <1>6, <2>1, <3>1, <3>3 DEF Reading
    <3>6. QED
      BY <1>2, <1>3, <1>4, <3>1, <3>4, <3>5 DEF IInv, ArrayStep
  <2>4. CASE ~Ready(willing)
    <3>1. /\ readAddrFifo' = readAddrFifo /\ writeFifo' = <<>>
          /\ Accepts(Ready(willing)) = <<>>
      BY <1>1, <1>6, <2>4, DoorstepRead DEF Reading, Ready
    <3>2. accepted' = q
      BY <2>1, <3>1
    <3>3. Reading'
      BY <1>2, <1>5, <1>6, <2>1, <2>2, <3>1, <3>2 DEF Reading, AllStores, OfTheCore
    <3>4. QED
      BY <1>2, <1>3, <1>4, <2>1, <3>1, <3>2, <3>3 DEF IInv, ArrayStep
  <2>5. QED
    BY <2>3, <2>4
<1>7. CASE readAddrFifo = <<>> /\ LoadLast(accepted) /\ readRsp = <<>>
  <2>1. writeFifo' = <<>> /\ readAddrFifo' = <<>> /\ Accepts(Ready(willing)) = <<>>
    BY <1>1, <1>7, InterfaceStands, AcceptsNone DEF Reading
  <2>2. /\ \/ LoadLast(accepted)' /\ readRsp' = <<>>
           \/ accepted' = <<>> /\ readRsp' = <<memory'[addr']>>
        /\ After(memory', accepted') = After(memory, accepted)
    BY <1>1, <1>2, <1>7, <2>1, ServeLoad
  <2>3. Reading'
    BY <1>2, <1>5, <1>7, <2>1, <2>2 DEF Reading
  <2>4. QED
    BY <1>2, <1>3, <1>4, <2>1, <2>2, <2>3 DEF IInv, ArrayStep
<1>8. CASE readAddrFifo = <<>> /\ accepted = <<>> /\ readRsp = <<memory[addr]>>
  <2>1. writeFifo' = <<>> /\ readAddrFifo' = <<>> /\ Accepts(Ready(willing)) = <<>>
    BY <1>1, <1>8, InterfaceStands, AcceptsNone DEF Reading
  <2>2. accepted' = <<>> /\ memory' = memory /\ readRsp' = <<>>
    BY <1>1, <1>8, <2>1 DEF ScratchpadClock, Pop
  <2>3. state' = "free" /\ datain' = memory[addr]
    BY <1>1, <1>2, <1>8
    DEF Reading, FifoEmpty, BridgeClock, hlsBusReadResp, AfterAccess, writeReq, readReq
  <2>4. Free'
    BY <1>2, <2>1, <2>2, <2>3 DEF Free, StoresOnly, AllStores
  <2>5. QED
    BY <1>2, <1>3, <1>4, <1>8, <2>1, <2>2, <2>4 DEF IInv, ArrayStep
<1>9. QED
  BY <1>6, <1>7, <1>8 DEF Reading

------------------------------------------------------------------------------
(* Theorems.                                                               *)
LEMMA InitInv == Init => IInv
<1> SUFFICES ASSUME Init
             PROVE  IInv
  OBVIOUS
<1> USE MemoryPortAssumption
<1>1. SomeAddress \in Addresses /\ SomeData \in Data
  BY DEF SomeAddress, SomeData
<1>2. Idle \in Request
  BY <1>1 DEF Idle, Request
<1>3. TypeOK
  <2>1. slots \in [0 .. Depth - 1 -> Request] /\ dout \in Request
    BY <1>2 DEF Init
  <2>2. /\ writeFifo \in Seq(Request) /\ Len(writeFifo) <= FifoSize
        /\ readAddrFifo \in Seq(Request) /\ Len(readAddrFifo) <= FifoSize
        /\ accepted \in Seq(Request) /\ readRsp \in Seq(Data)
    BY DEF Init
  <2>3. rd_ptr \in 0 .. Depth - 1 /\ wr_ptr \in 0 .. Depth - 1 /\ depth_cnt \in 0 .. Depth
    BY DEF Init
  <2>4. /\ pc \in {"run", "load"} /\ addr \in Addresses /\ result \in Data
        /\ state \in {"free", "mem_request", "bus_write", "bus_read"}
        /\ datain \in Data /\ valid \in BOOLEAN /\ memory \in [Addresses -> Data]
    BY <1>1 DEF Init
  <2>5. QED
    BY <2>1, <2>2, <2>3, <2>4 DEF TypeOK
<1>4. Free
  BY DEF Init, Free, FifoEmpty, StoresOnly, AllStores
<1>5. QED
  BY <1>3, <1>4 DEF IInv

LEMMA ClockStep ==
  ASSUME IInv, NEW req \in Presented, NEW willing \in BOOLEAN, NEW serve \in BOOLEAN,
         Clock(req, willing, serve)
  PROVE  IInv' /\ ArrayStep
<1>1. TypeOK
  BY DEF IInv
<1>2. CASE Free
  BY <1>1, <1>2, FreeStep
<1>3. CASE Queued
  BY <1>1, <1>3, QueuedStep
<1>4. CASE Sent
  BY <1>1, <1>4, SentStep
<1>5. CASE Writing
  BY <1>1, <1>5, WritingStep
<1>6. CASE Reading
  BY <1>1, <1>6, ReadingStep
<1>7. QED
  BY <1>2, <1>3, <1>4, <1>5, <1>6 DEF IInv

(* When no register changes, no stage does.                                *)
LEMMA Stutter ==
  ASSUME UNCHANGED vars
  PROVE  UNCHANGED <<Array, result>> /\ (IInv => IInv')
<1> USE DEF vars, core, bridge, fifo, interface, scratchpad
<1>1. UNCHANGED <<Array, result>>
  BY DEF Array, After, Stores, OnTheirWay, InFifo
<1>2. TypeOK => TypeOK'
  BY DEF TypeOK
<1>3. Free => Free'
  BY DEF Free, FifoEmpty, StoresOnly, AllStores
<1>4. Queued => Queued'
  BY DEF Queued, OfTheCore, StoresOnly, AllStores
<1>5. Sent => Sent'
  BY DEF Sent, FifoEmpty, OfTheCore, StoresOnly, AllStores
<1>6. Writing => Writing'
  BY DEF Writing, FifoEmpty, AllStores
<1>7. Reading => Reading'
  BY DEF Reading, FifoEmpty, OfTheCore, AllStores, LoadLast
<1>8. QED
  BY <1>1, <1>2, <1>3, <1>4, <1>5, <1>6, <1>7 DEF IInv

(* The invariant of the port: the one request is with the core, in fifo.v, *)
(* on the wires behind it, or at the scratchpad's doorstep, and the state  *)
(* of the bridge says which; a load that has been accepted has only stores *)
(* before it.                                                              *)
THEOREM PortInvariant == Spec => []IInv
<1>1. Init => IInv
  BY InitInv
<1>2. IInv /\ [Next]_vars => IInv'
  BY ClockStep, Stutter DEF Next
<1>3. QED
  BY <1>1, <1>2, PTL DEF Spec

(* Every register of the port keeps its type: in particular fifo.v, which  *)
(* does not test whether it is full, never counts past its depth.          *)
THEOREM TypeCorrect == Spec => []TypeOK
<1>1. IInv => TypeOK
  BY DEF IInv
<1>2. QED
  BY <1>1, PortInvariant, PTL

(* At most one request is between the core and the scratchpad, the bridge  *)
(* is not free meanwhile, and the pointers of fifo.v agree with its count. *)
THEOREM AtMostOneRequest == Spec => []OneRequest
<1>1. IInv => OneRequest
  <2> SUFFICES ASSUME IInv
               PROVE  OneRequest
    OBVIOUS
  <2> USE MemoryPortAssumption
  <2>1. TypeOK /\ (Free \/ Queued \/ Sent \/ Writing \/ Reading)
    BY DEF IInv
  <2>2. Len(<<>>) = 0
    OBVIOUS
  <2>3. FifoEmpty => wr_ptr = (rd_ptr + depth_cnt) % Depth
    <3>1. rd_ptr + 0 = rd_ptr /\ rd_ptr % Depth = rd_ptr
      <4>1. rd_ptr \in 0 .. Depth - 1
        BY <2>1 DEF TypeOK
      <4>2. QED
        BY <4>1, ModSame
    <3>2. QED
      BY <3>1 DEF FifoEmpty
  <2>4. CASE Free \/ Queued
    BY <2>1, <2>2, <2>3, <2>4 DEF Free, Queued, FifoEmpty, StoresOnly, OneRequest, Bit
  <2>5. CASE Sent
    BY <2>1, <2>2, <2>3, <2>5 DEF Sent, FifoEmpty, StoresOnly, OneRequest, Bit
  <2>6. CASE Writing
    <3>1. Len(writeFifo) \in 0 .. 1 /\ Len(readAddrFifo) = 0
      BY <2>2, <2>6 DEF Writing
    <3>2. depth_cnt = 0 /\ valid = FALSE /\ state = "bus_write"
      BY <2>1, <2>6 DEF Writing, FifoEmpty, TypeOK
    <3>3. depth_cnt + Bit(valid) + Len(writeFifo) + Len(readAddrFifo) <= 1
      <4>1. Bit(valid) = 0
        BY <3>2 DEF Bit
      <4>2. \A n \in 0 .. 1 : 0 + 0 + n + 0 <= 1
        OBVIOUS
      <4>3. QED
        BY <3>1, <3>2, <4>1, <4>2, Zenon
    <3>4. wr_ptr = (rd_ptr + depth_cnt) % Depth
      BY <2>3, <2>6 DEF Writing
    <3>5. QED
      BY <3>2, <3>3, <3>4, Zenon DEF OneRequest
  <2>7. CASE Reading
    <3>1. \/ Len(readAddrFifo) = 1
          \/ readAddrFifo = <<>>
      BY <2>7 DEF Reading
    <3>2. Len(readAddrFifo) \in 0 .. 1 /\ Len(writeFifo) = 0
      BY <2>2, <2>7, <3>1 DEF Reading
    <3>3. depth_cnt = 0 /\ valid = FALSE /\ state = "bus_read"
      BY <2>1, <2>7 DEF Reading, FifoEmpty, TypeOK
    <3>4. wr_ptr = (rd_ptr + depth_cnt) % Depth
      BY <2>3, <2>7 DEF Reading
    <3>5. depth_cnt + Bit(valid) + Len(writeFifo) + Len(readAddrFifo) <= 1
      <4>1. Bit(valid) = 0
        BY <3>3 DEF Bit
      <4>2. \A n \in 0 .. 1 : 0 + 0 + 0 + n <= 1
        OBVIOUS
      <4>3. QED
        BY <3>2, <3>3, <4>1, <4>2, Zenon
    <3>6. QED
      BY <3>3, <3>4, <3>5, Zenon DEF OneRequest
  <2>8. QED
    BY <2>1, <2>4, <2>5, <2>6, <2>7
<1>2. QED
  BY <1>1, PortInvariant, PTL

(* The port behaves as the array the C++ code takes it for: a store takes  *)
(* effect in the clock in which the core presents it, and a load returns   *)
(* what the last store to its address left.                                *)
THEOREM PortIsAnArray == Spec => ImplementsArray
<1>1. Init => Sequential!Init
  <2> SUFFICES ASSUME Init
               PROVE  Sequential!Init
    OBVIOUS
  <2>1. TypeOK
    BY InitInv DEF IInv
  <2>2. Array = After(memory, accepted)
    BY <2>1, ArrayView DEF View, Init
  <2>3. Array = memory
    BY <2>2, AfterNone DEF Init, Words
  <2>4. QED
    BY <2>1, <2>3 DEF Sequential!Init, TypeOK
<1>2. IInv /\ [Next]_vars => [Sequential!Next]_<<Array, result>>
  BY ClockStep, Stutter DEF Next, ArrayStep
<1>3. QED
  BY <1>1, <1>2, PortInvariant, PTL DEF Spec, ImplementsArray, Sequential!Spec

==============================================================================
