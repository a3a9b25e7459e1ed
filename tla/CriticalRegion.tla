---------------------------- MODULE CriticalRegion ----------------------------
(***************************************************************************)
(* How the kernels update the shared centre records: `filter' announces a  *)
(* critical region with a one-clock pulse, reads and writes the words of a *)
(* record through its bus bridge (bus_bridge.v) and the coherent           *)
(* scratchpad interface (coherentSPInterface.bsv), and announces the end.  *)
(* The pulses are not answered: the interface asks LEAP's lock service     *)
(* behind the kernel's back, holds the accesses back until it has the lock,*)
(* and gives the lock up once the memory reports nothing pending.          *)
(*                                                                         *)
(* A step is one rule of the interface, one state of a bridge or one       *)
(* statement of a core.  LEAP (memory and lock service) is external.       *)
(*                                                                         *)
(* Neither the order in which the Bluespec compiler lets two rules that    *)
(* are ready fire nor the distance between a core's pulses is fixed by the *)
(* source.  WriteFirst and LongGap say what a build provides.              *)
(***************************************************************************)
EXTENDS Naturals, Sequences

CONSTANTS
  Kernels, NoKernel,    \* cores that share the records; nobody
  Words,                \* words of one record (WORDS_PER_CENTRE_TYPE)
  Regions,              \* critical regions each core goes through
  WriteFirst,           \* releaseLock fires only when no access could
  LongGap               \* a core is back only after its lock is released

ASSUME CriticalRegionAssumption ==
  /\ NoKernel \notin Kernels
  /\ Words \in Nat \ {0} /\ Regions \in Nat
  /\ WriteFirst \in BOOLEAN /\ LongGap \in BOOLEAN

VARIABLES
  pc, word, value, left,        \* core: statement, word index, record read, regions to go
  bridge, request, datain,      \* bus bridge: state, request in it, data register
  writeFifo, readAddrFifo,      \* accesses that wait for the lock
  hasLock, lockReleaseFifo,     \* the interface's view of the lock
  acquireReq, holder, granted,  \* lock service: requests, owner, answer not yet taken
  pending,                      \* accesses accepted by the memory, in order
  memory,                       \* the shared record
  applied                       \* history: writes performed on each word

core == <<pc, word, value, left>>
bus == <<bridge, request, datain>>
fifos == <<writeFifo, readAddrFifo>>
lockside == <<hasLock, lockReleaseFifo>>
service == <<acquireReq, holder, granted>>
vars == <<core, bus, fifos, lockside, service, pending, memory, applied>>

Index == 1 .. Words
Access == [write : BOOLEAN, word : Index, data : Nat]
Read(w) == [write |-> FALSE, word |-> w, data |-> 0]
Write(w, v) == [write |-> TRUE, word |-> w, data |-> v]

TypeOK ==
  /\ pc \in [Kernels -> {"enter", "read", "await", "write", "leave", "done"}]
  /\ word \in [Kernels -> Index]
  /\ value \in [Kernels -> [Index -> Nat]]
  /\ left \in [Kernels -> 0 .. Regions]
  /\ bridge \in [Kernels -> {"free", "mem_request", "bus_write", "bus_read"}]
  /\ request \in [Kernels -> Access]
  /\ datain \in [Kernels -> Nat]
  /\ writeFifo \in [Kernels -> Seq(Access)]
  /\ readAddrFifo \in [Kernels -> Seq(Access)]
  /\ hasLock \in [Kernels -> BOOLEAN]
  /\ lockReleaseFifo \in [Kernels -> BOOLEAN]
  /\ acquireReq \subseteq Kernels
  /\ holder \in Kernels \cup {NoKernel}
  /\ granted \in BOOLEAN
  /\ pending \in [Kernels -> Seq(Access)]
  /\ memory \in [Index -> Nat]
  /\ applied \in [Index -> Nat]

Init ==
  /\ pc = [p \in Kernels |-> IF Regions = 0 THEN "done" ELSE "enter"]
  /\ word = [p \in Kernels |-> 1]
  /\ value = [p \in Kernels |-> [w \in Index |-> 0]]
  /\ left = [p \in Kernels |-> Regions]
  /\ bridge = [p \in Kernels |-> "free"]
  /\ request = [p \in Kernels |-> Read(1)]
  /\ datain = [p \in Kernels |-> 0]
  /\ writeFifo = [p \in Kernels |-> <<>>]
  /\ readAddrFifo = [p \in Kernels |-> <<>>]
  /\ hasLock = [p \in Kernels |-> FALSE]
  /\ lockReleaseFifo = [p \in Kernels |-> FALSE]
  /\ acquireReq = {} /\ holder = NoKernel /\ granted = FALSE
  /\ pending = [p \in Kernels |-> <<>>]
  /\ memory = [w \in Index |-> 0]
  /\ applied = [w \in Index |-> 0]

------------------------------------------------------------------------------
(* The core.                                                               *)
Goto(p, from, to) == pc[p] = from /\ pc' = [pc EXCEPT ![p] = to]

(* enterCriticalRegion: the lock is requested unless it is still held (in  *)
(* the slip, the test is the wrong way round).                             *)
EnterCriticalRegionInverted(p) ==
  acquireReq' = IF hasLock[p] THEN acquireReq \cup {p} ELSE acquireReq
EnterCriticalRegion(p) ==
  acquireReq' = IF hasLock[p] THEN acquireReq ELSE acquireReq \cup {p}

Enter(p) ==
  /\ Goto(p, "enter", "read")
  /\ LongGap => ~hasLock[p]
  /\ EnterCriticalRegion(p)
  /\ UNCHANGED <<word, value, left, bus, fifos, lockside, holder, granted,
                 pending, memory, applied>>

(* A request is presented when the bridge says it is not full; the core    *)
(* stays for the answer of a read, but not for that of a write.            *)
Present(p, access) ==
  /\ bridge[p] = "free"
  /\ bridge' = [bridge EXCEPT ![p] = "mem_request"]
  /\ request' = [request EXCEPT ![p] = access]
  /\ UNCHANGED <<datain, fifos, lockside, service, pending, memory, applied>>

NextWordUnwrapped(p) == word[p] + 1
NextWord(p) == IF word[p] = Words THEN 1 ELSE word[p] + 1
Advance(p, from, to) ==
  /\ Goto(p, from, IF word[p] = Words THEN to ELSE IF from = "await" THEN "read" ELSE from)
  /\ word' = [word EXCEPT ![p] = NextWord(p)]

RequestRead(p) ==
  /\ Goto(p, "read", "await")
  /\ Present(p, Read(word[p]))
  /\ UNCHANGED <<word, value, left>>

ReceiveRead(p) ==
  /\ Advance(p, "await", "write")
  /\ bridge[p] = "free"
  /\ value' = [value EXCEPT ![p][word[p]] = datain[p]]
  /\ UNCHANGED <<left, bus, fifos, lockside, service, pending, memory, applied>>

RequestWrite(p) ==
  /\ Advance(p, "write", "leave")
  /\ Present(p, Write(word[p], value[p][word[p]] + 1))
  /\ UNCHANGED <<value, left>>

(* leaveCriticalRegion.  Two clocks pass between the last write and the    *)
(* pulse, the two the bridge needs to hand the write to the interface: the *)
(* pulse is never early, but nothing makes it wait for the memory.  In the *)
(* slip the test of hasLock is inverted.                                   *)
LeaveCriticalRegionInverted(p) ==
  lockReleaseFifo' = [lockReleaseFifo EXCEPT ![p] = @ \/ ~hasLock[p]]
LeaveCriticalRegion(p) ==
  lockReleaseFifo' = [lockReleaseFifo EXCEPT ![p] = @ \/ hasLock[p]]

Leave(p) ==
  /\ Goto(p, "leave", IF left[p] = 1 THEN "done" ELSE "enter")
  /\ bridge[p] # "mem_request"
  /\ left' = [left EXCEPT ![p] = @ - 1]
  /\ LeaveCriticalRegion(p)
  /\ UNCHANGED <<word, value, bus, fifos, hasLock, service, pending, memory, applied>>

------------------------------------------------------------------------------
(* The bridge and the interface.                                           *)

(* The request leaves the bridge's FIFO and enters the interface's.        *)
Issue(p) ==
  /\ bridge[p] = "mem_request"
  /\ IF request[p].write
       THEN /\ bridge' = [bridge EXCEPT ![p] = "bus_write"]
            /\ writeFifo' = [writeFifo EXCEPT ![p] = Append(@, request[p])]
            /\ UNCHANGED readAddrFifo
       ELSE /\ bridge' = [bridge EXCEPT ![p] = "bus_read"]
            /\ readAddrFifo' = [readAddrFifo EXCEPT ![p] = Append(@, request[p])]
            /\ UNCHANGED writeFifo
  /\ UNCHANGED <<core, request, datain, lockside, service, pending, memory, applied>>

(* enWrite acknowledges a write as soon as the write FIFO is empty.        *)
EnWrite(p) ==
  /\ bridge[p] = "bus_write" /\ writeFifo[p] = <<>>
  /\ bridge' = [bridge EXCEPT ![p] = "free"]
  /\ UNCHANGED <<core, request, datain, fifos, lockside, service, pending, memory, applied>>

(* writeResp and readReqAccept hand accesses to the memory under the lock; *)
(* the slip lets them pass without.                                        *)
MayAccessAlways(p) == TRUE
MayAccess(p) == hasLock[p]

WriteResp(p) ==
  /\ writeFifo[p] # <<>> /\ MayAccess(p)
  /\ pending' = [pending EXCEPT ![p] = Append(@, Head(writeFifo[p]))]
  /\ writeFifo' = [writeFifo EXCEPT ![p] = Tail(@)]
  /\ UNCHANGED <<core, bus, readAddrFifo, lockside, service, memory, applied>>

ReadReqAccept(p) ==
  /\ readAddrFifo[p] # <<>> /\ MayAccess(p)
  /\ pending' = [pending EXCEPT ![p] = Append(@, Head(readAddrFifo[p]))]
  /\ readAddrFifo' = [readAddrFifo EXCEPT ![p] = Tail(@)]
  /\ UNCHANGED <<core, bus, writeFifo, lockside, service, memory, applied>>

ObtainLock(p) ==
  /\ ~hasLock[p]
  /\ holder = p /\ granted
  /\ granted' = FALSE
  /\ hasLock' = [hasLock EXCEPT ![p] = TRUE]
  /\ UNCHANGED <<core, bus, fifos, lockReleaseFifo, acquireReq, holder, pending,
                 memory, applied>>

(* releaseLock waits for the memory, not for the FIFOs in front of it.  In *)
(* a build with WriteFirst it is held back by writeResp and readReqAccept, *)
(* which can fire whenever their FIFO has an access, as the lock is held   *)
(* and a memory with nothing pending takes one.  The slip does not even    *)
(* wait for the memory.                                                    *)
NothingPendingIgnored(p) == WriteFirst => writeFifo[p] = <<>> /\ readAddrFifo[p] = <<>>
NothingPending(p) ==
  /\ pending[p] = <<>>
  /\ WriteFirst => writeFifo[p] = <<>> /\ readAddrFifo[p] = <<>>

ReleaseLock(p) ==
  /\ hasLock[p] /\ lockReleaseFifo[p]
  /\ NothingPending(p)
  /\ lockReleaseFifo' = [lockReleaseFifo EXCEPT ![p] = FALSE]
  /\ hasLock' = [hasLock EXCEPT ![p] = FALSE]
  /\ holder' = NoKernel
  /\ UNCHANGED <<core, bus, fifos, acquireReq, granted, pending, memory, applied>>

------------------------------------------------------------------------------
(* LEAP: the lock service grants one request at a time; the coherent       *)
(* scratchpads perform each client's accesses in order.                    *)
Grant(p) ==
  /\ holder = NoKernel /\ p \in acquireReq
  /\ holder' = p /\ granted' = TRUE
  /\ acquireReq' = acquireReq \ {p}
  /\ UNCHANGED <<core, bus, fifos, lockside, pending, memory, applied>>

MemoryWrite(p) ==
  /\ pending[p] # <<>> /\ Head(pending[p]).write
  /\ LET access == Head(pending[p])
     IN  /\ memory' = [memory EXCEPT ![access.word] = access.data]
         /\ applied' = [applied EXCEPT ![access.word] = @ + 1]
  /\ pending' = [pending EXCEPT ![p] = Tail(@)]
  /\ UNCHANGED <<core, bus, fifos, lockside, service>>

(* A read is answered through readResp, which also ends it in the bridge.  *)
MemoryRead(p) ==
  /\ pending[p] # <<>> /\ ~Head(pending[p]).write
  /\ datain' = [datain EXCEPT ![p] = memory[Head(pending[p]).word]]
  /\ bridge' = [bridge EXCEPT ![p] = IF @ = "bus_read" THEN "free" ELSE @]
  /\ pending' = [pending EXCEPT ![p] = Tail(@)]
  /\ UNCHANGED <<core, request, fifos, lockside, service, memory, applied>>

CoreStep(p) ==
  Enter(p) \/ RequestRead(p) \/ ReceiveRead(p) \/ RequestWrite(p) \/ Leave(p)
PortStep(p) ==
  \/ Issue(p) \/ EnWrite(p) \/ WriteResp(p) \/ ReadReqAccept(p)
  \/ ObtainLock(p) \/ ReleaseLock(p) \/ MemoryWrite(p) \/ MemoryRead(p)

Next == \E p \in Kernels : CoreStep(p) \/ PortStep(p) \/ Grant(p)

(* Cores, rules and memory are clocked; the lock service grants for ever.  *)
Spec == Init /\ [][Next]_vars
FairSpec ==
  /\ Spec
  /\ \A p \in Kernels : WF_vars(CoreStep(p)) /\ WF_vars(PortStep(p))
  /\ WF_vars(\E p \in Kernels : Grant(p))

------------------------------------------------------------------------------
(* Every write that reaches a shared word adds to what is there: none was  *)
(* computed from a value that another kernel has replaced since.           *)
NoLostUpdate == \A w \in Index : memory[w] = applied[w]

(* Accesses reach the memory only from the kernel that owns the lock, and  *)
(* an interface that believes it has the lock is right.                    *)
OnlyHolderAccesses ==
  \A p \in Kernels : hasLock[p] \/ pending[p] # <<>> => holder = p /\ ~granted

(* A core inside its region, or with an access under way, is never left    *)
(* without a lock: it has asked for it, or has been granted it.            *)
InRegion(p) == pc[p] \in {"read", "await", "write", "leave"}
AccessUnderWay(p) ==
  \/ bridge[p] = "mem_request"
  \/ writeFifo[p] # <<>> \/ readAddrFifo[p] # <<>> \/ pending[p] # <<>>
Asked(p) == p \in acquireReq \/ holder = p

RegionHasLock ==
  \A p \in Kernels : InRegion(p) \/ AccessUnderWay(p) => Asked(p)

(* A core that is between regions with its lock released has nothing under *)
(* way: all words of the record it wrote are in the memory.                *)
ReleasedMeansWritten ==
  \A p \in Kernels :
    ~InRegion(p) /\ ~hasLock[p] => ~AccessUnderWay(p)

(* Every core gets through its regions.                                    *)
AllRegionsEnd == <>(\A p \in Kernels : pc[p] = "done" /\ bridge[p] = "free")

==============================================================================
