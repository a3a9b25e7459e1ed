------------------------------ MODULE MemoryPort ------------------------------
(***************************************************************************)
(* One private memory port of the filtering core, clock by clock: the core *)
(* (an ap_bus master generated by Vivado HLS), bus_bridge.v with its       *)
(* request FIFO fifo.v, and privateSPInterface.bsv with the rules of       *)
(* mem-perf-common.bsv that tie it to the bridge.  The scratchpad behind   *)
(* it is LEAP's.                                                           *)
(*                                                                         *)
(* Every register changes at the same clock edge, so a step is one clock   *)
(* of the whole port; each component's share of it is an operator.  What   *)
(* is left open is when the core presents a request, when the scratchpad   *)
(* accepts one and when it performs the oldest it has accepted.            *)
(***************************************************************************)
EXTENDS Naturals, Sequences, FiniteSetsExt

CONSTANTS
  Addresses, Data,
  Depth,                \* slots of fifo.v: 2^LOG2_DEPTH
  FifoSize,             \* slots of writeFifo and readAddrFifo
  ScratchpadQueue       \* accesses the scratchpad accepts before it performs one

ASSUME MemoryPortAssumption ==
  /\ Addresses # {} /\ Data # {}
  /\ Depth \in Nat \ {0} /\ FifoSize \in Nat \ {0}
  /\ ScratchpadQueue \in Nat \ {0}

VARIABLES
  pc, addr, result,     \* core: running or waiting for a load, its address, its value
  state, datain,        \* bus_bridge: state machine and data register
  slots, rd_ptr, wr_ptr, depth_cnt, dout, valid,        \* fifo
  writeFifo, readAddrFifo,      \* privateSPInterface
  accepted, readRsp, memory     \* scratchpad: accesses to perform, loads to answer, words

core == <<pc, addr, result>>
bridge == <<state, datain>>
fifo == <<slots, rd_ptr, wr_ptr, depth_cnt, dout, valid>>
interface == <<writeFifo, readAddrFifo>>
scratchpad == <<accepted, readRsp, memory>>
vars == <<core, bridge, fifo, interface, scratchpad>>

Request == [write : BOOLEAN, addr : Addresses, data : Data]
SomeData == CHOOSE d \in Data : TRUE
SomeAddress == CHOOSE a \in Addresses : TRUE
Idle == [write |-> FALSE, addr |-> SomeAddress, data |-> SomeData]

TypeOK ==
  /\ pc \in {"run", "load"} /\ addr \in Addresses /\ result \in Data
  /\ state \in {"free", "mem_request", "bus_write", "bus_read"}
  /\ datain \in Data
  /\ slots \in [0 .. Depth - 1 -> Request]
  /\ rd_ptr \in 0 .. Depth - 1 /\ wr_ptr \in 0 .. Depth - 1
  /\ depth_cnt \in 0 .. Depth
  /\ dout \in Request /\ valid \in BOOLEAN
  /\ writeFifo \in Seq(Request) /\ Len(writeFifo) <= FifoSize
  /\ readAddrFifo \in Seq(Request) /\ Len(readAddrFifo) <= FifoSize
  /\ accepted \in Seq(Request)
  /\ readRsp \in Seq(Data)
  /\ memory \in [Addresses -> Data]

Init ==
  /\ pc = "run" /\ addr = SomeAddress /\ result = SomeData
  /\ state = "free" /\ datain = SomeData
  /\ slots = [i \in 0 .. Depth - 1 |-> Idle]
  /\ rd_ptr = 0 /\ wr_ptr = 0 /\ depth_cnt = 0
  /\ dout = Idle /\ valid = FALSE
  /\ writeFifo = <<>> /\ readAddrFifo = <<>>
  /\ accepted = <<>> /\ readRsp = <<>>
  /\ memory \in [Addresses -> Data]

------------------------------------------------------------------------------
(* Wires.  A bridge that is free says so on both rsp_empty_n and           *)
(* rsp_full_n; a request leaves its FIFO for one clock only.               *)
req_full_n == state = "free"
rsp_empty_n == state = "free"
rd_en == state = "mem_request" /\ ~valid
writeReq == valid /\ dout.write
readReq == valid /\ ~dout.write

(* The rules of mem-perf-common.bsv, one set for each port.  A request     *)
(* enters its FIFO in the clock it lasts, or is lost to a full FIFO.       *)
hlsBusWriteReq == IF writeReq /\ Len(writeFifo) < FifoSize THEN <<dout>> ELSE <<>>
hlsBusReadReq == IF readReq /\ Len(readAddrFifo) < FifoSize THEN <<dout>> ELSE <<>>

(* A write is acknowledged while the write FIFO is empty, a read when its  *)
(* answer is there.  The slip acknowledges a write at once.                *)
hlsEnWriteAlways == TRUE
hlsEnWrite == writeFifo = <<>>
hlsBusReadResp == readRsp # <<>>

Bit(b) == IF b THEN 1 ELSE 0
Pop(q, b) == IF b /\ q # <<>> THEN Tail(q) ELSE q

(* The core presents a request only to a bridge that is not full, goes on  *)
(* after a store, and waits for the answer to a load.  The slip goes on    *)
(* without looking at req_full_n.                                          *)
MayPresentAlways == TRUE
MayPresent == req_full_n

CoreClock(req) ==
  \/ /\ pc = "run"
     /\ req # <<>> => MayPresent
     /\ IF req # <<>> /\ ~req[1].write
          THEN pc' = "load" /\ addr' = req[1].addr
          ELSE UNCHANGED <<pc, addr>>
     /\ UNCHANGED result
  \/ /\ pc = "load" /\ req = <<>>
     /\ IF rsp_empty_n THEN pc' = "run" /\ result' = datain
                       ELSE UNCHANGED <<pc, result>>
     /\ UNCHANGED addr

(* When an access is done the bridge takes the next request, or is free.   *)
(* The slip returns to mem_request whatever the FIFO holds.                *)
AfterAccessMore == "mem_request"
AfterAccess == IF depth_cnt # 0 THEN "mem_request" ELSE "free"

BridgeClock(req) ==
  /\ state' = CASE state = "free" /\ req # <<>>          -> "mem_request"
                [] state = "mem_request" /\ writeReq     -> "bus_write"
                [] state = "mem_request" /\ readReq      -> "bus_read"
                [] state = "bus_write" /\ hlsEnWrite     -> AfterAccess
                [] state = "bus_read" /\ hlsBusReadResp  -> AfterAccess
                [] OTHER                                 -> state
  /\ datain' = IF state = "bus_read" /\ hlsBusReadResp THEN Head(readRsp) ELSE datain

(* dout and valid are registers; depth_cnt has one bit more than the       *)
(* pointers, and nothing stops a push into a full FIFO.                    *)
FifoClock(req) ==
  /\ slots' = IF req # <<>> THEN [slots EXCEPT ![wr_ptr] = req[1]] ELSE slots
  /\ wr_ptr' = (wr_ptr + Len(req)) % Depth
  /\ rd_ptr' = (rd_ptr + Bit(rd_en)) % Depth
  /\ depth_cnt' = (depth_cnt + Len(req) + 2 * Depth - Bit(rd_en)) % (2 * Depth)
  /\ dout' = slots[rd_ptr]
  /\ valid' = rd_en

(* writeResp and readReqAccept fire when the scratchpad is ready.          *)
InterfaceClock(ready) ==
  /\ writeFifo' = Pop(writeFifo, ready) \o hlsBusWriteReq
  /\ readAddrFifo' = Pop(readAddrFifo, ready) \o hlsBusReadReq

(* The scratchpad performs what it has accepted in order.                  *)
Accepts(ready) ==
  IF ready THEN SubSeq(writeFifo, 1, Bit(writeFifo # <<>>))
                  \o SubSeq(readAddrFifo, 1, Bit(readAddrFifo # <<>>))
           ELSE <<>>

ScratchpadClock(ready, serve) ==
  LET busy == serve /\ accepted # <<>>
      access == Head(accepted)
  IN  /\ accepted' = Pop(accepted, busy) \o Accepts(ready)
      /\ memory' = IF busy /\ access.write
                     THEN [memory EXCEPT ![access.addr] = access.data] ELSE memory
      /\ readRsp' = Pop(readRsp, TRUE)
                      \o IF busy /\ ~access.write THEN <<memory[access.addr]>> ELSE <<>>

Clock(req, willing, serve) ==
  LET ready == willing /\ Len(accepted) < ScratchpadQueue
  IN  /\ CoreClock(req)
      /\ BridgeClock(req)
      /\ FifoClock(req)
      /\ InterfaceClock(ready)
      /\ ScratchpadClock(ready, serve)

Presented == {<<>>} \cup {<<r>> : r \in {r \in Request : r.write \/ r.data = SomeData}}

Next ==
  \E req \in Presented, willing, serve \in BOOLEAN : Clock(req, willing, serve)

(* The scratchpad accepts and performs accesses again and again.           *)
Spec == Init /\ [][Next]_vars
FairSpec == Spec /\ WF_vars(\E req \in Presented : Clock(req, TRUE, TRUE))

------------------------------------------------------------------------------
(* At most one request is between the core and the scratchpad's doorstep,  *)
(* and while there is one the bridge is not free: this, and not a test of  *)
(* full, is what keeps fifo.v from overflowing and its pulses, which last  *)
(* one clock, from meeting a full FIFO behind it.                          *)
OneRequest ==
  /\ depth_cnt + Bit(valid) + Len(writeFifo) + Len(readAddrFifo) <= 1
  /\ depth_cnt + Bit(valid) + Len(readAddrFifo) > 0 => state # "free"
  /\ wr_ptr = (rd_ptr + depth_cnt) % Depth

(* The array as the core knows it: for each address the last store on its  *)
(* way to the scratchpad, or what the scratchpad holds.                    *)
InFifo == [i \in 1 .. depth_cnt |-> slots[(rd_ptr + i - 1) % Depth]]
OnTheirWay == accepted \o writeFifo \o (IF valid THEN <<dout>> ELSE <<>>) \o InFifo
Stores(q, a) == {i \in DOMAIN q : q[i].write /\ q[i].addr = a}
After(m, q) ==
  [a \in Addresses |-> IF Stores(q, a) = {} THEN m[a] ELSE q[Max(Stores(q, a))].data]
Array == After(memory, OnTheirWay)

(* The port implements an array: every load returns what the core's last   *)
(* store to that address left there, although stores are posted, loads and *)
(* stores take different FIFOs, and nothing in the port compares addresses.*)
Sequential == INSTANCE SequentialMemory WITH mem <- Array
ImplementsArray == Sequential!Spec

(* Every request is answered: the bridge becomes free again, and with it   *)
(* the core, which tests nothing else.                                     *)
RequestsEnd == state # "free" ~> state = "free"

==============================================================================
