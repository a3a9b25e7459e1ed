------------------------------ MODULE Controller ------------------------------
(***************************************************************************)
(* A run of the filtering application as the host drives it: the calls of  *)
(* connected-application-test.cpp, mem-perf-driver.bsv, the rules of       *)
(* mem-perf-common.bsv that take commands, feed the core and print what it *)
(* writes, and the core as its stream ports show it.  What the core does   *)
(* between its inputs and its outputs is FilterKernel and Clustering; its  *)
(* memory ports are MemoryPort and CriticalRegion.                         *)
(*                                                                         *)
(* The words of the tree image, the initial centres and the outputs are    *)
(* told by their position: word a, centre i, output i.                     *)
(***************************************************************************)
EXTENDS Naturals, Sequences

CONSTANTS
  K, N, P,              \* centres, points and parallel kernels of the build
  CentreFifo,           \* slots of cntrInFifo
  TreeFifo,             \* slots of treeDataMmapFifo
  OutFifo               \* slots of clustersOutFifo and of distortionOutFifo

(* A build's centres have to wait in cntrInFifo for the core to start, and *)
(* nothing would take back an output that met a full FIFO.                 *)
ASSUME ControllerAssumption ==
  /\ K \in Nat \ {0} /\ P \in Nat \ {0} /\ N \in Nat /\ N >= P
  /\ CentreFifo \in Nat /\ CentreFifo >= K
  /\ TreeFifo \in Nat \ {0}
  /\ OutFifo \in Nat /\ OutFifo >= K

VARIABLES
  calls, waiting,       \* host: calls made, and is it waiting for the last one's answer
  request,              \* MEMPERFRRR: the call on its way to the driver
  commandIn, commandOut,        \* command chain before and behind the controller
  finish,               \* finish ring: tokens on their way to the driver
  state, n, k,          \* controller
  cntrInFifo,
  treeDataMmapCounter, treeDataMmapRequestPending, treeDataMmapFifo,
  readRsp,              \* scratchpadTreeInit: answers that wait
  pc, i, nodes, cntrs,  \* core: phase, loop counter, words and centres it has read
  clustersOutFifo, distortionOutFifo,
  clustersPrinted, distortionsPrinted

host == <<calls, waiting>>
links == <<request, commandIn, commandOut, finish>>
control == <<state, n, k, cntrInFifo>>
treeInput == <<treeDataMmapCounter, treeDataMmapRequestPending, treeDataMmapFifo, readRsp>>
core == <<pc, i, nodes, cntrs>>
output == <<clustersOutFifo, distortionOutFifo, clustersPrinted, distortionsPrinted>>
vars == <<host, links, control, treeInput, core, output>>

LastWord == 2 * N - 1 - 1 - (P - 1)
Command == [command : {1, 2}, cntr : 0 .. K - 1, n : Nat, k : Nat]
RingSlots == 2          \* of the ring node's FIFO

TypeOK ==
  /\ calls \in 0 .. K + 1 /\ waiting \in BOOLEAN
  /\ request \in Seq(Command) /\ commandIn \in Seq(Command) /\ commandOut \in Seq(Command)
  /\ finish \in Seq({0})
  /\ state \in {"get_command", "start", "processing", "test_done"}
  /\ n \in Nat /\ k \in Nat
  /\ cntrInFifo \in Seq(0 .. K - 1) /\ Len(cntrInFifo) <= CentreFifo
  /\ treeDataMmapCounter \in Nat /\ treeDataMmapRequestPending \in BOOLEAN
  /\ treeDataMmapFifo \in Seq(Nat) /\ Len(treeDataMmapFifo) <= TreeFifo
  /\ readRsp \in Seq(Nat)
  /\ pc \in {"idle", "load", "root", "centres", "cluster", "output", "done"} /\ i \in Nat
  /\ nodes \in Seq(Nat) /\ cntrs \in Seq(0 .. K - 1)
  /\ clustersOutFifo \in Seq(Nat) /\ Len(clustersOutFifo) <= OutFifo
  /\ distortionOutFifo \in Seq(Nat) /\ Len(distortionOutFifo) <= OutFifo
  /\ clustersPrinted \in Seq(Nat) /\ distortionsPrinted \in Seq(Nat)

Init ==
  /\ calls = 0 /\ waiting = FALSE
  /\ request = <<>> /\ commandIn = <<>> /\ commandOut = <<>> /\ finish = <<>>
  /\ state = "get_command" /\ n = 0 /\ k = 0 /\ cntrInFifo = <<>>
  /\ treeDataMmapCounter = 0 /\ treeDataMmapRequestPending = FALSE
  /\ treeDataMmapFifo = <<>> /\ readRsp = <<>>
  /\ pc = "idle" /\ i = 0 /\ nodes = <<>> /\ cntrs = <<>>
  /\ clustersOutFifo = <<>> /\ distortionOutFifo = <<>>
  /\ clustersPrinted = <<>> /\ distortionsPrinted = <<>>

------------------------------------------------------------------------------
(* The host and the driver *)

(* A call for each centre (command 2), and one that starts the core        *)
(* (command 1); each returns when its answer is there.                     *)
HostCall(c) ==
  IF c < K THEN [command |-> 2, cntr |-> c, n |-> LastWord, k |-> K - 1]
           ELSE [command |-> 1, cntr |-> 0, n |-> LastWord, k |-> K - 1]

RunTest ==
  /\ ~waiting /\ calls <= K
  /\ request' = <<HostCall(calls)>>
  /\ calls' = calls + 1 /\ waiting' = TRUE
  /\ UNCHANGED <<commandIn, commandOut, finish, control, treeInput, core, output>>

injectOperation ==
  /\ request # <<>> /\ commandIn = <<>>
  /\ commandIn' = request /\ request' = <<>>
  /\ UNCHANGED <<host, commandOut, finish, control, treeInput, core, output>>

(* The chain ends where it began.                                          *)
drainOperation ==
  /\ commandOut # <<>> /\ commandOut' = <<>>
  /\ UNCHANGED <<host, request, commandIn, finish, control, treeInput, core, output>>

(* One controller is on the ring, so that each token answers a call.       *)
collectResponses ==
  /\ finish # <<>>
  /\ finish' = Tail(finish) /\ waiting' = FALSE
  /\ UNCHANGED <<calls, request, commandIn, commandOut, control, treeInput, core, output>>

------------------------------------------------------------------------------
(* The controller *)

(* cntrInFifo.enq stands under a condition: with bsc's aggressive          *)
(* conditions the rule waits for room only if it has a centre to put.  The *)
(* slip is the rule without that option.                                   *)
RoomForAny(cmd) == Len(cntrInFifo) < CentreFifo
RoomFor(cmd) == cmd.command = 2 => Len(cntrInFifo) < CentreFifo

(* No host sends 0, which ends in STATE_exit without an answer, or 3.      *)
StateFor(command) ==
  CASE command = 0 -> "finished"
    [] command = 1 -> "start"
    [] command = 2 -> "test_done"
    [] OTHER       -> "get_command"

(* The slip puts a word with every command.                                *)
CentreOfAny(cmd) == <<cmd.cntr>>
CentreOf(cmd) == IF cmd.command = 2 THEN <<cmd.cntr>> ELSE <<>>

doGetCommand ==
  /\ state = "get_command" /\ commandIn # <<>> /\ commandOut = <<>>
  /\ LET cmd == Head(commandIn)
     IN  /\ RoomFor(cmd)
         /\ state' = StateFor(cmd.command)
         /\ cntrInFifo' = cntrInFifo \o CentreOf(cmd)
         /\ n' = cmd.n /\ k' = cmd.k
  /\ commandOut' = commandIn /\ commandIn' = <<>>
  /\ UNCHANGED <<host, request, finish, treeInput, core, output>>

(* ap_start is a pulse, which an idle core takes.                          *)
start ==
  /\ state = "start" /\ pc = "idle"
  /\ state' = "processing"
  /\ pc' = "load" /\ i' = 0
  /\ UNCHANGED <<host, links, n, k, cntrInFifo, treeInput, nodes, cntrs, output>>

(* The slip does not wait for ap_done.                                     *)
ipDoneUnseen == TRUE
ipDone == pc = "done"

processing ==
  /\ state = "processing" /\ ipDone
  /\ state' = "test_done" /\ pc' = "idle"
  /\ UNCHANGED <<host, links, n, k, cntrInFifo, treeInput, i, nodes, cntrs, output>>

(* The slip forgets to go back, and answers again.                         *)
AfterTestDoneStays == "test_done"
AfterTestDone == "get_command"

doTestDone ==
  /\ state = "test_done" /\ Len(finish) < RingSlots
  /\ finish' = Append(finish, 0)
  /\ state' = AfterTestDone
  /\ UNCHANGED <<host, request, commandIn, commandOut, n, k, cntrInFifo, treeInput, core, output>>

------------------------------------------------------------------------------
(* The tree image: words are fetched ahead of the core, in its order and   *)
(* without end; the counter is never set back.                             *)
mmapTreeInitReadReq ==
  /\ state = "processing" /\ ~treeDataMmapRequestPending
  /\ Len(treeDataMmapFifo) < TreeFifo
  /\ readRsp' = Append(readRsp, treeDataMmapCounter)
  /\ treeDataMmapCounter' = treeDataMmapCounter + 1
  /\ treeDataMmapRequestPending' = TRUE
  /\ UNCHANGED <<host, links, control, treeDataMmapFifo, core, output>>

(* The scratchpad answers when it likes: the step is left to fairness.     *)
mmapTreeInitReadResp ==
  /\ state = "processing" /\ treeDataMmapRequestPending /\ readRsp # <<>>
  /\ Len(treeDataMmapFifo) < TreeFifo
  /\ treeDataMmapFifo' = Append(treeDataMmapFifo, Head(readRsp))
  /\ readRsp' = Tail(readRsp)
  /\ treeDataMmapRequestPending' = FALSE
  /\ UNCHANGED <<host, links, control, treeDataMmapCounter, core, output>>

------------------------------------------------------------------------------
(* The core's streams: each read or write is a rule of the controller too  *)

(* The loop has been run for the last index.                               *)
NextPhase(last, phase) ==
  IF i = last THEN pc' = phase /\ i' = 0 ELSE pc' = pc /\ i' = i + 1

(* The slip leaves the word in the FIFO.                                   *)
LeftThere(fifo) == fifo
Taken(fifo) == Tail(fifo)

i_node_data ==
  /\ pc = "load" /\ state = "processing" /\ treeDataMmapFifo # <<>>
  /\ nodes' = Append(nodes, Head(treeDataMmapFifo))
  /\ treeDataMmapFifo' = Taken(treeDataMmapFifo)
  /\ NextPhase(n, "root")
  /\ UNCHANGED <<host, links, control, treeDataMmapCounter, treeDataMmapRequestPending,
                 readRsp, cntrs, output>>

(* Every kernel's root is node 1.                                          *)
root ==
  /\ pc = "root" /\ state = "processing"
  /\ NextPhase(P - 1, "centres")
  /\ UNCHANGED <<host, links, control, treeInput, nodes, cntrs, output>>

cntr_pos_init ==
  /\ pc = "centres" /\ cntrInFifo # <<>>
  /\ cntrs' = Append(cntrs, Head(cntrInFifo))
  /\ cntrInFifo' = Taken(cntrInFifo)
  /\ NextPhase(k, "cluster")
  /\ UNCHANGED <<host, links, state, n, k, treeInput, nodes, output>>

it_loop ==
  /\ pc = "cluster"
  /\ pc' = "output"
  /\ UNCHANGED <<host, links, control, treeInput, i, nodes, cntrs, output>>

(* A value that meets a full FIFO is lost.                                 *)
Enq(fifo, v) == IF Len(fifo) < OutFifo THEN Append(fifo, v) ELSE fifo

output_loop ==
  /\ pc = "output" /\ state = "processing"
  /\ distortionOutFifo' = Enq(distortionOutFifo, i)
  /\ clustersOutFifo' = Enq(clustersOutFifo, i)
  /\ NextPhase(k, "done")
  /\ UNCHANGED <<host, links, control, treeInput, nodes, cntrs, clustersPrinted, distortionsPrinted>>

------------------------------------------------------------------------------
(* What is printed is compared with the next word of an expected output.   *)
clusters_out_stdio ==
  /\ clustersOutFifo # <<>>
  /\ clustersPrinted' = Append(clustersPrinted, Head(clustersOutFifo))
  /\ clustersOutFifo' = Tail(clustersOutFifo)
  /\ UNCHANGED <<host, links, control, treeInput, core, distortionOutFifo, distortionsPrinted>>

distortion_out_stdio ==
  /\ distortionOutFifo # <<>>
  /\ distortionsPrinted' = Append(distortionsPrinted, Head(distortionOutFifo))
  /\ distortionOutFifo' = Tail(distortionOutFifo)
  /\ UNCHANGED <<host, links, control, treeInput, core, clustersOutFifo, clustersPrinted>>

Next ==
  \/ RunTest \/ injectOperation \/ drainOperation \/ collectResponses
  \/ doGetCommand \/ start \/ processing \/ doTestDone
  \/ mmapTreeInitReadReq \/ mmapTreeInitReadResp
  \/ i_node_data \/ root \/ cntr_pos_init \/ it_loop \/ output_loop
  \/ clusters_out_stdio \/ distortion_out_stdio

(* A rule that stays enabled fires at a clock to come, the core goes on    *)
(* while its ports let it, and LEAP's links and scratchpad deliver.        *)
Spec == Init /\ [][Next]_vars
FairSpec ==
  /\ Spec
  /\ WF_vars(RunTest) /\ WF_vars(injectOperation)
  /\ WF_vars(drainOperation) /\ WF_vars(collectResponses)
  /\ WF_vars(doGetCommand) /\ WF_vars(start) /\ WF_vars(processing) /\ WF_vars(doTestDone)
  /\ WF_vars(mmapTreeInitReadReq) /\ WF_vars(mmapTreeInitReadResp)
  /\ WF_vars(i_node_data) /\ WF_vars(root) /\ WF_vars(cntr_pos_init)
  /\ WF_vars(it_loop) /\ WF_vars(output_loop)
  /\ WF_vars(clusters_out_stdio) /\ WF_vars(distortion_out_stdio)

------------------------------------------------------------------------------
UpTo(len) == [j \in 1 .. len |-> j - 1]
AtMost(len, bound) == IF len < bound THEN len ELSE bound

(* The host gets one answer for each call: while it waits, its call is in  *)
(* exactly one place, and while it does not there is none, nor a token     *)
(* that it would take for the answer to its next call.                     *)
OneAnswerPerCall ==
  Len(request) + Len(commandIn) + (IF state = "get_command" THEN 0 ELSE 1) + Len(finish)
    = IF waiting THEN 1 ELSE 0

(* The core reads the words of the image and the centres of the host in    *)
(* order, without a gap or a repetition, although words are fetched ahead  *)
(* of it and the centres arrive, one call after the other, before it runs. *)
Received == calls - Len(request) - Len(commandIn)
InputsReachCore ==
  /\ nodes \o treeDataMmapFifo \o readRsp = UpTo(treeDataMmapCounter)
  /\ cntrs \o cntrInFifo = UpTo(AtMost(Received, K))

(* When the host has its last answer, the core has read the whole image    *)
(* and all centres, it has stopped, and its outputs, printed or not, are   *)
(* all in the controller.                                                  *)
AllAnswered == calls = K + 1 /\ ~waiting
AnswerMeansOutput ==
  AllAnswered =>
    /\ pc = "idle" /\ Len(nodes) = LastWord + 1 /\ Len(cntrs) = K
    /\ clustersPrinted \o clustersOutFifo = UpTo(K)
    /\ distortionsPrinted \o distortionOutFifo = UpTo(K)

(* The host's calls all return, and each output is printed once, next to   *)
(* the word of the expected output that has its position.                  *)
EverythingPrinted ==
  <>[](AllAnswered /\ clustersPrinted = UpTo(K) /\ distortionsPrinted = UpTo(K))

==============================================================================
