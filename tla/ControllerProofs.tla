--------------------------- MODULE ControllerProofs ---------------------------
(***************************************************************************)
(* Proofs about Controller, for any number of centres, points and kernels  *)
(* and any sizes of the FIFOs that hold the centres and the outputs.       *)
(***************************************************************************)
EXTENDS Controller, SequenceTheorems, TLAPS

(* What the calls have left behind: the one on its way is the host's last, *)
(* the core runs only for the last of all, and the arguments a controller  *)
(* has taken with any call are those of every call.                        *)
CallInv ==
  /\ waiting => calls >= 1
  /\ request # <<>> => request = <<HostCall(calls - 1)>>
  /\ commandIn # <<>> => commandIn = <<HostCall(calls - 1)>>
  /\ state \in {"start", "processing"} => calls = K + 1
  /\ Received >= 1 => n = LastWord /\ k = K - 1

Sent(m) ==
  /\ clustersPrinted \o clustersOutFifo = UpTo(m)
  /\ distortionsPrinted \o distortionOutFifo = UpTo(m)

NothingFetched ==
  /\ treeDataMmapCounter = 0 /\ ~treeDataMmapRequestPending
  /\ treeDataMmapFifo = <<>> /\ readRsp = <<>>
  /\ nodes = <<>>

(* How far the core is, in each of its phases; idle before the last call   *)
(* is served and after.                                                    *)
NotStarted == Received <= K \/ state = "start"
ImageRead == Len(nodes) = LastWord + 1
CentresRead == Len(cntrs) = K
PhaseInv ==
  /\ state = "processing" <=> pc # "idle"
  /\ NotStarted => NothingFetched /\ cntrs = <<>> /\ Sent(0)
  /\ pc = "load" => i = Len(nodes) /\ i <= n /\ cntrs = <<>> /\ Sent(0)
  /\ pc = "root" => ImageRead /\ i <= P - 1 /\ cntrs = <<>> /\ Sent(0)
  /\ pc = "centres" => ImageRead /\ i = Len(cntrs) /\ i <= k /\ Sent(0)
  /\ pc = "cluster" => ImageRead /\ CentresRead /\ i = 0 /\ Sent(0)
  /\ pc = "output" => ImageRead /\ CentresRead /\ i <= k /\ Sent(i)
  /\ pc = "done" \/ (~NotStarted /\ pc = "idle") => ImageRead /\ CentresRead /\ Sent(K)

(* The inductive invariant.                                                *)
IInv ==
  /\ TypeOK
  /\ OneAnswerPerCall
  /\ InputsReachCore
  /\ CallInv
  /\ PhaseInv

------------------------------------------------------------------------------
LEMMA JoinAssociative ==
  ASSUME NEW s \in Seq(Nat), NEW t \in Seq(Nat), NEW v \in Seq(Nat)
  PROVE  (s \o t) \o v = s \o (t \o v)
BY SMTT(30)

(* The sequence of the first positions grows by its length.                *)
LEMMA UpToGrows ==
  ASSUME NEW m \in Nat
  PROVE  /\ UpTo(m) \in Seq(Nat) /\ Len(UpTo(m)) = m
         /\ Append(UpTo(m), m) = UpTo(m + 1)
         /\ UpTo(0) = <<>>
<1>1. UpTo(m) \in Seq(Nat) /\ UpTo(m + 1) \in Seq(Nat)
  BY DEF UpTo
<1>2. Len(UpTo(m)) = m /\ Len(UpTo(m + 1)) = m + 1
  BY DEF UpTo
<1>3. Append(UpTo(m), m) \in Seq(Nat) /\ Len(Append(UpTo(m), m)) = m + 1
  BY <1>1, <1>2
<1>4. \A j \in 1 .. m + 1 : Append(UpTo(m), m)[j] = UpTo(m + 1)[j]
  BY <1>1, <1>2 DEF UpTo
<1>5. Append(UpTo(m), m) = UpTo(m + 1)
  BY <1>1, <1>2, <1>3, <1>4, SeqEqual
<1>6. UpTo(0) = <<>>
  BY DEF UpTo
<1>7. QED
  BY <1>1, <1>2, <1>5, <1>6

(* Taking the head of one FIFO into the next leaves what both hold.        *)
LEMMA HandOver ==
  ASSUME NEW S, NEW s \in Seq(S), NEW t \in Seq(S), t # <<>>
  PROVE  Append(s, Head(t)) \o Tail(t) = s \o t
<1>1. /\ Head(t) \in S /\ Tail(t) \in Seq(S)
      /\ Append(s, Head(t)) \in Seq(S)
  BY HeadTailProperties
<1>2. /\ Append(s, Head(t)) \o Tail(t) \in Seq(S) /\ s \o t \in Seq(S)
      /\ Len(Append(s, Head(t)) \o Tail(t)) = Len(s) + Len(t)
      /\ Len(s \o t) = Len(s) + Len(t)
  BY <1>1
<1>3. \A j \in 1 .. Len(s) + Len(t) : (Append(s, Head(t)) \o Tail(t))[j] = (s \o t)[j]
  BY <1>1
<1>4. QED
  BY <1>2, <1>3, SeqEqual

(* An element put into the last FIFO comes last of what both hold.         *)
LEMMA PutLast ==
  ASSUME NEW S, NEW s \in Seq(S), NEW t \in Seq(S), NEW e \in S
  PROVE  s \o Append(t, e) = Append(s \o t, e)
<1>1. /\ s \o Append(t, e) \in Seq(S) /\ Append(s \o t, e) \in Seq(S)
      /\ Len(s \o Append(t, e)) = Len(Append(s \o t, e))
      /\ Len(Append(s \o t, e)) = Len(s) + Len(t) + 1
  OBVIOUS
<1>2. \A j \in 1 .. Len(s) + Len(t) + 1 :
        (s \o Append(t, e))[j] = Append(s \o t, e)[j]
  OBVIOUS
<1>3. QED
  BY <1>1, <1>2, SeqEqual

(* What a FIFO gives and what it takes.                                    *)
LEMMA Taking ==
  ASSUME NEW S, NEW s \in Seq(S), s # <<>>
  PROVE  Head(s) \in S /\ Tail(s) \in Seq(S) /\ Len(s) \in Nat /\ Len(Tail(s)) = Len(s) - 1
BY HeadTailProperties

LEMMA Putting ==
  ASSUME NEW S, NEW s \in Seq(S), NEW e \in S
  PROVE  Append(s, e) \in Seq(S) /\ Len(s) \in Nat /\ Len(Append(s, e)) = Len(s) + 1
OBVIOUS

(* What a host sends is a command.                                         *)
LEMMA HostCalls ==
  /\ LastWord \in Nat
  /\ \A c \in 0 .. K : HostCall(c) \in Command
BY ControllerAssumption DEF LastWord, HostCall, Command

(* Each step keeps the variables in their types, and the FIFOs within      *)
(* their sizes.                                                            *)
LEMMA TypeStep ==
  ASSUME TypeOK, Next
  PROVE  TypeOK'
<1>1. CASE RunTest
  BY <1>1, HostCalls, ControllerAssumption DEF TypeOK, RunTest, host, links, control, treeInput, core, output
<1>2. CASE injectOperation
  BY <1>2 DEF TypeOK, injectOperation, host, links, control, treeInput, core, output
<1>3. CASE drainOperation
  BY <1>3 DEF TypeOK, drainOperation, host, links, control, treeInput, core, output
<1>4. CASE collectResponses
  <2>1. finish' \in Seq({0})
    BY <1>4, Taking, Putting, ControllerAssumption DEF TypeOK, collectResponses
  <2>2. QED
    BY <1>4, <2>1 DEF TypeOK, collectResponses, host, links, control, treeInput, core, output
<1>5. CASE doGetCommand
  <2>1. /\ Head(commandIn) \in Command /\ commandIn' \in Seq(Command)
        /\ commandOut' \in Seq(Command)
    BY <1>5, HeadTailProperties DEF TypeOK, doGetCommand
  <2>2. state' \in {"start", "test_done"}
    BY <1>5, <2>1 DEF doGetCommand, StateFor, Command
  <2>3. n' \in Nat /\ k' \in Nat
    BY <1>5, <2>1 DEF doGetCommand, Command
  <2>4. cntrInFifo' \in Seq(0 .. K - 1) /\ Len(cntrInFifo') <= CentreFifo
    <3>1. CASE Head(commandIn).command = 2
      <4>1. /\ CentreOf(Head(commandIn)) \in Seq(0 .. K - 1)
            /\ Len(CentreOf(Head(commandIn))) = 1
        BY <2>1, <3>1 DEF CentreOf, Command
      <4>2. Len(cntrInFifo) < CentreFifo
        BY <1>5, <3>1 DEF doGetCommand, RoomFor
      <4>3. cntrInFifo' = cntrInFifo \o CentreOf(Head(commandIn))
        BY <1>5 DEF doGetCommand
      <4>4. cntrInFifo' \in Seq(0 .. K - 1) /\ Len(cntrInFifo') = Len(cntrInFifo) + 1
        <5> DEFINE q == cntrInFifo
                   r == CentreOf(Head(commandIn))
                   S == 0 .. K - 1
        <5>1. q \in Seq(S) /\ r \in Seq(S) /\ Len(r) = 1
          BY <4>1 DEF TypeOK
        <5> HIDE DEF q, r, S
        <5>2. q \o r \in Seq(S) /\ Len(q \o r) = Len(q) + Len(r)
          BY <5>1, ConcatProperties
        <5>3. QED
          BY <4>3, <5>1, <5>2 DEF q, r, S
      <4>5. Len(cntrInFifo) \in Nat
        BY LenProperties DEF TypeOK
      <4>6. QED
        BY <4>2, <4>4, <4>5, ControllerAssumption
    <3>2. CASE Head(commandIn).command # 2
      BY <1>5, <3>2, ConcatEmptySeq DEF TypeOK, doGetCommand, CentreOf
    <3>3. QED
      BY <3>1, <3>2
  <2>5. QED
    BY <1>5, <2>1, <2>2, <2>3, <2>4 DEF TypeOK, doGetCommand, host, links, control, treeInput, core, output
<1>6. CASE start
  BY <1>6 DEF TypeOK, start, host, links, control, treeInput, core, output
<1>7. CASE processing
  BY <1>7 DEF TypeOK, processing, ipDone, host, links, control, treeInput, core, output
<1>8. CASE doTestDone
  <2>1. finish' \in Seq({0})
    BY <1>8, Taking, Putting, ControllerAssumption DEF TypeOK, doTestDone
  <2>2. QED
    BY <1>8, <2>1 DEF TypeOK, doTestDone, RingSlots, AfterTestDone, host, links, control, treeInput, core, output
<1>9. CASE mmapTreeInitReadReq
  <2>1. readRsp' \in Seq(Nat) /\ treeDataMmapCounter' \in Nat
    BY <1>9, Taking, Putting, ControllerAssumption DEF TypeOK, mmapTreeInitReadReq
  <2>2. QED
    BY <1>9, <2>1 DEF TypeOK, mmapTreeInitReadReq, host, links, control, treeInput, core, output
<1>10. CASE mmapTreeInitReadResp
  <2>1. /\ Head(readRsp) \in Nat /\ Tail(readRsp) \in Seq(Nat)
        /\ Len(Tail(readRsp)) = Len(readRsp) - 1 /\ Len(readRsp) \in Nat
    BY <1>10, Taking DEF TypeOK, mmapTreeInitReadResp
  <2>2. /\ Append(treeDataMmapFifo, Head(readRsp)) \in Seq(Nat)
        /\ Len(Append(treeDataMmapFifo, Head(readRsp))) = Len(treeDataMmapFifo) + 1 /\ Len(treeDataMmapFifo) \in Nat
    BY <2>1, Putting DEF TypeOK
  <2>3. /\ readRsp' \in Seq(Nat) /\ treeDataMmapFifo' \in Seq(Nat)
        /\ Len(treeDataMmapFifo') <= TreeFifo
    BY <1>10, <2>1, <2>2, ControllerAssumption DEF TypeOK, mmapTreeInitReadResp
  <2>4. QED
    BY <1>10, <2>3 DEF TypeOK, mmapTreeInitReadResp, host, links, control, treeInput, core, output
<1>11. CASE i_node_data
  <2>1. /\ Head(treeDataMmapFifo) \in Nat /\ Tail(treeDataMmapFifo) \in Seq(Nat)
        /\ Len(Tail(treeDataMmapFifo)) = Len(treeDataMmapFifo) - 1 /\ Len(treeDataMmapFifo) \in Nat
    BY <1>11, Taking DEF TypeOK, i_node_data
  <2>2. /\ Append(nodes, Head(treeDataMmapFifo)) \in Seq(Nat)
        /\ Len(Append(nodes, Head(treeDataMmapFifo))) = Len(nodes) + 1 /\ Len(nodes) \in Nat
    BY <2>1, Putting DEF TypeOK
  <2>3. /\ nodes' \in Seq(Nat) /\ treeDataMmapFifo' \in Seq(Nat)
        /\ Len(treeDataMmapFifo') <= TreeFifo
    BY <1>11, <2>1, <2>2, ControllerAssumption DEF TypeOK, i_node_data, Taken
  <2>4. QED
    <3>1. i \in Nat
      BY DEF TypeOK
    <3>2. /\ i' \in Nat /\ pc' \in {"load", "root"}
          /\ UNCHANGED <<host, links, control, treeDataMmapCounter, treeDataMmapRequestPending,
                         readRsp, cntrs, output>>
      BY <1>11, <3>1 DEF i_node_data, NextPhase
    <3>3. QED
      BY <2>3, <3>2 DEF TypeOK, host, links, control, output
<1>12. CASE root
  <2>1. i \in Nat
    BY DEF TypeOK
  <2>2. /\ i' \in Nat /\ pc' \in {"root", "centres"}
        /\ UNCHANGED <<host, links, control, treeInput, nodes, cntrs, output>>
    BY <1>12, <2>1 DEF root, NextPhase
  <2>3. QED
    BY <2>2 DEF TypeOK, host, links, control, treeInput, output
<1>13. CASE cntr_pos_init
  <2>1. /\ Head(cntrInFifo) \in (0 .. K - 1) /\ Tail(cntrInFifo) \in Seq(0 .. K - 1)
        /\ Len(Tail(cntrInFifo)) = Len(cntrInFifo) - 1 /\ Len(cntrInFifo) \in Nat
    BY <1>13, Taking DEF TypeOK, cntr_pos_init
  <2>2. /\ Append(cntrs, Head(cntrInFifo)) \in Seq(0 .. K - 1)
        /\ Len(Append(cntrs, Head(cntrInFifo))) = Len(cntrs) + 1 /\ Len(cntrs) \in Nat
    BY <2>1, Putting DEF TypeOK
  <2>3. /\ cntrs' \in Seq(0 .. K - 1) /\ cntrInFifo' \in Seq(0 .. K - 1)
        /\ Len(cntrInFifo') <= CentreFifo
    BY <1>13, <2>1, <2>2, ControllerAssumption DEF TypeOK, cntr_pos_init, Taken
  <2>4. QED
    <3>1. i \in Nat
      BY DEF TypeOK
    <3>2. /\ i' \in Nat /\ pc' \in {"centres", "cluster"}
          /\ UNCHANGED <<host, links, state, n, k, nodes, treeInput, output>>
      BY <1>13, <3>1 DEF cntr_pos_init, NextPhase
    <3>3. QED
      BY <2>3, <3>2 DEF TypeOK, host, links, treeInput, output
<1>14. CASE it_loop
  BY <1>14 DEF TypeOK, it_loop, host, links, control, treeInput, core, output
<1>15. CASE output_loop
  <2>1. /\ clustersOutFifo' \in Seq(Nat) /\ Len(clustersOutFifo') <= OutFifo
        /\ distortionOutFifo' \in Seq(Nat) /\ Len(distortionOutFifo') <= OutFifo
    <3>1. \A fifo \in Seq(Nat) : Len(fifo) <= OutFifo =>
            Enq(fifo, i) \in Seq(Nat) /\ Len(Enq(fifo, i)) <= OutFifo
      BY Putting, ControllerAssumption DEF TypeOK, Enq
    <3>2. QED
      BY <1>15, <3>1 DEF TypeOK, output_loop
  <2>2. QED
    BY <1>15, <2>1 DEF TypeOK, output_loop, Enq, NextPhase, host, links, control, treeInput, core, output
<1>16. CASE clusters_out_stdio
  <2>1. /\ Head(clustersOutFifo) \in Nat /\ Tail(clustersOutFifo) \in Seq(Nat)
        /\ Len(Tail(clustersOutFifo)) = Len(clustersOutFifo) - 1 /\ Len(clustersOutFifo) \in Nat
    BY <1>16, Taking DEF TypeOK, clusters_out_stdio
  <2>2. /\ Append(clustersPrinted, Head(clustersOutFifo)) \in Seq(Nat)
        /\ Len(Append(clustersPrinted, Head(clustersOutFifo))) = Len(clustersPrinted) + 1 /\ Len(clustersPrinted) \in Nat
    BY <2>1, Putting DEF TypeOK
  <2>3. /\ clustersPrinted' \in Seq(Nat) /\ clustersOutFifo' \in Seq(Nat)
        /\ Len(clustersOutFifo') <= OutFifo
    BY <1>16, <2>1, <2>2, ControllerAssumption DEF TypeOK, clusters_out_stdio
  <2>4. QED
    BY <1>16, <2>3 DEF TypeOK, clusters_out_stdio, host, links, control, treeInput, core, output
<1>17. CASE distortion_out_stdio
  <2>1. /\ Head(distortionOutFifo) \in Nat /\ Tail(distortionOutFifo) \in Seq(Nat)
        /\ Len(Tail(distortionOutFifo)) = Len(distortionOutFifo) - 1 /\ Len(distortionOutFifo) \in Nat
    BY <1>17, Taking DEF TypeOK, distortion_out_stdio
  <2>2. /\ Append(distortionsPrinted, Head(distortionOutFifo)) \in Seq(Nat)
        /\ Len(Append(distortionsPrinted, Head(distortionOutFifo))) = Len(distortionsPrinted) + 1 /\ Len(distortionsPrinted) \in Nat
    BY <2>1, Putting DEF TypeOK
  <2>3. /\ distortionsPrinted' \in Seq(Nat) /\ distortionOutFifo' \in Seq(Nat)
        /\ Len(distortionOutFifo') <= OutFifo
    BY <1>17, <2>1, <2>2, ControllerAssumption DEF TypeOK, distortion_out_stdio
  <2>4. QED
    BY <1>17, <2>3 DEF TypeOK, distortion_out_stdio, host, links, control, treeInput, core, output
<1>18. QED
  BY <1>1, <1>2, <1>3, <1>4, <1>5, <1>6, <1>7, <1>8, <1>9, <1>10, <1>11, <1>12, <1>13, <1>14, <1>15, <1>16, <1>17 DEF Next

------------------------------------------------------------------------------
LEMMA OneOfThree ==
  ASSUME NEW a \in Nat, NEW b \in Nat, NEW c \in Nat, a + b + c = 1
  PROVE  \/ a = 1 /\ b = 0 /\ c = 0
         \/ a = 0 /\ b = 1 /\ c = 0
         \/ a = 0 /\ b = 0 /\ c = 1
OBVIOUS

(* A call that is on its way is the only one, and nothing else is going    *)
(* on; the queues hold one call at most.                                   *)
LEMMA OneCall ==
  ASSUME TypeOK, OneAnswerPerCall
  PROVE  /\ Len(request) \in Nat /\ Len(commandIn) \in Nat /\ Len(finish) \in Nat
         /\ request = <<>> <=> Len(request) = 0
         /\ commandIn = <<>> <=> Len(commandIn) = 0
         /\ finish = <<>> <=> Len(finish) = 0
         /\ request # <<>> => /\ commandIn = <<>> /\ finish = <<>> /\ state = "get_command"
                              /\ waiting /\ Len(request) = 1
         /\ commandIn # <<>> => /\ request = <<>> /\ finish = <<>> /\ state = "get_command"
                                /\ waiting /\ Len(commandIn) = 1
         /\ finish # <<>> => /\ request = <<>> /\ commandIn = <<>> /\ state = "get_command"
                             /\ waiting /\ Len(finish) = 1
         /\ state # "get_command" =>
              request = <<>> /\ commandIn = <<>> /\ finish = <<>> /\ waiting
         /\ ~waiting =>
              request = <<>> /\ commandIn = <<>> /\ finish = <<>> /\ state = "get_command"
<1>1. /\ Len(request) \in Nat /\ Len(commandIn) \in Nat /\ Len(finish) \in Nat
      /\ request = <<>> <=> Len(request) = 0
      /\ commandIn = <<>> <=> Len(commandIn) = 0
      /\ finish = <<>> <=> Len(finish) = 0
  BY EmptySeq, LenProperties DEF TypeOK
<1>2. CASE waiting /\ state = "get_command"
  <2>1. Len(request) + Len(commandIn) + Len(finish) = 1
    BY <1>1, <1>2 DEF OneAnswerPerCall
  <2>2. \/ Len(request) = 1 /\ Len(commandIn) = 0 /\ Len(finish) = 0
        \/ Len(request) = 0 /\ Len(commandIn) = 1 /\ Len(finish) = 0
        \/ Len(request) = 0 /\ Len(commandIn) = 0 /\ Len(finish) = 1
    BY <1>1, <2>1, OneOfThree
  <2>3. QED
    BY <1>1, <1>2, <2>2
<1>3. CASE waiting /\ state # "get_command"
  <2>1. Len(request) + Len(commandIn) + Len(finish) = 0
    BY <1>1, <1>3 DEF OneAnswerPerCall
  <2>2. QED
    BY <1>1, <1>3, <2>1
<1>4. CASE ~waiting
  <2>1. Len(request) = 0 /\ Len(commandIn) = 0 /\ Len(finish) = 0 /\ state = "get_command"
    BY <1>1, <1>4 DEF OneAnswerPerCall
  <2>2. QED
    BY <1>1, <1>4, <2>1
<1>5. QED
  BY <1>2, <1>3, <1>4

(* Each step leaves one answer for each call.                              *)
LEMMA CallStep ==
  ASSUME TypeOK, TypeOK', OneAnswerPerCall, CallInv, Next
  PROVE  OneAnswerPerCall' /\ CallInv'
<1> USE OneCall, ControllerAssumption
<1>1. CASE RunTest
  <2>1. /\ request = <<>> /\ commandIn = <<>> /\ finish = <<>> /\ state = "get_command"
        /\ Len(request) = 0 /\ Len(commandIn) = 0 /\ Len(finish) = 0
    BY <1>1 DEF RunTest
  <2>2. /\ request' = <<HostCall(calls)>> /\ Len(request') = 1
        /\ calls' = calls + 1 /\ calls' - 1 = calls /\ waiting' = TRUE
        /\ commandIn' = commandIn /\ finish' = finish /\ state' = state
        /\ n' = n /\ k' = k
    BY <1>1 DEF TypeOK, RunTest, control
  <2>3. OneAnswerPerCall'
    BY <2>1, <2>2 DEF OneAnswerPerCall
  <2>4. Received' = Received
    BY <2>1, <2>2 DEF TypeOK, Received
  <2>5. QED
    BY <2>1, <2>2, <2>3, <2>4 DEF TypeOK, CallInv
<1>2. CASE injectOperation
  BY <1>2 DEF TypeOK, OneAnswerPerCall, CallInv, Received, injectOperation, control, host
<1>3. CASE drainOperation
  BY <1>3 DEF TypeOK, OneAnswerPerCall, CallInv, Received, drainOperation, control, host
<1>4. CASE collectResponses
  BY <1>4 DEF TypeOK, OneAnswerPerCall, CallInv, Received, collectResponses, control, host
<1>5. CASE doGetCommand
  <2>1. /\ request = <<>> /\ finish = <<>> /\ state = "get_command" /\ waiting
        /\ Len(request) = 0 /\ Len(commandIn) = 1 /\ Len(finish) = 0
        /\ commandIn = <<HostCall(calls - 1)>>
    BY <1>5 DEF doGetCommand, CallInv
  <2>2. /\ state' = StateFor(HostCall(calls - 1).command)
        /\ n' = HostCall(calls - 1).n /\ k' = HostCall(calls - 1).k
        /\ commandIn' = <<>> /\ Len(commandIn') = 0
        /\ request' = request /\ finish' = finish
        /\ calls' = calls /\ waiting' = waiting
    BY <1>5, <2>1 DEF doGetCommand, host
  <2>3. n' = LastWord /\ k' = K - 1
    BY <2>2 DEF HostCall
  <2>4. state' = IF calls - 1 < K THEN "test_done" ELSE "start"
    BY <2>2 DEF HostCall, StateFor
  <2>5. OneAnswerPerCall'
    BY <2>1, <2>2, <2>4 DEF OneAnswerPerCall
  <2>6. state' \in {"start", "processing"} => calls' = K + 1
    <3>1. calls \in 0 .. K + 1 /\ K \in Nat
      BY DEF TypeOK
    <3>2. QED
      BY <2>2, <2>4, <3>1
  <2>7. QED
    BY <2>1, <2>2, <2>3, <2>5, <2>6 DEF CallInv
<1>6. CASE start
  <2>1. /\ state = "start" /\ state' # "get_command" /\ state' \in {"processing", "test_done"}
        /\ UNCHANGED <<calls, waiting, request, commandIn, finish, n, k>>
    BY <1>6 DEF start, host, links
  <2>2. QED
    BY <2>1 DEF OneAnswerPerCall, CallInv, Received
<1>7. CASE processing
  <2>1. /\ state = "processing" /\ state' # "get_command" /\ state' \in {"processing", "test_done"}
        /\ UNCHANGED <<calls, waiting, request, commandIn, finish, n, k>>
    BY <1>7 DEF processing, host, links
  <2>2. QED
    BY <2>1 DEF OneAnswerPerCall, CallInv, Received
<1>8. CASE doTestDone
  BY <1>8 DEF TypeOK, OneAnswerPerCall, CallInv, Received, doTestDone, AfterTestDone, RingSlots, control, host
<1>9. CASE mmapTreeInitReadReq
  BY <1>9 DEF OneAnswerPerCall, CallInv, Received, mmapTreeInitReadReq, host, links, control
<1>10. CASE mmapTreeInitReadResp
  BY <1>10 DEF OneAnswerPerCall, CallInv, Received, mmapTreeInitReadResp, host, links, control
<1>11. CASE i_node_data
  BY <1>11 DEF OneAnswerPerCall, CallInv, Received, i_node_data, host, links, control
<1>12. CASE root
  BY <1>12 DEF OneAnswerPerCall, CallInv, Received, root, host, links, control
<1>13. CASE cntr_pos_init
  BY <1>13 DEF OneAnswerPerCall, CallInv, Received, cntr_pos_init, host, links, control
<1>14. CASE it_loop
  BY <1>14 DEF OneAnswerPerCall, CallInv, Received, it_loop, host, links, control
<1>15. CASE output_loop
  BY <1>15 DEF OneAnswerPerCall, CallInv, Received, output_loop, host, links, control
<1>16. CASE clusters_out_stdio
  BY <1>16 DEF OneAnswerPerCall, CallInv, Received, clusters_out_stdio, host, links, control
<1>17. CASE distortion_out_stdio
  BY <1>17 DEF OneAnswerPerCall, CallInv, Received, distortion_out_stdio, host, links, control
<1>18. QED
  BY <1>1, <1>2, <1>3, <1>4, <1>5, <1>6, <1>7, <1>8, <1>9, <1>10, <1>11, <1>12, <1>13, <1>14, <1>15, <1>16, <1>17 DEF Next

------------------------------------------------------------------------------
(* Each step leaves the core's inputs, read, waiting or on their way, in   *)
(* order.                                                                  *)
LEMMA InputsStep ==
  ASSUME TypeOK, TypeOK', OneAnswerPerCall, CallInv, InputsReachCore, Next
  PROVE  InputsReachCore'
<1>1. CASE RunTest
  <2>1. /\ Len(request) = 0 /\ request' = <<HostCall(calls)>> /\ Len(request') = 1
        /\ calls' = calls + 1 /\ commandIn' = commandIn
    BY <1>1, OneCall DEF RunTest
  <2>2. calls \in Nat /\ Len(commandIn) \in Nat
    BY OneCall, ControllerAssumption DEF TypeOK
  <2>3. Received' = Received
    BY <2>1, <2>2 DEF Received
  <2>4. QED
    BY <1>1, <2>3 DEF RunTest, InputsReachCore, control, treeInput, core
<1>2. CASE injectOperation
  <2>1. Received' = Received
    BY <1>2, OneCall DEF TypeOK, injectOperation, Received, host
  <2>2. QED
    BY <1>2, <2>1 DEF injectOperation, InputsReachCore, control, treeInput, core
<1>3. CASE doGetCommand
  <2> DEFINE c == calls - 1
  <2>1. /\ request = <<>> /\ commandIn = <<HostCall(c)>>
        /\ Len(request) = 0 /\ Len(commandIn) = 1
        /\ request' = <<>> /\ commandIn' = <<>> /\ Len(request') = 0 /\ Len(commandIn') = 0
        /\ calls' = calls /\ calls >= 1
    BY <1>3, OneCall DEF doGetCommand, CallInv, host
  <2>2. K \in Nat /\ K >= 1 /\ calls \in 0 .. K + 1
    BY ControllerAssumption DEF TypeOK
  <2>3. c \in 0 .. K /\ Received = c /\ Received' = c + 1
    BY <2>1, <2>2 DEF Received
  <2>4. cntrInFifo' = cntrInFifo \o CentreOf(HostCall(c)) /\ cntrs' = cntrs
    BY <1>3, <2>1 DEF doGetCommand, core
  <2>5. cntrs \o cntrInFifo = UpTo(AtMost(c, K))
    BY <2>3 DEF InputsReachCore
  <2>6. CASE c < K
    <3>1. /\ AtMost(c, K) = c /\ AtMost(c + 1, K) = c + 1
          /\ CentreOf(HostCall(c)) = <<c>> /\ c \in Nat /\ c \in 0 .. K - 1
      BY <2>2, <2>3, <2>6 DEF AtMost, CentreOf, HostCall
    <3>2. cntrs \in Seq(0 .. K - 1) /\ cntrInFifo \in Seq(0 .. K - 1)
      BY DEF TypeOK
    <3>3. cntrInFifo' = Append(cntrInFifo, c)
      <4>1. cntrInFifo \o <<c>> = Append(cntrInFifo \o <<>>, c)
        BY <3>1, <3>2, PutLast, EmptySeq
      <4>2. QED
        BY <2>4, <3>1, <3>2, <4>1, ConcatEmptySeq
    <3>4. cntrs \o Append(cntrInFifo, c) = Append(cntrs \o cntrInFifo, c)
      BY <3>1, <3>2, PutLast
    <3>5. cntrs' \o cntrInFifo' = UpTo(AtMost(Received', K))
      BY <2>3, <2>4, <2>5, <3>1, <3>3, <3>4, UpToGrows
    <3>6. QED
      BY <1>3, <3>5 DEF doGetCommand, InputsReachCore, treeInput, core
  <2>7. CASE c = K
    <3>1. /\ AtMost(c, K) = K /\ AtMost(c + 1, K) = K
          /\ CentreOf(HostCall(c)) = <<>>
      BY <2>2, <2>3, <2>7 DEF AtMost, CentreOf, HostCall
    <3>2. cntrInFifo' = cntrInFifo
      BY <2>4, <3>1, ConcatEmptySeq DEF TypeOK
    <3>3. cntrs' \o cntrInFifo' = UpTo(AtMost(Received', K))
      BY <2>3, <2>4, <2>5, <3>1, <3>2
    <3>4. QED
      BY <1>3, <3>3 DEF doGetCommand, InputsReachCore, treeInput, core
  <2>8. QED
    BY <2>2, <2>3, <2>6, <2>7
<1>4. CASE mmapTreeInitReadReq
  <2> DEFINE c == treeDataMmapCounter
  <2>1. (nodes \o treeDataMmapFifo) \o Append(readRsp, c)
          = Append((nodes \o treeDataMmapFifo) \o readRsp, c)
    <3>1. nodes \o treeDataMmapFifo \in Seq(Nat) /\ readRsp \in Seq(Nat) /\ c \in Nat
      BY ConcatProperties DEF TypeOK
    <3>2. QED
      BY <3>1, PutLast
  <2>2. Append(UpTo(c), c) = UpTo(c + 1)
    BY UpToGrows DEF TypeOK
  <2>3. /\ readRsp' = Append(readRsp, c) /\ treeDataMmapCounter' = c + 1
        /\ UNCHANGED <<nodes, treeDataMmapFifo, cntrs, cntrInFifo, calls, request, commandIn>>
    BY <1>4 DEF mmapTreeInitReadReq, host, links, control, core
  <2>4. QED
    BY <2>1, <2>2, <2>3 DEF InputsReachCore, Received
<1>5. CASE mmapTreeInitReadResp
  <2>1. Append(treeDataMmapFifo, Head(readRsp)) \o Tail(readRsp) = treeDataMmapFifo \o readRsp
    BY <1>5, HandOver DEF TypeOK, mmapTreeInitReadResp
  <2>2. /\ treeDataMmapFifo' = Append(treeDataMmapFifo, Head(readRsp)) /\ readRsp' = Tail(readRsp)
        /\ UNCHANGED <<nodes, treeDataMmapCounter, cntrs, cntrInFifo, calls, request, commandIn>>
    BY <1>5 DEF mmapTreeInitReadResp, host, links, control, core
  <2>3. /\ (nodes \o treeDataMmapFifo) \o readRsp = nodes \o (treeDataMmapFifo \o readRsp)
        /\ (nodes' \o treeDataMmapFifo') \o readRsp' = nodes' \o (treeDataMmapFifo' \o readRsp')
    <3>1. nodes \in Seq(Nat) /\ treeDataMmapFifo \in Seq(Nat) /\ readRsp \in Seq(Nat)
      BY DEF TypeOK
    <3>2. nodes' \in Seq(Nat) /\ treeDataMmapFifo' \in Seq(Nat) /\ readRsp' \in Seq(Nat)
      BY DEF TypeOK
    <3>3. (nodes \o treeDataMmapFifo) \o readRsp = nodes \o (treeDataMmapFifo \o readRsp)
      BY <3>1, JoinAssociative, Zenon
    <3>4. (nodes' \o treeDataMmapFifo') \o readRsp' = nodes' \o (treeDataMmapFifo' \o readRsp')
      BY <3>2, JoinAssociative, Zenon
    <3>5. QED
      BY <3>3, <3>4
  <2>4. QED
    BY <2>1, <2>2, <2>3 DEF InputsReachCore, Received
<1>6. CASE i_node_data
  <2>1. Append(nodes, Head(treeDataMmapFifo)) \o Tail(treeDataMmapFifo) = nodes \o treeDataMmapFifo
    BY <1>6, HandOver DEF TypeOK, i_node_data
  <2>2. /\ nodes' = Append(nodes, Head(treeDataMmapFifo))
        /\ treeDataMmapFifo' = Tail(treeDataMmapFifo)
        /\ UNCHANGED <<readRsp, treeDataMmapCounter, cntrs, cntrInFifo, calls, request, commandIn>>
    BY <1>6 DEF i_node_data, Taken, host, links, control
  <2>3. QED
    BY <2>1, <2>2 DEF InputsReachCore, Received
<1>7. CASE cntr_pos_init
  <2>1. Append(cntrs, Head(cntrInFifo)) \o Tail(cntrInFifo) = cntrs \o cntrInFifo
    BY <1>7, HandOver DEF TypeOK, cntr_pos_init
  <2>2. /\ cntrs' = Append(cntrs, Head(cntrInFifo)) /\ cntrInFifo' = Tail(cntrInFifo)
        /\ UNCHANGED <<nodes, treeDataMmapFifo, readRsp, treeDataMmapCounter,
                       calls, request, commandIn>>
    BY <1>7 DEF cntr_pos_init, Taken, host, links, treeInput
  <2>3. QED
    BY <2>1, <2>2 DEF InputsReachCore, Received
<1>8. CASE drainOperation
  BY <1>8 DEF drainOperation, InputsReachCore, Received, host, control, treeInput, core
<1>9. CASE collectResponses
  BY <1>9 DEF collectResponses, InputsReachCore, Received, control, treeInput, core
<1>10. CASE start \/ processing \/ doTestDone \/ root \/ it_loop \/ output_loop
               \/ clusters_out_stdio \/ distortion_out_stdio
  <2>1. UNCHANGED <<nodes, treeDataMmapFifo, readRsp, treeDataMmapCounter, cntrs, cntrInFifo,
                    calls, request, commandIn>>
    BY <1>10 DEF start, processing, doTestDone, root, it_loop, output_loop,
         clusters_out_stdio, distortion_out_stdio, host, links, control, treeInput, core
  <2>2. QED
    BY <2>1 DEF InputsReachCore, Received
<1>11. QED
  BY <1>1, <1>2, <1>3, <1>4, <1>5, <1>6, <1>7, <1>8, <1>9, <1>10 DEF Next

------------------------------------------------------------------------------
(* While the core runs the last call has been served, with its arguments.  *)
LEMMA CoreRuns ==
  ASSUME TypeOK, OneAnswerPerCall, CallInv, PhaseInv, state \in {"start", "processing"}
  PROVE  Received = K + 1 /\ n = LastWord /\ k = K - 1
<1>1. calls = K + 1 /\ Len(request) = 0 /\ Len(commandIn) = 0 /\ K \in Nat
  BY OneCall, ControllerAssumption DEF CallInv
<1>2. Received = K + 1
  BY <1>1 DEF Received
<1>3. QED
  BY <1>1, <1>2 DEF CallInv

(* Steps that leave the core, the outputs and what is behind them alone.   *)
LEMMA CoreAlone ==
  ASSUME PhaseInv, UNCHANGED <<core, output, n, k, state, treeInput>>, Received' = Received
  PROVE  PhaseInv'
BY DEF PhaseInv, NotStarted, NothingFetched, ImageRead, CentresRead, Sent, core, output, treeInput

(* What an output loop has sent is what has been printed and what waits.   *)
LEMMA SentLength ==
  ASSUME TypeOK, NEW m \in Nat, Sent(m)
  PROVE  Len(clustersOutFifo) <= m /\ Len(distortionOutFifo) <= m
<1>1. /\ Len(clustersPrinted) + Len(clustersOutFifo) = m
      /\ Len(distortionsPrinted) + Len(distortionOutFifo) = m
  <2>1. /\ Len(clustersPrinted \o clustersOutFifo) = m
        /\ Len(distortionsPrinted \o distortionOutFifo) = m
    BY UpToGrows DEF Sent
  <2>2. /\ clustersPrinted \in Seq(Nat) /\ clustersOutFifo \in Seq(Nat)
        /\ distortionsPrinted \in Seq(Nat) /\ distortionOutFifo \in Seq(Nat)
    BY DEF TypeOK
  <2>3. QED
    BY <2>1, <2>2, ConcatProperties
<1>2. /\ Len(clustersPrinted) \in Nat /\ Len(clustersOutFifo) \in Nat
      /\ Len(distortionsPrinted) \in Nat /\ Len(distortionOutFifo) \in Nat
  BY LenProperties DEF TypeOK
<1>3. QED
  BY <1>1, <1>2

(* A pass of output_loop finds room in both FIFOs.                         *)
LEMMA OutputSent ==
  ASSUME TypeOK, i <= K - 1, Sent(i), output_loop,
         NEW m, m = i + 1
  PROVE  Sent(m)'
<1>1. i \in Nat /\ K \in Nat /\ OutFifo \in Nat /\ OutFifo >= K
  BY ControllerAssumption DEF TypeOK
<1>2. Len(clustersOutFifo) < OutFifo /\ Len(distortionOutFifo) < OutFifo
  <2>1. Len(clustersOutFifo) <= i /\ Len(distortionOutFifo) <= i
    BY <1>1, SentLength
  <2>2. Len(clustersOutFifo) \in Nat /\ Len(distortionOutFifo) \in Nat
    BY LenProperties DEF TypeOK
  <2>3. QED
    BY <1>1, <2>1, <2>2
<1>3. /\ clustersOutFifo' = Append(clustersOutFifo, i)
      /\ distortionOutFifo' = Append(distortionOutFifo, i)
      /\ UNCHANGED <<clustersPrinted, distortionsPrinted>>
  BY <1>2 DEF output_loop, Enq
<1>4. ASSUME NEW s \in Seq(Nat), NEW t \in Seq(Nat), s \o t = UpTo(i)
      PROVE  s \o Append(t, i) = UpTo(i + 1)
  <2>1. s \o Append(t, i) = Append(s \o t, i)
    BY <1>1, PutLast
  <2>2. QED
    BY <1>1, <1>4, <2>1, UpToGrows
<1>5. /\ clustersPrinted \in Seq(Nat) /\ clustersOutFifo \in Seq(Nat)
      /\ distortionsPrinted \in Seq(Nat) /\ distortionOutFifo \in Seq(Nat)
  BY DEF TypeOK
<1>6. clustersPrinted \o Append(clustersOutFifo, i) = UpTo(i + 1)
  BY <1>4, <1>5 DEF Sent
<1>7. distortionsPrinted \o Append(distortionOutFifo, i) = UpTo(i + 1)
  BY <1>4, <1>5 DEF Sent
<1>8. QED
  BY <1>3, <1>6, <1>7 DEF Sent

(* Printing takes from one FIFO and leaves what has been sent.             *)
LEMMA SentStays ==
  ASSUME TypeOK, clusters_out_stdio \/ distortion_out_stdio, NEW m, Sent(m)
  PROVE  Sent(m)'
<1>1. CASE clusters_out_stdio
  <2>1. Append(clustersPrinted, Head(clustersOutFifo)) \o Tail(clustersOutFifo)
          = clustersPrinted \o clustersOutFifo
    BY <1>1, HandOver DEF TypeOK, clusters_out_stdio
  <2>2. QED
    BY <1>1, <2>1 DEF clusters_out_stdio, Sent
<1>2. CASE distortion_out_stdio
  <2>1. Append(distortionsPrinted, Head(distortionOutFifo)) \o Tail(distortionOutFifo)
          = distortionsPrinted \o distortionOutFifo
    BY <1>2, HandOver DEF TypeOK, distortion_out_stdio
  <2>2. QED
    BY <1>2, <2>1 DEF distortion_out_stdio, Sent
<1>3. QED
  BY <1>1, <1>2

(* Each step takes the core from a phase to itself or the next, with the   *)
(* inputs read and the outputs sent that the phase stands for.             *)
LEMMA PhaseStep ==
  ASSUME TypeOK, TypeOK', OneAnswerPerCall, OneAnswerPerCall', CallInv, CallInv', PhaseInv, Next
  PROVE  PhaseInv'
<1> USE ControllerAssumption
<1>0. /\ K \in Nat /\ K >= 1 /\ P \in Nat /\ P >= 1 /\ LastWord \in Nat
      /\ i \in Nat /\ n \in Nat /\ k \in Nat
  BY HostCalls DEF TypeOK
<1>1. CASE RunTest
  <2>1. /\ Len(request) = 0 /\ request' = <<HostCall(calls)>> /\ Len(request') = 1
        /\ calls' = calls + 1 /\ commandIn' = commandIn
    BY <1>1, OneCall DEF RunTest
  <2>2. calls \in Nat /\ Len(commandIn) \in Nat
    BY OneCall DEF TypeOK
  <2>3. Received' = Received
    BY <2>1, <2>2 DEF Received
  <2>4. QED
    BY <1>1, <2>3, CoreAlone DEF RunTest, control
<1>2. CASE injectOperation
  <2>0. /\ Len(request) = 1 /\ Len(commandIn) = 0 /\ calls' = calls
        /\ Len(request') = 0 /\ Len(commandIn') = 1
    BY <1>2, OneCall DEF injectOperation, host
  <2>1. Received' = Received
    BY <2>0 DEF TypeOK, Received
  <2>2. QED
    BY <1>2, <2>1, CoreAlone DEF injectOperation, control
<1>3. CASE drainOperation
  BY <1>3, CoreAlone DEF drainOperation, Received, host, control
<1>4. CASE collectResponses
  BY <1>4, CoreAlone DEF collectResponses, Received, control
<1>5. CASE doGetCommand
  <2>1. /\ Len(request) = 0 /\ Len(commandIn) = 1 /\ state = "get_command"
        /\ commandIn = <<HostCall(calls - 1)>>
    BY <1>5, OneCall DEF doGetCommand, CallInv
  <2>2. /\ Len(request') = 0 /\ Len(commandIn') = 0 /\ calls' = calls
        /\ state' = StateFor(HostCall(calls - 1).command)
    BY <1>5, <2>1 DEF doGetCommand, host
  <2>3. calls \in 0 .. K + 1
    BY DEF TypeOK
  <2>4. Received = calls - 1 /\ Received' = calls
    BY <2>1, <2>2, <2>3 DEF Received
  <2>5. NotStarted
    BY <1>0, <2>3, <2>4 DEF NotStarted
  <2>6. state' = IF calls - 1 < K THEN "test_done" ELSE "start"
    BY <2>2 DEF HostCall, StateFor
  <2>7. NotStarted' /\ state' # "processing"
    BY <1>0, <2>3, <2>4, <2>6 DEF NotStarted
  <2>8. pc = "idle" /\ UNCHANGED <<core, output, treeInput>>
    BY <1>5, <2>1 DEF PhaseInv, doGetCommand
  <2>9. QED
    BY <2>5, <2>7, <2>8 DEF PhaseInv, NothingFetched, Sent, core, output, treeInput
<1>6. CASE start
  <2>1. NotStarted /\ NothingFetched /\ cntrs = <<>> /\ Sent(0)
    BY <1>6 DEF start, PhaseInv, NotStarted
  <2>2. Received' = Received /\ Received = K + 1
    BY <1>6, CoreRuns DEF start, Received, host, links
  <2>3. ~NotStarted'
    BY <1>0, <1>6, <2>2 DEF start, NotStarted
  <2>4. /\ state' = "processing" /\ pc' = "load" /\ i' = 0
        /\ UNCHANGED <<n, k, nodes, cntrs, output>>
    BY <1>6 DEF start
  <2>5. Len(nodes') = 0 /\ cntrs' = <<>> /\ Sent(0)'
    BY <2>1, <2>4 DEF NothingFetched, Sent, output
  <2>6. QED
    BY <1>0, <2>3, <2>4, <2>5 DEF PhaseInv
<1>7. CASE processing
  <2>1. /\ pc = "done" /\ state' = "test_done" /\ pc' = "idle"
        /\ UNCHANGED <<calls, request, commandIn, nodes, cntrs, output>>
    BY <1>7 DEF processing, ipDone, host, links
  <2>2. ~NotStarted'
    BY <1>0, <1>7, <2>1, CoreRuns DEF processing, NotStarted, Received
  <2>3. ImageRead' /\ CentresRead' /\ \A m : Sent(m) => Sent(m)'
    BY <2>1 DEF PhaseInv, ImageRead, CentresRead, Sent, output
  <2>4. QED
    BY <2>1, <2>2, <2>3 DEF PhaseInv
<1>8. CASE doTestDone
  <2>1. /\ state = "test_done" /\ state' = "get_command"
        /\ UNCHANGED <<calls, request, commandIn, n, k, treeInput, core, output>>
    BY <1>8 DEF doTestDone, AfterTestDone, host
  <2>2. NotStarted' <=> NotStarted
    BY <2>1 DEF NotStarted, Received
  <2>3. QED
    BY <2>1, <2>2 DEF PhaseInv, NothingFetched, ImageRead, CentresRead, Sent, core, output, treeInput
<1>9. CASE mmapTreeInitReadReq \/ mmapTreeInitReadResp
  <2>1. /\ state = "processing" /\ Received' = Received
        /\ UNCHANGED <<state, n, k, core, output>>
    BY <1>9 DEF mmapTreeInitReadReq, mmapTreeInitReadResp, Received, host, links, control
  <2>2. ~NotStarted /\ ~NotStarted'
    BY <1>0, <2>1, CoreRuns DEF NotStarted
  <2>3. QED
    BY <2>1, <2>2 DEF PhaseInv, ImageRead, CentresRead, Sent, core, output
<1>10. CASE i_node_data
  <2>1. /\ pc = "load" /\ state = "processing" /\ NextPhase(n, "root")
        /\ nodes' = Append(nodes, Head(treeDataMmapFifo)) /\ treeDataMmapFifo # <<>>
        /\ UNCHANGED <<calls, request, commandIn, state, n, k, cntrs, output>>
    BY <1>10 DEF i_node_data, host, links, control
  <2>2. /\ n = LastWord /\ ~NotStarted /\ ~NotStarted'
    BY <1>0, <2>1, CoreRuns DEF NotStarted, Received
  <2>3. i = Len(nodes) /\ i <= n /\ cntrs = <<>> /\ Sent(0)
    BY <2>1 DEF PhaseInv
  <2>4. Len(nodes') = Len(nodes) + 1
    BY <2>1, Taking, Putting DEF TypeOK
  <2>5. cntrs' = <<>> /\ Sent(0)'
    BY <2>1, <2>3 DEF Sent, output
  <2>6. CASE i = n
    BY <1>0, <2>1, <2>2, <2>3, <2>4, <2>5, <2>6 DEF PhaseInv, NextPhase, ImageRead
  <2>7. CASE i # n
    BY <1>0, <2>1, <2>2, <2>3, <2>4, <2>5, <2>7 DEF PhaseInv, NextPhase
  <2>8. QED
    BY <2>6, <2>7
<1>11. CASE root
  <2>1. /\ pc = "root" /\ state = "processing" /\ NextPhase(P - 1, "centres")
        /\ UNCHANGED <<calls, request, commandIn, state, n, k, nodes, cntrs, output>>
    BY <1>11 DEF root, host, links, control
  <2>2. ~NotStarted' /\ k = K - 1
    BY <1>0, <2>1, CoreRuns DEF NotStarted, Received
  <2>3. ImageRead /\ i <= P - 1 /\ cntrs = <<>> /\ Sent(0)
    BY <2>1 DEF PhaseInv
  <2>4. ImageRead' /\ cntrs' = <<>> /\ Len(cntrs') = 0 /\ Sent(0)'
    BY <2>1, <2>3 DEF ImageRead, Sent, output
  <2>5. CASE i = P - 1
    BY <1>0, <2>1, <2>2, <2>3, <2>4, <2>5 DEF PhaseInv, NextPhase
  <2>6. CASE i # P - 1
    BY <1>0, <2>1, <2>2, <2>3, <2>4, <2>6 DEF PhaseInv, NextPhase
  <2>7. QED
    BY <2>5, <2>6
<1>12. CASE cntr_pos_init
  <2>1. /\ pc = "centres" /\ state = "processing" /\ NextPhase(k, "cluster")
        /\ cntrs' = Append(cntrs, Head(cntrInFifo)) /\ cntrInFifo # <<>>
        /\ UNCHANGED <<calls, request, commandIn, state, n, k, nodes, output>>
    BY <1>12 DEF cntr_pos_init, PhaseInv, host, links
  <2>2. ~NotStarted' /\ k = K - 1
    BY <1>0, <2>1, CoreRuns DEF NotStarted, Received
  <2>3. ImageRead /\ i = Len(cntrs) /\ i <= k /\ Sent(0)
    BY <2>1 DEF PhaseInv
  <2>4. Len(cntrs') = Len(cntrs) + 1
    BY <2>1, Taking, Putting DEF TypeOK
  <2>5. ImageRead' /\ Sent(0)'
    BY <2>1, <2>3 DEF ImageRead, Sent, output
  <2>6. CASE i = k
    BY <1>0, <2>1, <2>2, <2>3, <2>4, <2>5, <2>6 DEF PhaseInv, NextPhase, CentresRead
  <2>7. CASE i # k
    BY <1>0, <2>1, <2>2, <2>3, <2>4, <2>5, <2>7 DEF PhaseInv, NextPhase
  <2>8. QED
    BY <2>6, <2>7
<1>13. CASE it_loop
  <2>1. /\ pc = "cluster" /\ pc' = "output" /\ state = "processing"
        /\ UNCHANGED <<calls, request, commandIn, state, n, k, i, nodes, cntrs, output>>
    BY <1>13 DEF it_loop, PhaseInv, host, links, control
  <2>2. ~NotStarted'
    BY <1>0, <2>1, CoreRuns DEF NotStarted, Received
  <2>3. ImageRead /\ CentresRead /\ i = 0 /\ Sent(i)
    BY <2>1 DEF PhaseInv
  <2>4. ImageRead' /\ CentresRead' /\ i' = 0 /\ Sent(i)'
    BY <2>1, <2>3 DEF ImageRead, CentresRead, Sent, output
  <2>5. QED
    BY <1>0, <2>1, <2>2, <2>4 DEF PhaseInv
<1>14. CASE output_loop
  <2>1. /\ pc = "output" /\ state = "processing" /\ NextPhase(k, "done")
        /\ UNCHANGED <<calls, request, commandIn, state, n, k, nodes, cntrs>>
    BY <1>14 DEF output_loop, host, links, control
  <2>2. ~NotStarted' /\ k = K - 1
    BY <1>0, <2>1, CoreRuns DEF NotStarted, Received
  <2>3. ImageRead /\ CentresRead /\ i <= k /\ Sent(i)
    BY <2>1 DEF PhaseInv
  <2>4. \A m : m = i + 1 => Sent(m)'
    BY <1>14, <2>2, <2>3, OutputSent
  <2>5. ImageRead' /\ CentresRead'
    BY <2>1, <2>3 DEF ImageRead, CentresRead
  <2>6. CASE i = k
    <3>1. pc' = "done" /\ i' = 0 /\ Sent(K)'
      BY <1>0, <2>1, <2>2, <2>4, <2>6 DEF NextPhase
    <3>2. QED
      BY <2>1, <2>2, <2>5, <3>1 DEF PhaseInv
  <2>7. CASE i # k
    <3>1. pc' = "output" /\ i' = i + 1 /\ i' <= k' /\ Sent(i)'
      BY <1>0, <2>1, <2>3, <2>4, <2>7 DEF NextPhase
    <3>2. QED
      BY <2>1, <2>2, <2>5, <3>1 DEF PhaseInv
  <2>8. QED
    BY <2>6, <2>7
<1>15. CASE clusters_out_stdio \/ distortion_out_stdio
  <2>1. /\ Received' = Received
        /\ UNCHANGED <<state, n, k, treeInput, core>>
    BY <1>15 DEF clusters_out_stdio, distortion_out_stdio, Received, host, links, control
  <2>2. \A m : Sent(m) => Sent(m)'
    BY <1>15, SentStays
  <2>3. QED
    BY <2>1, <2>2 DEF PhaseInv, NotStarted, NothingFetched, ImageRead, CentresRead, core, treeInput
<1>16. QED
  BY <1>1, <1>2, <1>3, <1>4, <1>5, <1>6, <1>7, <1>8, <1>9, <1>10, <1>11, <1>12, <1>13,
     <1>14, <1>15 DEF Next

------------------------------------------------------------------------------
LEMMA InitInvariant == Init => IInv
<1> SUFFICES ASSUME Init PROVE IInv
  OBVIOUS
<1> USE ControllerAssumption DEF Init
<1>0. (\A S : <<>> \in Seq(S)) /\ Len(<<>>) = 0
  OBVIOUS
<1>1. TypeOK
  <2>1. calls \in 0 .. K + 1 /\ n \in Nat /\ k \in Nat /\ i \in Nat /\ treeDataMmapCounter \in Nat
    OBVIOUS
  <2>2. /\ request \in Seq(Command) /\ commandIn \in Seq(Command)
        /\ commandOut \in Seq(Command) /\ finish \in Seq({0})
        /\ cntrInFifo \in Seq(0 .. K - 1) /\ cntrs \in Seq(0 .. K - 1)
        /\ nodes \in Seq(Nat) /\ treeDataMmapFifo \in Seq(Nat) /\ readRsp \in Seq(Nat)
        /\ clustersOutFifo \in Seq(Nat) /\ distortionOutFifo \in Seq(Nat)
        /\ clustersPrinted \in Seq(Nat) /\ distortionsPrinted \in Seq(Nat)
    BY <1>0, Zenon
  <2>3. /\ Len(cntrInFifo) = 0 /\ Len(treeDataMmapFifo) = 0
        /\ Len(clustersOutFifo) = 0 /\ Len(distortionOutFifo) = 0
    BY <1>0
  <2>4. 0 <= CentreFifo /\ 0 <= TreeFifo /\ 0 <= OutFifo
    OBVIOUS
  <2>5. QED
    BY <2>1, <2>2, <2>3, <2>4 DEF TypeOK
<1>2. OneAnswerPerCall
  BY EmptySeq DEF OneAnswerPerCall
<1>3. /\ Received = 0
      /\ nodes \o treeDataMmapFifo \o readRsp = UpTo(0) /\ cntrs \o cntrInFifo = UpTo(0)
      /\ clustersPrinted \o clustersOutFifo = UpTo(0)
      /\ distortionsPrinted \o distortionOutFifo = UpTo(0)
  <2>1. UpTo(0) = <<>>
    BY UpToGrows
  <2>2. <<>> \o <<>> = <<>>
    BY <1>0, ConcatEmptySeq
  <2>3. Received = 0
    <3> HIDE DEF Init
    <3>1. calls = 0 /\ request = <<>> /\ commandIn = <<>>
      BY DEF Init
    <3>2. Len(request) = 0 /\ Len(commandIn) = 0
      BY <1>0, <3>1
    <3>3. calls - Len(request) - Len(commandIn) = 0 - 0 - 0
      BY <3>1, <3>2
    <3>4. QED
      BY <3>3 DEF Received
  <2>4. QED
    BY <2>1, <2>2, <2>3
<1>4. InputsReachCore
  BY <1>3 DEF InputsReachCore, AtMost
<1>5. CallInv
  BY <1>3 DEF CallInv
<1>6. Sent(0) /\ NotStarted
  BY <1>3 DEF Sent, NotStarted
<1>7. PhaseInv
  BY <1>6 DEF PhaseInv, NothingFetched
<1>8. QED
  BY <1>1, <1>2, <1>4, <1>5, <1>7 DEF IInv

(* The inductive invariant holds in every state of the controller.         *)
THEOREM ControllerInvariant == Spec => []IInv
<1>1. IInv /\ [Next]_vars => IInv'
  <2> SUFFICES ASSUME IInv, [Next]_vars PROVE IInv'
    OBVIOUS
  <2>1. CASE Next
    <3>1. TypeOK'
      BY <2>1, TypeStep DEF IInv
    <3>2. OneAnswerPerCall' /\ CallInv'
      BY <2>1, <3>1, CallStep DEF IInv
    <3>3. InputsReachCore'
      BY <2>1, <3>1, InputsStep DEF IInv
    <3>4. PhaseInv'
      BY <2>1, <3>1, <3>2, PhaseStep DEF IInv
    <3>5. QED
      BY <3>1, <3>2, <3>3, <3>4 DEF IInv
  <2>2. CASE UNCHANGED vars
    <3>1. UNCHANGED <<host, links, control, treeInput, core, output>>
      BY <2>2 DEF vars
    <3>2. TypeOK' /\ Received' = Received
      BY <3>1 DEF IInv, TypeOK, Received, host, links, control, treeInput, core, output
    <3>3. OneAnswerPerCall' /\ CallInv'
      BY <3>1, <3>2 DEF IInv, OneAnswerPerCall, CallInv, host, links, control
    <3>4. InputsReachCore'
      BY <3>1, <3>2 DEF IInv, InputsReachCore, links, control, treeInput, core
    <3>5. PhaseInv'
      BY <3>1, <3>2, CoreAlone DEF IInv, control
    <3>6. QED
      BY <3>2, <3>3, <3>4, <3>5 DEF IInv
  <2>3. QED
    BY <2>1, <2>2
<1>2. QED
  BY InitInvariant, <1>1, PTL DEF Spec

(* Every variable keeps its type: in particular no FIFO of the controller  *)
(* ever holds more than it has slots.                                      *)
THEOREM TypeCorrect == Spec => []TypeOK
<1>1. IInv => TypeOK
  BY DEF IInv
<1>2. QED
  BY <1>1, ControllerInvariant, PTL

(* The host gets one answer for each call, and none that it would take for *)
(* the answer to a later one.                                              *)
THEOREM AnswersMatchCalls == Spec => []OneAnswerPerCall
<1>1. IInv => OneAnswerPerCall
  BY DEF IInv
<1>2. QED
  BY <1>1, ControllerInvariant, PTL

(* The core reads the tree image and the host's centres in order, for any  *)
(* image, number of centres and size of the FIFO words are fetched into.   *)
THEOREM InputsInOrder == Spec => []InputsReachCore
<1>1. IInv => InputsReachCore
  BY DEF IInv
<1>2. QED
  BY <1>1, ControllerInvariant, PTL

(* The host has its last answer only when the core has read all its inputs *)
(* and stopped, with all its outputs, in order, in the controller.         *)
THEOREM AnsweredWhenDone == Spec => []AnswerMeansOutput
<1>1. IInv => AnswerMeansOutput
  <2> SUFFICES ASSUME IInv, AllAnswered PROVE AnswerMeansOutput
    BY DEF AnswerMeansOutput
  <2>1. Len(request) = 0 /\ Len(commandIn) = 0 /\ state = "get_command" /\ calls = K + 1
    BY OneCall DEF IInv, AllAnswered
  <2>2. ~NotStarted
    BY <2>1, ControllerAssumption DEF NotStarted, Received
  <2>3. pc = "idle"
    BY <2>1 DEF IInv, PhaseInv
  <2>4. ImageRead /\ CentresRead /\ Sent(K)
    BY <2>2, <2>3 DEF IInv, PhaseInv
  <2>5. QED
    BY <2>3, <2>4 DEF AnswerMeansOutput, ImageRead, CentresRead, Sent
<1>2. QED
  BY <1>1, ControllerInvariant, PTL

==============================================================================
