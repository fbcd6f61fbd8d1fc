-------------------------- MODULE DistributedProofs --------------------------
(***************************************************************************)
(* Proofs about the distributed job system, for any number of workers,     *)
(* clients and connections and any values of the limits.                   *)
(***************************************************************************)
EXTENDS Distributed, FiniteSetTheorems, TLAPS

-----------------------------------------------------------------------------
(* Types.                                                                  *)

\* The idle call is a call.
LEMMA NoCallType == NoCall \in CallRec
BY DstWorkerAssumption DEF NoCall, CallRec, CallState, Kind

\* A new call to a worker is a call.
LEMMA CallType ==
  ASSUME NEW w \in Worker, NEW k \in Kind, NEW i \in Nat
  PROVE  Call(w, k, i) \in CallRec
BY DEF Call, CallRec, CallState

\* Changing the state of a call leaves a call.
LEMMA CallStType ==
  ASSUME NEW r \in CallRec, NEW s \in CallState
  PROVE  [r EXCEPT !.st = s] \in CallRec
BY DEF CallRec

\* Counting down the messages still to come leaves a call.
LEMMA CallArgType ==
  ASSUME NEW r \in CallRec, NEW i \in Nat
  PROVE  [r EXCEPT !.arg = i] \in CallRec
BY DEF CallRec

\* The priorities getNextWorker and punishWorker compute stay in range.
LEMMA PriorityType ==
  ASSUME NEW p \in 0 .. MaxPriority
  PROVE  /\ Bumped(p) \in 0 .. MaxPriority
         /\ Punished(p) \in 0 .. MaxPriority
<1>1. Bumped(p) \in 0 .. MaxPriority
  BY LoadBalancerAssumption DEF Bumped
<1>2. ASSUME NEW q \in Nat PROVE q % (MaxPriority + 1) \in 0 .. MaxPriority
  BY LoadBalancerAssumption
<1>3. Punished(p) \in 0 .. MaxPriority
  BY <1>2, LoadBalancerAssumption DEF Punished
<1> QED BY <1>1, <1>3

\* The initial state is well typed.
LEMMA InitType == Init => TypeOK
<1> SUFFICES ASSUME Init PROVE TypeOK OBVIOUS
<1> USE DEF Init
<1>1. WorkerTypeOK
  BY NoCallType, DstWorkerAssumption DEF WorkerInit, WorkerTypeOK
<1>2. BalancerTypeOK
  BY LoadBalancerAssumption DEF BalancerInit, BalancerTypeOK
<1>3. ConnTypeOK
  BY BalancerConnectionAssumption, DstWorkerAssumption, LoadBalancerAssumption
  DEF ConnInit, ConnTypeOK, NoRequest, Request, PC
<1>4. ClientTypeOK
  BY DistributedAssumption DEF ClientInit, ClientTypeOK
<1> QED BY <1>1, <1>2, <1>3, <1>4 DEF TypeOK

\* A step of a worker's handler keeps the types of the worker side.
LEMMA HandlerType ==
  ASSUME WorkerTypeOK, NEW id \in CallId, HandlerStep(id)
  PROVE  WorkerTypeOK'
<1> USE DEF WorkerTypeOK
<1>0. call[id] \in CallRec OBVIOUS
<1>1. \A s \in CallState : [call EXCEPT ![id].st = s] \in [CallId -> CallRec]
  BY <1>0, CallStType
<1>2. \A n \in Conn, m \in Msg : [buffer EXCEPT ![n] = Append(@, m)] \in [Conn -> Seq(Msg)]
  OBVIOUS
<1>3. CASE RejectPacket(id)
  <2>1. call' \in [CallId -> CallRec] BY <1>1, <1>3 DEF RejectPacket, CallState
  <2>2. buffer' \in [Conn -> Seq(Msg)] BY <1>2, <1>3 DEF RejectPacket, Msg
  <2> QED BY <1>3, <2>1, <2>2 DEF RejectPacket
<1>4. CASE StartHandler(id)
  <2>1. call' \in [CallId -> CallRec] BY <1>1, <1>4 DEF StartHandler, CallState
  <2> QED BY <1>4, <2>1 DEF StartHandler
<1>5. CASE SendResult(id)
  <2>1. [call EXCEPT ![id].st = "eof"] \in [CallId -> CallRec] BY <1>1 DEF CallState
  <2>2. call[id].arg \in Nat BY <1>0 DEF CallRec
  <2>3. ASSUME ~ (call[id].arg <= 1)
        PROVE  [call EXCEPT ![id].arg = @ - 1] \in [CallId -> CallRec]
    <3>1. call[id].arg - 1 \in Nat BY <2>2, <2>3
    <3>2. [call[id] EXCEPT !.arg = call[id].arg - 1] \in CallRec BY <1>0, <3>1, CallArgType
    <3> QED BY <3>2
  <2>4. call' \in [CallId -> CallRec] BY <1>5, <2>1, <2>3 DEF SendResult
  <2>5. buffer' \in [Conn -> Seq(Msg)] BY <1>2, <1>5 DEF SendResult, ResultMsg, Msg
  <2> QED BY <1>5, <2>4, <2>5 DEF SendResult
<1>6. CASE ApplyUpdate(id)
  <2>1. call' \in [CallId -> CallRec] BY <1>1, <1>6 DEF ApplyUpdate, CallState
  <2>2. call[id].arg \in Nat BY <1>0 DEF CallRec
  <2> QED BY <1>6, <2>1, <2>2 DEF ApplyUpdate
<1> QED BY <1>3, <1>4, <1>5, <1>6 DEF HandlerStep

\* Faults keep the types of the worker side.
LEMMA FaultType ==
  ASSUME WorkerTypeOK, FaultStep
  PROVE  WorkerTypeOK'
<1> USE DstWorkerAssumption DEF WorkerTypeOK
<1>1. ASSUME NEW w \in Worker, NEW atEof \in SUBSET CallId, NEW cut \in SUBSET Conn,
             Crash(w, atEof, cut)
      PROVE  WorkerTypeOK'
  <2>1. \A id \in CallId : \A s \in {"eof", "reset"} : [call[id] EXCEPT !.st = s] \in CallRec
    BY CallStType DEF CallState
  <2>2. call' \in [CallId -> CallRec] BY <1>1, <2>1 DEF Crash
  <2>3. \A n \in Conn : Append(buffer[n], "fragment") \in Seq(Msg) BY DEF Msg
  <2>4. buffer' \in [Conn -> Seq(Msg)] BY <1>1, <2>3 DEF Crash
  <2> QED BY <1>1, <2>2, <2>4 DEF Crash
<1>2. ASSUME NEW w \in Worker, Restart(w) PROVE WorkerTypeOK'
  BY <1>2 DEF Restart
<1>3. ASSUME NEW id \in CallId, BreakConnection(id) PROVE WorkerTypeOK'
  <2>1. call[id] \in CallRec OBVIOUS
  <2>2. call' \in [CallId -> CallRec]
    BY <1>3, <2>1, CallStType DEF BreakConnection, CallState
  <2>3. call[id].to \in Worker /\ call[id].arg \in Nat BY <2>1 DEF CallRec
  <2> QED BY <1>3, <2>2, <2>3 DEF BreakConnection
<1> QED BY <1>1, <1>2, <1>3 DEF FaultStep

\* The discovery thread keeps the types of the worker side and the balancer.
LEMMA AddThreadType ==
  ASSUME WorkerTypeOK, BalancerTypeOK, AddWorkerStep
  PROVE  WorkerTypeOK' /\ BalancerTypeOK'
<1> USE DstWorkerAssumption, LoadBalancerAssumption DEF BalancerTypeOK, workerVars
<1>0. LookUp \in CallId BY DEF CallId
<1>1. ASSUME NEW e \in Entry, AddWorkerLock(e) PROVE WorkerTypeOK' /\ BalancerTypeOK'
  BY <1>0, <1>1 DEF AddWorkerLock, WorkerTypeOK
<1>2. CASE ReplayNext
  <2> DEFINE r == Call(Addr[adding], "broadcast", ReplayIndex)
  <2>1. r \in CallRec BY CallType DEF ReplayIndex, Kind
  <2>2. [r EXCEPT !.st = IF up[Addr[adding]] THEN "sent" ELSE "reset"] \in CallRec
    BY <2>1, CallStType DEF CallState
  <2>3. call' \in [CallId -> CallRec] BY <1>0, <1>2, <2>2 DEF ReplayNext, WorkerTypeOK
  <2> QED BY <1>2, <2>3 DEF ReplayNext, WorkerTypeOK
<1>3. CASE ReplayEof
  BY <1>0, <1>3, NoCallType DEF ReplayEof, WorkerTypeOK
<1>4. CASE ReplayFailed
  BY <1>0, <1>4, NoCallType DEF ReplayFailed, WorkerTypeOK, AfterAdd
<1>5. CASE AddWorkerDone
  BY <1>5, SMTT(20) DEF AddWorkerDone, WorkerTypeOK, AfterAdd
<1> QED BY <1>1, <1>2, <1>3, <1>4, <1>5 DEF AddWorkerStep

\* The thread of a connection keeps all types it touches.
LEMMA ConnType ==
  ASSUME TypeOK, LimitsKept, NEW n \in Conn, ConnStep(n)
  PROVE  WorkerTypeOK' /\ BalancerTypeOK' /\ ConnTypeOK'
<1> USE DstWorkerAssumption, LoadBalancerAssumption, BalancerConnectionAssumption
    DEF TypeOK, workerVars, balancerVars, lookupVars
<1> DEFINE Goal == WorkerTypeOK' /\ BalancerTypeOK' /\ ConnTypeOK'
<1>0. n \in CallId BY DEF CallId
<1>a. ASSUME NEW to \in PC, pc' = [pc EXCEPT ![n] = to] PROVE pc' \in [Conn -> PC]
  BY <1>a DEF ConnTypeOK
<1>b. ASSUME NEW e \in queue, PickTop(e) PROVE priority' \in [Entry -> 0 .. MaxPriority]
  BY <1>b, PriorityType DEF PickTop, BalancerTypeOK
<1>1. CASE Accept(n)
  BY <1>1, <1>a DEF Accept, Goto, WorkerTypeOK, BalancerTypeOK, ConnTypeOK, PC
<1>2. CASE ReadError(n)
  BY <1>2, <1>a DEF ReadError, Goto, WorkerTypeOK, BalancerTypeOK, ConnTypeOK, PC
<1>3. CASE NoWorkers(n)
  BY <1>3, <1>a DEF NoWorkers, Goto, WorkerTypeOK, BalancerTypeOK, ConnTypeOK, PC
<1>4. CASE AnswerAddress(n)
  <2>1. priority' \in [Entry -> 0 .. MaxPriority] BY <1>4, <1>b DEF AnswerAddress
  <2>2. target' \in [Conn -> Worker]
    BY <1>4 DEF AnswerAddress, ConnTypeOK, BalancerTypeOK
  <2>3. reply' \in [Conn -> Seq(Msg)]
    BY <1>4 DEF AnswerAddress, ConnTypeOK, Msg
  <2> QED BY <1>4, <1>a, <2>1, <2>2, <2>3
       DEF AnswerAddress, Goto, WorkerTypeOK, BalancerTypeOK, ConnTypeOK, PC
<1>5. CASE PickWorker(n)
  <2>1. priority' \in [Entry -> 0 .. MaxPriority] BY <1>5, <1>b DEF PickWorker
  <2>2. target' \in [Conn -> Worker]
    BY <1>5 DEF PickWorker, ConnTypeOK, BalancerTypeOK
  <2> QED BY <1>5, <1>a, <2>1, <2>2
       DEF PickWorker, Goto, WorkerTypeOK, BalancerTypeOK, ConnTypeOK, PC
<1>6. CASE RelaySend(n)
  <2>1. Sent(n) \in CallRec
    <3>1. target[n] \in Worker /\ msg[n].parts \in Nat /\ packet[n] \in {"whole", "tail", "empty"}
      BY DEF ConnTypeOK, Request
    <3> QED BY <3>1, CallType DEF Sent, Kind
  <2>2. call' \in [CallId -> CallRec]
    BY <1>0, <1>6, <2>1 DEF RelaySend, WorkerTypeOK
  <2> QED BY <1>6, <1>a, <2>2
       DEF RelaySend, Goto, Consumed, WorkerTypeOK, BalancerTypeOK, ConnTypeOK, PC
<1>7. CASE RelayRefused(n)
  BY <1>7, <1>a DEF RelayRefused, Goto, WorkerTypeOK, BalancerTypeOK, ConnTypeOK, PC
<1>8. CASE RelayEof(n)
  BY <1>0, <1>8, <1>a, NoCallType
  DEF RelayEof, Goto, WorkerTypeOK, BalancerTypeOK, ConnTypeOK, PC
<1>9. CASE RelayReset(n)
  BY <1>0, <1>9, <1>a, NoCallType
  DEF RelayReset, Goto, WorkerTypeOK, BalancerTypeOK, ConnTypeOK, PC
<1>10. CASE RelayPunish(n)
  <2>1. priority' \in [Entry -> 0 .. MaxPriority]
    BY <1>10, PriorityType DEF RelayPunish, PunishWorker, BalancerTypeOK
  <2>2. trials' \in [Conn -> 0 .. kMaxFailedWorkersTrials]
    <3>1. trials[n] \in Nat /\ trials[n] < kMaxFailedWorkersTrials
      BY <1>10 DEF RelayPunish, Goto, LimitsKept, ConnTypeOK
    <3> QED BY <1>10, <3>1 DEF RelayPunish, ConnTypeOK
  <2>3. reply' \in [Conn -> Seq(Msg)]
    BY <1>10 DEF RelayPunish, ConnTypeOK, Msg
  <2> QED BY <1>10, <1>a, <2>1, <2>2, <2>3
       DEF RelayPunish, Goto, WorkerTypeOK, BalancerTypeOK, ConnTypeOK, PC
<1>11. CASE RelayRetry(n)
  <2>1. priority' \in [Entry -> 0 .. MaxPriority] BY <1>11, <1>b DEF RelayRetry, BalancerTypeOK
  <2>2. target' \in [Conn -> Worker]
    BY <1>11 DEF RelayRetry, ConnTypeOK, BalancerTypeOK
  <2> QED BY <1>11, <1>a, <2>1, <2>2
       DEF RelayRetry, Goto, WorkerTypeOK, BalancerTypeOK, ConnTypeOK, PC
<1>12. CASE BroadcastBegin(n)
  <2>1. \A e \in queue :
          [Call(Addr[e], "broadcast", Len(broadcastData) + 1) EXCEPT !.st = "posted"] \in CallRec
    <3> TAKE e \in queue
    <3> DEFINE r == Call(Addr[e], "broadcast", Len(broadcastData) + 1)
    <3>1. Addr[e] \in Worker /\ Len(broadcastData) + 1 \in Nat BY DEF BalancerTypeOK
    <3>2. r \in CallRec BY <3>1, CallType DEF Kind
    <3> HIDE DEF r
    <3> QED BY <3>2, CallStType DEF CallState, r
  <2>2. call' \in [CallId -> CallRec] BY <1>12, <2>1 DEF BroadcastBegin, WorkerTypeOK
  <2>3. broadcastData' \in Seq(Client)
    BY <1>12 DEF BroadcastBegin, BalancerTypeOK, ConnTypeOK, Request
  <2> QED BY <1>0, <1>12, <1>a, <2>2, <2>3
       DEF BroadcastBegin, Goto, WorkerTypeOK, BalancerTypeOK, ConnTypeOK, PC
<1>13. CASE BroadcastEnd(n)
  <2> DEFINE failed == {e \in queue : call[e].st = "reset"}
  <2>1. SuccessBroadcast(failed) \in Nat
    <3>1. IsFiniteSet(queue) BY FS_Subset DEF BalancerTypeOK
    <3>2. failed \subseteq queue OBVIOUS
    <3>3. /\ Cardinality(failed) \in Nat /\ Cardinality(queue) \in Nat
          /\ Cardinality(failed) <= Cardinality(queue)
      BY <3>1, <3>2, FS_Subset, FS_CardinalityType
    <3> QED BY <3>3 DEF SuccessBroadcast
  <2>2. count' \in [Conn -> Nat] BY <1>13, <2>1 DEF BroadcastEnd, ConnTypeOK
  <2>3. queue' \in SUBSET Entry BY <1>13 DEF BroadcastEnd, RemoveWorkers, BalancerTypeOK
  <2>4. reply' \in [Conn -> Seq(Msg)]
    <3>1. <<"error">> \in Seq(Msg) /\ <<"success">> \in Seq(Msg) BY DEF Msg
    <3> QED BY <1>13, <3>1 DEF BroadcastEnd, ConnTypeOK
  <2>5. call' \in [CallId -> CallRec] BY <1>13, NoCallType DEF BroadcastEnd, WorkerTypeOK
  <2> QED BY <1>13, <1>a, <2>2, <2>3, <2>4, <2>5
       DEF BroadcastEnd, Goto, WorkerTypeOK, BalancerTypeOK, ConnTypeOK, PC
<1> QED BY <1>1, <1>2, <1>3, <1>4, <1>5, <1>6, <1>7, <1>8, <1>9, <1>10, <1>11, <1>12, <1>13
     DEF ConnStep

\* A task of the broadcast pool keeps the types of the worker side.
LEMMA PoolTaskType ==
  ASSUME TypeOK, NEW e \in Entry, BroadcastSend(e)
  PROVE  WorkerTypeOK'
<1>1. e \in CallId /\ call[e] \in CallRec BY DEF CallId, TypeOK, WorkerTypeOK
<1>2. call' \in [CallId -> CallRec]
  BY <1>1, CallStType DEF BroadcastSend, TypeOK, WorkerTypeOK, CallState
<1> QED BY <1>2 DEF BroadcastSend, TypeOK, WorkerTypeOK

\* What sendJob and sendJobMultiResult hand to their caller is well typed.
LEMMA ResultType ==
  ASSUME NEW answer \in Seq(Msg), answer # <<>>
  PROVE  /\ Head(answer) \in Msg
         /\ JobType(Head(answer)) \in {"kNone", "kSuccess", "kError"}
         /\ Split(answer) \in Seq(Msg)
<1>1. Head(answer) \in Msg OBVIOUS
<1>2. JobType(Head(answer)) \in {"kNone", "kSuccess", "kError"} BY DEF JobType
<1>3. SubSeq(answer, 1, Len(answer) - 1) \in Seq(Msg) OBVIOUS
<1>4. Split(answer) \in Seq(Msg) BY <1>3 DEF Split
<1> QED BY <1>1, <1>2, <1>4

\* Giving up a try keeps the client's types.
LEMMA GiveUpType ==
  ASSUME ClientTypeOK, NEW c \in Client, GiveUpTry(c), UNCHANGED conn,
         tries' \in [Client -> 0 .. kMaxTries]
  PROVE  ClientTypeOK'
<1>1. state' \in [Client -> {"idle", "waiting", "done"}]
  BY DEF GiveUpTry, ClientTypeOK
<1>2. \A d \in Client : state'[d] = "waiting" => state[d] = "waiting"
  BY DEF GiveUpTry, ClientTypeOK
<1> QED BY <1>1, <1>2 DEF GiveUpTry, ClientTypeOK

\* A client's step, with or without a fault, keeps all types.
LEMMA ClientType ==
  ASSUME TypeOK, LimitsKept, NEW c \in Client, ClientStep(c) \/ ClientFault(c)
  PROVE  TypeOK'
<1> USE DstWorkerAssumption, DistributedAssumption
    DEF TypeOK, workerVars, balancerVars, lookupVars, connVars
<1>0. ASSUME state[c] = "idle", tries' = [tries EXCEPT ![c] = @ + 1]
      PROVE  tries' \in [Client -> 0 .. kMaxTries]
  BY <1>0 DEF LimitsKept, ClientTypeOK
<1>a. ASSUME faults < MaxFaults, faults' = faults + 1,
             UNCHANGED <<up, applied, restarts, faulty, call, buffer, runs>>
      PROVE  WorkerTypeOK'
  BY <1>a DEF WorkerTypeOK
<1>1. ASSUME NEW n \in Conn, SendMsg(c, n) PROVE TypeOK'
  <2>1. RequestOf(c) \in Request BY DEF RequestOf, Request, CallKind
  <2>2. pc' \in [Conn -> PC] /\ msg' \in [Conn -> Request]
    BY <1>1, <2>1 DEF SendMsg, Goto, ConnTypeOK, PC
  <2>3. tries' \in [Client -> 0 .. kMaxTries] BY <1>0, <1>1 DEF SendMsg
  <2>4. ClientTypeOK' BY <1>1, <2>3 DEF SendMsg, ClientTypeOK
  <2> QED BY <1>1, <2>2, <2>4 DEF SendMsg, ConnTypeOK, WorkerTypeOK, BalancerTypeOK
<1>2. CASE ReadMsg(c)
  <2> DEFINE answer == reply[conn[c]]
  <2>0. WorkerTypeOK' /\ BalancerTypeOK' /\ ConnTypeOK'
    BY <1>2 DEF ReadMsg, ConnTypeOK, WorkerTypeOK, BalancerTypeOK
  <2>1. CASE ~ Usable(c, answer)
    <3>1. GiveUpTry(c) /\ UNCHANGED <<tries, conn>> BY <1>2, <2>1 DEF ReadMsg
    <3> QED BY <2>0, <3>1, GiveUpType DEF ClientTypeOK
  <2>2. CASE Usable(c, answer)
    <3>1. ReturnResult(c, answer) BY <1>2, <2>2 DEF ReadMsg
    <3>2. answer \in Seq(Msg)
      BY <1>2 DEF ReadMsg, ConnTypeOK, ClientTypeOK
    <3>3. answer # <<>> BY <2>2 DEF Usable
    <3> HIDE DEF answer
    <3>4. result' \in [Client -> {"kNone", "kSuccess", "kError"}]
      BY <3>1, <3>2, <3>3, ResultType DEF ReturnResult, ClientTypeOK
    <3>5. descs' \in [Client -> Seq(Msg)]
      <4>1. <<Head(answer)>> \in Seq(Msg) BY <3>2, <3>3, ResultType
      <4>2. descs[c] \o Split(answer) \in Seq(Msg)
        BY <3>2, <3>3, ResultType DEF ClientTypeOK
      <4> QED BY <3>1, <4>1, <4>2 DEF ReturnResult, ClientTypeOK
    <3>6. ok' \in [Client -> BOOLEAN] BY <3>1 DEF ReturnResult, ClientTypeOK
    <3>7. /\ state' \in [Client -> {"idle", "waiting", "done"}]
          /\ \A d \in Client : state'[d] = "waiting" => state[d] = "waiting"
      BY <3>1 DEF ReturnResult, ClientTypeOK
    <3> QED BY <1>2, <2>0, <3>4, <3>5, <3>6, <3>7 DEF ReadMsg, ClientTypeOK
  <2> QED BY <2>1, <2>2
<1>3. CASE ConnectFailed(c)
  <2>1. WorkerTypeOK' /\ BalancerTypeOK' /\ ConnTypeOK'
    BY <1>a, <1>3 DEF ConnectFailed, ConnTypeOK, BalancerTypeOK
  <2>2. tries' \in [Client -> 0 .. kMaxTries] BY <1>0, <1>3 DEF ConnectFailed
  <2>3. CASE CallOf[c] = "multi"
    <3>1. /\ state' \in [Client -> {"idle", "waiting", "done"}]
          /\ \A d \in Client : state'[d] = "waiting" => state[d] = "waiting"
      BY <1>3, <2>3 DEF ConnectFailed, ClientTypeOK
    <3> QED BY <1>3, <2>1, <2>2, <2>3, <3>1 DEF ConnectFailed, ClientTypeOK
  <2>4. CASE CallOf[c] # "multi"
    BY <1>3, <2>1, <2>2, <2>4, GiveUpType DEF ConnectFailed
  <2> QED BY <2>3, <2>4
<1>4. CASE ReadMsgFailed(c)
  <2>1. WorkerTypeOK' /\ BalancerTypeOK' /\ ConnTypeOK'
    BY <1>a, <1>4 DEF ReadMsgFailed, ConnTypeOK, BalancerTypeOK
  <2>2. ClientTypeOK' BY <1>4, GiveUpType DEF ReadMsgFailed, ClientTypeOK
  <2> QED BY <2>1, <2>2
<1>5. ASSUME NEW n \in Conn, SendMsgFailed(c, n) PROVE TypeOK'
  <2>1. WorkerTypeOK' /\ BalancerTypeOK'
    BY <1>a, <1>5 DEF SendMsgFailed, BalancerTypeOK
  <2>2. ConnTypeOK' BY <1>5 DEF SendMsgFailed, Goto, ConnTypeOK, PC
  <2>3. tries' \in [Client -> 0 .. kMaxTries] BY <1>0, <1>5 DEF SendMsgFailed
  <2>4. ClientTypeOK' BY <1>5, <2>3, GiveUpType DEF SendMsgFailed
  <2> QED BY <2>1, <2>2, <2>4
<1> QED BY <1>1, <1>2, <1>3, <1>4, <1>5 DEF ClientStep, ClientFault

\* Every step keeps the types.
LEMMA NextType ==
  ASSUME TypeOK, LimitsKept, [Next]_vars
  PROVE  TypeOK'
<1> USE DEF TypeOK
<1>1. ASSUME NEW c \in Client, ClientStep(c) \/ ClientFault(c) PROVE TypeOK'
  BY <1>1, ClientType
<1>2. ASSUME NEW n \in Conn, ConnThread(n) PROVE TypeOK'
  BY <1>2, ConnType DEF ConnThread, clientVars, ClientTypeOK
<1>3. ASSUME NEW e \in Entry, PoolTask(e) PROVE TypeOK'
  <2>1. BroadcastSend(e) /\ UNCHANGED clientVars BY <1>3 DEF PoolTask
  <2>2. WorkerTypeOK' BY <2>1, PoolTaskType
  <2> QED BY <2>1, <2>2 DEF BroadcastSend, clientVars, connVars, balancerVars,
                             ClientTypeOK, ConnTypeOK, BalancerTypeOK
<1>4. CASE Resolve
  BY <1>4 DEF Resolve, LookUpWorkers, clientVars, connVars, workerVars,
              ClientTypeOK, ConnTypeOK, BalancerTypeOK, WorkerTypeOK
<1>5. CASE AddThread
  BY <1>5, AddThreadType DEF AddThread, clientVars, connVars, ClientTypeOK, ConnTypeOK
<1>6. ASSUME NEW id \in CallId, Handler(id) PROVE TypeOK'
  BY <1>6, HandlerType DEF Handler, clientVars, connVars, balancerVars,
                           ClientTypeOK, ConnTypeOK, BalancerTypeOK
<1>7. CASE FaultStep /\ UNCHANGED <<clientVars, connVars, balancerVars>>
  BY <1>7, FaultType DEF clientVars, connVars, balancerVars,
                         ClientTypeOK, ConnTypeOK, BalancerTypeOK
<1>8. ASSUME NEW n \in Conn, NEW left \in {"whole", "tail"}, RelayWriteError(n, left),
             UNCHANGED clientVars
      PROVE  TypeOK'
  <2>1. target[n] \in Worker BY DEF ConnTypeOK
  <2>2. WorkerTypeOK' BY <1>8, <2>1, DstWorkerAssumption DEF RelayWriteError, WorkerTypeOK
  <2>3. ConnTypeOK' BY <1>8 DEF RelayWriteError, Goto, ConnTypeOK, PC
  <2> QED BY <1>8, <2>2, <2>3 DEF RelayWriteError, clientVars, balancerVars,
                                  ClientTypeOK, BalancerTypeOK
<1>9. CASE UNCHANGED vars
  BY <1>9 DEF vars, clientVars, connVars, balancerVars, workerVars,
              ClientTypeOK, ConnTypeOK, BalancerTypeOK, WorkerTypeOK
<1> QED BY <1>1, <1>2, <1>3, <1>4, <1>5, <1>6, <1>7, <1>8, <1>9
     DEF Next, Fault, RelayFault

-----------------------------------------------------------------------------
(* The limits of the retry loops.                                          *)

\* A step of a connection's thread keeps the limits.
LEMMA ConnLimits ==
  ASSUME TypeOK, LimitsKept, NEW n \in Conn, ConnStep(n)
  PROVE  \A m \in Conn : pc'[m] # "closed" => trials'[m] < kMaxFailedWorkersTrials
<1> USE BalancerConnectionAssumption DEF TypeOK, ConnTypeOK, LimitsKept, Goto
<1>1. CASE RelayPunish(n)
  <2>1. trials[n] \in Nat /\ trials[n] < kMaxFailedWorkersTrials BY <1>1 DEF RelayPunish
  <2>2. pc'[n] # "closed" => trials[n] + 1 # kMaxFailedWorkersTrials
    BY <1>1 DEF RelayPunish, TrialsUsedUp
  <2>3. trials' = [trials EXCEPT ![n] = @ + 1] BY <1>1 DEF RelayPunish
  <2>4. \A m \in Conn \ {n} : pc'[m] = pc[m] BY <1>1 DEF RelayPunish
  <2> QED BY <2>1, <2>2, <2>3, <2>4
<1>2. ASSUME NEW from, from # "closed", NEW to, Goto(n, from, to), UNCHANGED trials
      PROVE  \A m \in Conn : pc'[m] # "closed" => trials'[m] < kMaxFailedWorkersTrials
  BY <1>2
<1>3. CASE Accept(n) \/ ReadError(n) \/ NoWorkers(n) \/ AnswerAddress(n) \/ PickWorker(n)
  BY <1>2, <1>3 DEF Accept, ReadError, NoWorkers, AnswerAddress, PickWorker
<1>4. CASE RelaySend(n) \/ RelayRefused(n) \/ RelayEof(n) \/ RelayReset(n)
  BY <1>2, <1>4 DEF RelaySend, RelayRefused, RelayEof, RelayReset
<1>5. CASE RelayRetry(n) \/ BroadcastBegin(n) \/ BroadcastEnd(n)
  BY <1>2, <1>5 DEF RelayRetry, BroadcastBegin, BroadcastEnd
<1> QED BY <1>1, <1>3, <1>4, <1>5 DEF ConnStep

\* A step of a client keeps the limits.
LEMMA ClientLimits ==
  ASSUME TypeOK, LimitsKept, NEW c \in Client, ClientStep(c) \/ ClientFault(c)
  PROVE  LimitsKept'
<1> USE DistributedAssumption DEF TypeOK, ClientTypeOK, ConnTypeOK, LimitsKept, connVars
<1>1. ASSUME UNCHANGED <<pc, trials>>
             \/ \E n \in Conn, to \in {"sending", "lost"} : Goto(n, "free", to) /\ UNCHANGED trials
      PROVE  \A m \in Conn : pc'[m] # "closed" => trials'[m] < kMaxFailedWorkersTrials
  BY <1>1 DEF Goto
<1>2. ASSUME GiveUpTry(c), tries' = tries \/ tries' = [tries EXCEPT ![c] = @ + 1]
      PROVE  \A d \in Client : state'[d] = "idle" => tries'[d] < kMaxTries
  <2>1. tries'[c] < kMaxTries \/ state'[c] = "done" BY <1>2 DEF GiveUpTry
  <2>2. \A d \in Client \ {c} : state'[d] = state[d] /\ tries'[d] = tries[d]
    BY <1>2 DEF GiveUpTry
  <2> QED BY <2>1, <2>2
<1>3. ASSUME NEW s \in {"waiting", "done"}, state' = [state EXCEPT ![c] = s],
             tries' = tries \/ tries' = [tries EXCEPT ![c] = @ + 1]
      PROVE  \A d \in Client : state'[d] = "idle" => tries'[d] < kMaxTries
  BY <1>3
<1>4. ASSUME NEW n \in Conn, SendMsg(c, n) PROVE LimitsKept'
  BY <1>1, <1>3, <1>4 DEF SendMsg
<1>5. CASE ReadMsg(c)
  BY <1>1, <1>2, <1>3, <1>5 DEF ReadMsg, ReturnResult
<1>6. CASE ConnectFailed(c)
  BY <1>1, <1>2, <1>3, <1>6 DEF ConnectFailed
<1>7. CASE ReadMsgFailed(c)
  BY <1>1, <1>2, <1>7 DEF ReadMsgFailed
<1>8. ASSUME NEW n \in Conn, SendMsgFailed(c, n) PROVE LimitsKept'
  BY <1>1, <1>2, <1>8 DEF SendMsgFailed
<1> QED BY <1>4, <1>5, <1>6, <1>7, <1>8 DEF ClientStep, ClientFault

\* Every step keeps the limits.
LEMMA NextLimits ==
  ASSUME TypeOK, LimitsKept, [Next]_vars
  PROVE  LimitsKept'
<1>1. ASSUME NEW c \in Client, ClientStep(c) \/ ClientFault(c) PROVE LimitsKept'
  BY <1>1, ClientLimits
<1>2. ASSUME NEW n \in Conn, ConnThread(n) PROVE LimitsKept'
  <2>1. ConnStep(n) /\ UNCHANGED <<state, tries>> BY <1>2 DEF ConnThread, clientVars
  <2> QED BY <2>1, ConnLimits DEF LimitsKept
<1>3. ASSUME UNCHANGED <<state, tries, pc, trials>> PROVE LimitsKept'
  BY <1>3 DEF LimitsKept
<1>4. ASSUME NEW e \in Entry, PoolTask(e) PROVE LimitsKept'
  BY <1>3, <1>4 DEF PoolTask, BroadcastSend, clientVars, connVars
<1>5. CASE Resolve \/ AddThread
  BY <1>3, <1>5 DEF Resolve, AddThread, clientVars, connVars
<1>6. ASSUME NEW id \in CallId, Handler(id) PROVE LimitsKept'
  BY <1>3, <1>6 DEF Handler, clientVars, connVars
<1>7. CASE FaultStep /\ UNCHANGED <<clientVars, connVars, balancerVars>>
  BY <1>3, <1>7 DEF clientVars, connVars
<1>8. ASSUME NEW n \in Conn, NEW left \in {"whole", "tail"}, RelayWriteError(n, left),
             UNCHANGED clientVars
      PROVE  LimitsKept'
  BY <1>8 DEF RelayWriteError, Goto, LimitsKept, TypeOK, ConnTypeOK, clientVars
<1>9. CASE UNCHANGED vars
  BY <1>3, <1>9 DEF vars, clientVars, connVars
<1> QED BY <1>1, <1>2, <1>4, <1>5, <1>6, <1>7, <1>8, <1>9
     DEF Next, Fault, RelayFault

\* No relay uses more than kMaxFailedWorkersTrials trials and no call more than
\* kMaxTries tries (handle_read, sendJob, sendJobMultiResult); with it, every
\* variable keeps its type.
THEOREM TypesAndLimits == Spec => [](TypeOK /\ LimitsKept)
<1>1. Init => LimitsKept
  BY BalancerConnectionAssumption, DistributedAssumption
  DEF Init, ConnInit, ClientInit, LimitsKept
<1> QED BY <1>1, InitType, NextType, NextLimits, PTL DEF Spec

\* Every variable keeps its type.
THEOREM TypeCorrect == Spec => []TypeOK
BY TypesAndLimits, PTL

-----------------------------------------------------------------------------
(* At most one start of a job per connection.                              *)

\* The inductive invariant: a job that is still whole in in_packet_ was never
\* started, and while its bytes wait to be read by a worker no copy of them is
\* left.
StartInv(n) ==
  /\ runs[n] <= 1
  /\ packet[n] = "whole" => runs[n] = 0
  /\ call[n].kind # "broadcast"
  /\ call[n].st = "sent" /\ call[n].kind = "job" => runs[n] = 0 /\ packet[n] = "empty"

\* Steps that touch neither the job nor its call keep the invariant, and so do
\* those that only end the call.
LEMMA StartFrame ==
  ASSUME NEW n \in Conn, StartInv(n), runs'[n] = runs[n], packet'[n] = packet[n],
         \/ call'[n] = call[n]
         \/ call'[n].st # "sent" /\ call'[n].kind # "broadcast"
  PROVE  StartInv(n)'
BY DEF StartInv

\* Handlers keep the invariant.
LEMMA StartHandlers ==
  ASSUME TypeOK, NEW n \in Conn, StartInv(n), NEW id \in CallId, HandlerStep(id),
         UNCHANGED packet
  PROVE  StartInv(n)'
<1> USE DEF TypeOK, WorkerTypeOK
<1>0. n \in CallId /\ call[n] \in CallRec BY DEF CallId
<1>1. CASE id # n
  <2>1. call'[n] = call[n] /\ runs'[n] = runs[n]
    BY <1>0, <1>1 DEF HandlerStep, RejectPacket, StartHandler, SendResult, ApplyUpdate
  <2> QED BY <2>1, StartFrame
<1>2. CASE id = n
  <2> USE <1>0, <1>2
  <2>1. CASE RejectPacket(n)
    <3>1. call'[n].st = "eof" /\ call'[n].kind = call[n].kind
      BY <2>1 DEF RejectPacket, CallRec
    <3> QED BY <2>1, <3>1, StartFrame DEF RejectPacket, StartInv
  <2>2. CASE StartHandler(n)
    <3>1. call[n].st = "sent" /\ call[n].kind = "job" /\ runs[n] = 0 /\ packet[n] = "empty"
      BY <2>2 DEF StartHandler, StartInv
    <3>2. call'[n].st = "running" /\ call'[n].kind = "job"
      BY <2>2, <3>1 DEF StartHandler, CallRec
    <3>3. runs'[n] = 1 BY <2>2, <3>1 DEF StartHandler
    <3> QED BY <3>1, <3>2, <3>3 DEF StartInv
  <2>3. CASE SendResult(n)
    <3>1. call'[n].st # "sent" /\ call'[n].kind = "job"
      BY <2>3 DEF SendResult, CallRec
    <3> QED BY <2>3, <3>1, StartFrame DEF SendResult, StartInv
  <2>4. CASE ApplyUpdate(n)
    BY <2>4 DEF ApplyUpdate, StartInv
  <2> QED BY <1>2, <2>1, <2>2, <2>3, <2>4 DEF HandlerStep
<1> QED BY <1>1, <1>2

\* Faults keep the invariant.
LEMMA StartFaults ==
  ASSUME TypeOK, NEW n \in Conn, StartInv(n), FaultStep, UNCHANGED packet
  PROVE  StartInv(n)'
<1> USE DEF TypeOK, WorkerTypeOK
<1>0. n \in CallId /\ call[n] \in CallRec BY DEF CallId
<1>1. ASSUME NEW w, NEW atEof, NEW cut, Crash(w, atEof, cut) PROVE StartInv(n)'
  <2>1. \/ call'[n] = call[n]
        \/ call'[n].st \in {"eof", "reset"} /\ call'[n].kind = call[n].kind
    BY <1>0, <1>1 DEF Crash, CallRec
  <2> QED BY <1>1, <2>1, StartFrame DEF Crash, StartInv
<1>2. ASSUME NEW w, Restart(w) PROVE StartInv(n)'
  BY <1>2, StartFrame DEF Restart
<1>3. ASSUME NEW id \in CallId, BreakConnection(id) PROVE StartInv(n)'
  <2>1. \/ call'[n] = call[n]
        \/ call'[n].st = "reset" /\ call'[n].kind = call[n].kind
    BY <1>0, <1>3 DEF BreakConnection, CallRec
  <2> QED BY <1>3, <2>1, StartFrame DEF BreakConnection, StartInv
<1> QED BY <1>1, <1>2, <1>3 DEF FaultStep

\* The threads of the connections keep the invariant.
LEMMA StartConnections ==
  ASSUME TypeOK, NEW n \in Conn, StartInv(n), NEW m \in Conn, ConnStep(m)
  PROVE  StartInv(n)'
<1> USE DEF TypeOK, WorkerTypeOK, ConnTypeOK
<1>0. n \in CallId /\ n \notin Entry BY DstWorkerAssumption DEF CallId
<1>a. NoCall.st # "sent" /\ NoCall.kind # "broadcast" BY DEF NoCall
<1>1. CASE Accept(m) \/ ReadError(m) \/ NoWorkers(m) \/ AnswerAddress(m) \/ PickWorker(m)
  BY <1>1, StartFrame DEF Accept, ReadError, NoWorkers, AnswerAddress, PickWorker, workerVars
<1>2. CASE RelayRefused(m) \/ RelayPunish(m) \/ RelayRetry(m)
  BY <1>2, StartFrame DEF RelayRefused, RelayPunish, RelayRetry, workerVars
<1>3. CASE RelayEof(m) \/ RelayReset(m)
  <2>1. call'[n] = call[n] \/ call'[n] = NoCall BY <1>0, <1>3 DEF RelayEof, RelayReset
  <2> QED BY <1>3, <1>a, <2>1, StartFrame DEF RelayEof, RelayReset
<1>4. CASE BroadcastBegin(m)
  <2>1. call'[n] = call[n] BY <1>0, <1>4 DEF BroadcastBegin, BalancerTypeOK
  <2> QED BY <1>4, <2>1, StartFrame DEF BroadcastBegin
<1>5. CASE BroadcastEnd(m)
  <2>1. call'[n] = call[n] BY <1>0, <1>5 DEF BroadcastEnd, BalancerTypeOK
  <2> QED BY <1>5, <2>1, StartFrame DEF BroadcastEnd
<1>6. CASE RelaySend(m)
  <2>1. CASE m # n BY <1>0, <1>6, <2>1, StartFrame DEF RelaySend
  <2>2. CASE m = n
    <3>1. call'[n] = Sent(n) /\ packet'[n] = "empty" /\ runs'[n] = runs[n]
      BY <1>0, <1>6, <2>2 DEF RelaySend, Consumed
    <3>2. packet[n] \in {"whole", "tail", "empty"} OBVIOUS
    <3>3. CASE packet[n] = "whole"
      BY <3>1, <3>3 DEF Sent, Call, StartInv
    <3>4. CASE packet[n] = "tail"
      <4>1. call'[n].kind = "tail" BY <3>1, <3>4 DEF Sent, Call
      <4> QED BY <3>1, <4>1 DEF StartInv
    <3>5. CASE packet[n] = "empty"
      <4>1. call'[n].kind = "nothing" BY <3>1, <3>5 DEF Sent, Call
      <4> QED BY <3>1, <4>1 DEF StartInv
    <3> QED BY <3>2, <3>3, <3>4, <3>5
  <2> QED BY <2>1, <2>2
<1> QED BY <1>1, <1>2, <1>3, <1>4, <1>5, <1>6 DEF ConnStep

\* Every step keeps the invariant.
LEMMA StartNext ==
  ASSUME TypeOK, NEW n \in Conn, StartInv(n), [Next]_vars
  PROVE  StartInv(n)'
<1>0. n \in CallId /\ n \notin Entry /\ n # LookUp BY DstWorkerAssumption DEF CallId
<1>1. ASSUME NEW c \in Client, ClientStep(c) \/ ClientFault(c) PROVE StartInv(n)'
  <2>1. UNCHANGED <<call, runs, packet>>
    BY <1>1 DEF ClientStep, ClientFault, SendMsg, ReadMsg, ConnectFailed, ReadMsgFailed,
                SendMsgFailed, connVars, workerVars
  <2> QED BY <2>1, StartFrame
<1>2. ASSUME NEW m \in Conn, ConnThread(m) PROVE StartInv(n)'
  BY <1>2, StartConnections DEF ConnThread
<1>3. ASSUME NEW e \in Entry, PoolTask(e) PROVE StartInv(n)'
  <2>1. call'[n] = call[n]
    BY <1>0, <1>3 DEF PoolTask, BroadcastSend, TypeOK, WorkerTypeOK
  <2> QED BY <1>3, <2>1, StartFrame DEF PoolTask, BroadcastSend, connVars
<1>4. CASE Resolve
  BY <1>4, StartFrame DEF Resolve, LookUpWorkers, connVars, workerVars
<1>5. CASE AddThread
  <2> USE <1>0 DEF TypeOK, WorkerTypeOK, workerVars
  <2>1. call'[n] = call[n] /\ UNCHANGED runs
    <3>1. CASE AddWorkerDone \/ \E e \in Entry : AddWorkerLock(e)
      BY <3>1 DEF AddWorkerDone, AddWorkerLock
    <3>2. CASE ReplayNext BY <3>2 DEF ReplayNext
    <3>3. CASE ReplayEof \/ ReplayFailed BY <3>3 DEF ReplayEof, ReplayFailed
    <3> QED BY <1>5, <3>1, <3>2, <3>3 DEF AddThread, AddWorkerStep
  <2> QED BY <1>5, <2>1, StartFrame DEF AddThread, connVars
<1>6. ASSUME NEW id \in CallId, Handler(id) PROVE StartInv(n)'
  BY <1>6, StartHandlers DEF Handler, connVars
<1>7. CASE FaultStep /\ UNCHANGED <<clientVars, connVars, balancerVars>>
  BY <1>7, StartFaults DEF connVars
<1>8. ASSUME NEW m \in Conn, NEW left \in {"whole", "tail"}, RelayWriteError(m, left),
             UNCHANGED clientVars
      PROVE  StartInv(n)'
  <2>1. UNCHANGED <<call, runs>> BY <1>8 DEF RelayWriteError
  <2>2. CASE m # n
    BY <1>8, <2>1, <2>2, StartFrame DEF RelayWriteError, TypeOK, ConnTypeOK
  <2>3. CASE m = n
    <3>1. packet[n] # "empty" /\ packet'[n] \in {packet[n], "tail"}
      BY <1>8, <2>3 DEF RelayWriteError, TypeOK, ConnTypeOK
    <3> QED BY <2>1, <3>1 DEF StartInv
  <2> QED BY <2>2, <2>3
<1>9. CASE UNCHANGED vars
  BY <1>9, StartFrame DEF vars, connVars, workerVars
<1> QED BY <1>1, <1>2, <1>3, <1>4, <1>5, <1>6, <1>7, <1>8, <1>9
     DEF Next, Fault, RelayFault

\* The invariant holds in every behaviour.
LEMMA StartInvariant == Spec => [](\A n \in Conn : StartInv(n))
<1> DEFINE Inv == \A n \in Conn : StartInv(n)
<1>1. Init => Inv
  BY DEF Init, ConnInit, WorkerInit, StartInv, NoCall, CallId
<1>2. TypeOK /\ Inv /\ [Next]_vars => Inv' BY StartNext
<1> HIDE DEF Inv
<1>3. Spec => []Inv BY <1>1, <1>2, TypeCorrect, PTL DEF Spec
<1> QED BY <1>3 DEF Inv

\* Whatever fails and however often the relay goes on to another worker, a job is
\* started at most once per connection (BalancerConnection::handle_read): a
\* second start would need the packet again, which asio::write has consumed.
THEOREM JobStartedAtMostOnce == Spec => []StartedAtMostOnce
<1>1. (\A n \in Conn : StartInv(n)) => StartedAtMostOnce
  BY DEF StartInv, StartedAtMostOnce
<1> QED BY <1>1, StartInvariant, PTL

-----------------------------------------------------------------------------
(* What the leader is given: the results of a job are those of one run, in *)
(* order, and a success is one, whatever fails on the way and however      *)
(* often the relay and the client try again.  First the inductive          *)
(* invariant.                                                              *)

\* The i-th of the k messages a worker answers a job with.
ResultAt(i, k) == IF i < k THEN "part" ELSE "final"

\* b is the beginning of an answer of k messages, perhaps cut in its last one or
\* ended by the "0" for a malformed packet.
Answer(b, k) ==
  /\ Len(b) <= k
  /\ \A i \in 1 .. Len(b) :
       b[i] = ResultAt(i, k) \/ (i = Len(b) /\ b[i] \in {"fragment", "zero"})

\* Every message of b is m.
Only(b, m) == \A i \in 1 .. Len(b) : b[i] = m

\* A connection holds a call only while it relays, and a packet that is not yet
\* written was answered by nobody.
RelayInv(n) ==
  /\ msg[n].parts > 0
  /\ pc[n] = "free" => packet[n] = "whole"
  /\ pc[n] = "broadcast" => msg[n].op = "broadcast"
  /\ pc[n] # "relay" => call[n].st = "idle"
  /\ packet[n] # "empty" => buffer[n] = <<>>
  /\ call[n].st \in {"sent", "running"} => packet[n] = "empty"
  /\ call[n].st = "running" => runs[n] > 0 /\ call[n].kind = "job"
  /\ call[n].st = "sent" /\ call[n].kind = "tail" => buffer[n] = <<>>

\* The receive buffer of a relay, which is kept from one worker to the next, holds
\* what one run has answered; the messages received and those still to come add
\* up to the messages of the job.
BufferInv(n) ==
  /\ call[n].st \in {"sent", "running"} /\ call[n].kind = "job" =>
       /\ call[n].arg > 0 /\ call[n].arg + Len(buffer[n]) = msg[n].parts
       /\ Only(buffer[n], "part")
  /\ Answer(buffer[n], msg[n].parts)
  /\ runs[n] > 0 \/ Only(buffer[n], "zero")

\* What a connection has answered its client with.
ReplyInv(n) ==
  \/ reply[n] = <<>>
  \/ /\ pc[n] = "closed"
     /\ \/ reply[n] \in {buffer[n], <<"error">>}
        \/ msg[n].op # "job" /\ reply[n] \in {<<"address">>, <<"success">>}

JobInv(n) == RelayInv(n) /\ BufferInv(n) /\ ReplyInv(n)

\* What a call of sendJob or sendJobMultiResult knows: the connection it waits
\* for carries its request, and what it returned is genuine.
ClientInv(c) ==
  /\ state[c] = "waiting" => msg[conn[c]] = RequestOf(c) /\ pc[conn[c]] # "free"
  /\ state[c] # "done" => ok[c] = FALSE /\ descs[c] = <<>>
  /\ ok[c] /\ result[c] = "kSuccess" /\ CallOf[c] = "single" =>
       \E n \in Conn : /\ pc[n] = "closed" /\ msg[n].from = c
                       /\ runs[n] > 0 /\ buffer[n] = <<"final">>
  /\ CallOf[c] = "multi" /\ ok[c] =>
       \/ descs[c] = <<"error">>
       \/ \A i \in 1 .. Len(descs[c]) : descs[c][i] = ResultAt(i, RouteParts)

-----------------------------------------------------------------------------
(* The connections.                                                        *)

\* A step that leaves the job of n, its call and its buffer alone keeps the
\* invariant, also when the thread of n goes on.
LEMMA JobFrame ==
  ASSUME NEW n \in Conn, JobInv(n),
         call'[n] = call[n], buffer'[n] = buffer[n], runs'[n] = runs[n],
         packet'[n] = packet[n], msg'[n] = msg[n], reply'[n] = reply[n],
         \/ pc'[n] = pc[n]
         \/ /\ pc[n] \notin {"relay", "closed"} /\ pc'[n] # "free"
            /\ pc'[n] = "broadcast" => msg[n].op = "broadcast"
  PROVE  JobInv(n)'
<1>1. RelayInv(n)' BY DEF JobInv, RelayInv
<1>2. BufferInv(n)' BY DEF JobInv, BufferInv, Answer, Only, ResultAt
<1>3. ReplyInv(n)' BY DEF JobInv, ReplyInv
<1> QED BY <1>1, <1>2, <1>3 DEF JobInv

\* Another message of the answer, and the message that is cut off.
LEMMA AnswerGrows ==
  ASSUME NEW b \in Seq(Msg), NEW k \in Nat, Len(b) < k, Only(b, "part")
  PROVE  /\ Answer(Append(b, ResultAt(Len(b) + 1, k)), k)
         /\ Answer(Append(b, "fragment"), k)
         /\ Only(Append(b, "part"), "part")
<1>1. /\ Len(b) \in Nat
      /\ \A m : Len(Append(b, m)) = Len(b) + 1 /\ Append(b, m)[Len(b) + 1] = m
      /\ \A m : \A i \in 1 .. Len(b) : Append(b, m)[i] = b[i]
  OBVIOUS
<1>2. \A i \in 1 .. (Len(b) + 1) : i = Len(b) + 1 \/ i \in 1 .. Len(b) BY <1>1
<1>3. \A i \in 1 .. Len(b) : ResultAt(i, k) = "part" BY <1>1 DEF ResultAt
<1>4. Len(b) + 1 <= k BY <1>1
<1>5. Answer(Append(b, ResultAt(Len(b) + 1, k)), k)
  BY <1>1, <1>2, <1>3, <1>4 DEF Answer, Only
<1>6. Answer(Append(b, "fragment"), k)
  BY <1>1, <1>2, <1>3, <1>4 DEF Answer, Only
<1>7. Only(Append(b, "part"), "part")
  BY <1>1, <1>2 DEF Only
<1> QED BY <1>5, <1>6, <1>7

\* An empty buffer is the beginning of every answer.
LEMMA AnswerEmpty ==
  ASSUME NEW k \in Nat
  PROVE  Answer(<<>>, k) /\ \A m : Only(<<>>, m)
<1>1. Len(<<>>) = 0 /\ 1 .. 0 = {} OBVIOUS
<1> QED BY <1>1 DEF Answer, Only

\* The "0" for a malformed packet is the only message of its buffer.
LEMMA AnswerZero ==
  ASSUME NEW k \in Nat, k > 0
  PROVE  Answer(Append(<<>>, "zero"), k) /\ Only(Append(<<>>, "zero"), "zero")
<1>1. /\ Append(<<>>, "zero") = <<"zero">> /\ Len(<<"zero">>) = 1 /\ <<"zero">>[1] = "zero"
  OBVIOUS
<1>2. \A i \in 1 .. 1 : i = 1 OBVIOUS
<1> QED BY <1>1, <1>2 DEF Answer, Only

-----------------------------------------------------------------------------
(* Steps of the workers.                                                   *)

\* Handlers keep the invariant: a running job answers with its next message.
LEMMA JobHandlers ==
  ASSUME TypeOK, NEW n \in Conn, StartInv(n), JobInv(n), NEW id \in CallId, HandlerStep(id),
         UNCHANGED connVars
  PROVE  JobInv(n)'
<1> USE DEF TypeOK, WorkerTypeOK
<1>0. n \in CallId /\ call[n] \in CallRec /\ buffer[n] \in Seq(Msg) BY DEF CallId
<1>a. UNCHANGED <<pc, msg, packet, reply>> BY DEF connVars
<1>1. CASE id # n
  <2>1. call'[n] = call[n] /\ runs'[n] = runs[n] /\ buffer'[n] = buffer[n]
    BY <1>0, <1>1 DEF HandlerStep, RejectPacket, StartHandler, SendResult, ApplyUpdate
  <2> QED BY <1>a, <2>1, JobFrame
<1>2. CASE id = n
  <2> USE <1>0, <1>2
  <2> DEFINE b == buffer[n]
             k == msg[n].parts
  <2>0. k \in Nat /\ k > 0 /\ Len(b) \in Nat /\ call[n].arg \in Nat
    BY DEF ConnTypeOK, Request, JobInv, RelayInv, CallRec
  <2>r. call[n].st \in {"sent", "running"} => pc[n] = "relay" /\ packet[n] = "empty"
    BY DEF JobInv, RelayInv
  <2>1. CASE RejectPacket(n)
    <3>1. call[n].st = "sent" /\ call[n].kind = "tail" /\ b = <<>>
      BY <2>1 DEF RejectPacket, JobInv, RelayInv
    <3>2. call'[n].st = "eof" BY <2>1 DEF RejectPacket, CallRec
    <3>3. buffer'[n] = Append(<<>>, "zero") BY <2>1, <3>1 DEF RejectPacket
    <3>4. RelayInv(n)' BY <1>a, <2>0, <2>r, <3>1, <3>2 DEF RelayInv
    <3>5. BufferInv(n)' BY <1>a, <2>0, <3>2, <3>3, AnswerZero DEF BufferInv
    <3>6. ReplyInv(n)' BY <1>a, <2>r, <3>1 DEF JobInv, ReplyInv
    <3> QED BY <3>4, <3>5, <3>6 DEF JobInv
  <2>2. CASE StartHandler(n)
    <3>1. call[n].st = "sent" /\ call[n].kind = "job"
      BY <2>2 DEF StartHandler, StartInv
    <3>2. /\ call'[n].st = "running" /\ call'[n].kind = "job" /\ call'[n].arg = call[n].arg
          /\ runs'[n] = runs[n] + 1 /\ runs[n] \in Nat /\ buffer'[n] = b
      BY <2>2, <3>1 DEF StartHandler, CallRec
    <3>3. runs'[n] > 0 BY <3>2
    <3>4. RelayInv(n)' BY <1>a, <2>0, <2>r, <3>1, <3>2, <3>3 DEF RelayInv
    <3>5. BufferInv(n)'
      BY <1>a, <3>1, <3>2, <3>3 DEF JobInv, BufferInv, Answer, Only, ResultAt
    <3>6. ReplyInv(n)' BY <1>a, <2>r, <3>1 DEF JobInv, ReplyInv
    <3> QED BY <3>4, <3>5, <3>6 DEF JobInv
  <2>3. CASE SendResult(n)
    <3> DEFINE last == call[n].arg <= 1
    <3>1. call[n].st = "running" /\ call[n].kind = "job" BY <2>3 DEF SendResult
    <3>2. /\ runs[n] > 0 /\ call[n].arg > 0 /\ call[n].arg + Len(b) = k /\ Only(b, "part")
      BY <3>1 DEF JobInv, RelayInv, BufferInv
    <3>3. Len(b) < k /\ (last <=> Len(b) + 1 = k) BY <2>0, <3>2
    <3>4. ResultMsg(last) = ResultAt(Len(b) + 1, k)
      BY <2>0, <3>3 DEF ResultMsg, ResultAt
    <3>5. buffer'[n] = Append(b, ResultAt(Len(b) + 1, k)) /\ runs'[n] = runs[n]
      BY <2>3, <3>4 DEF SendResult
    <3>6. Answer(buffer'[n], k) BY <2>0, <3>2, <3>3, <3>5, AnswerGrows
    <3>7. CASE last
      <4>1. call'[n].st = "eof" BY <2>3, <3>7 DEF SendResult, CallRec
      <4>2. RelayInv(n)' BY <1>a, <2>0, <2>r, <3>1, <4>1 DEF RelayInv
      <4>3. BufferInv(n)' BY <1>a, <3>2, <3>5, <3>6, <4>1 DEF BufferInv
      <4>4. ReplyInv(n)' BY <1>a, <2>r, <3>1 DEF JobInv, ReplyInv
      <4> QED BY <4>2, <4>3, <4>4 DEF JobInv
    <3>8. CASE ~ last
      <4>1. call'[n].st = "running" /\ call'[n].kind = "job" /\ call'[n].arg = call[n].arg - 1
        BY <2>3, <3>1, <3>8 DEF SendResult, CallRec
      <4>2. RelayInv(n)' BY <1>a, <2>0, <2>r, <3>1, <3>2, <3>5, <4>1 DEF RelayInv
      <4>3. ResultAt(Len(b) + 1, k) = "part" BY <2>0, <3>3, <3>8 DEF ResultAt
      <4>4. Only(buffer'[n], "part") BY <2>0, <3>2, <3>3, <3>5, <4>3, AnswerGrows
      <4>5. Len(buffer'[n]) = Len(b) + 1 BY <3>5
      <4>a. \A x, y \in Nat : ~ (x <= 1) => x - 1 > 0 /\ (x - 1) + (y + 1) = x + y OBVIOUS
      <4>6. call'[n].arg > 0 /\ call'[n].arg + Len(buffer'[n]) = k
        BY <2>0, <3>2, <3>8, <4>1, <4>5, <4>a
      <4>7. BufferInv(n)' BY <1>a, <3>2, <3>5, <3>6, <4>4, <4>6 DEF BufferInv
      <4>8. ReplyInv(n)' BY <1>a, <2>r, <3>1 DEF JobInv, ReplyInv
      <4> QED BY <4>2, <4>7, <4>8 DEF JobInv
    <3> QED BY <3>7, <3>8
  <2>4. CASE ApplyUpdate(n)
    BY <2>4 DEF ApplyUpdate, StartInv
  <2> QED BY <1>2, <2>1, <2>2, <2>3, <2>4 DEF HandlerStep
<1> QED BY <1>1, <1>2

\* A call that ends with its buffer as it is, or with a message cut off, keeps
\* the invariant.
LEMMA JobEnds ==
  ASSUME TypeOK, NEW n \in Conn, JobInv(n), UNCHANGED <<pc, msg, packet, reply, runs>>,
         call[n].st \in {"sent", "running"}, call'[n].st \in {"eof", "reset"},
         \/ buffer'[n] = buffer[n]
         \/ buffer'[n] = Append(buffer[n], "fragment") /\ call[n].st = "running"
  PROVE  JobInv(n)'
<1>1. buffer[n] \in Seq(Msg) /\ msg[n].parts \in Nat /\ Len(buffer[n]) \in Nat
  BY DEF TypeOK, WorkerTypeOK, ConnTypeOK, Request
<1>2. pc[n] = "relay" /\ packet[n] = "empty" /\ msg[n].parts > 0 BY DEF JobInv, RelayInv
<1>3. RelayInv(n)' BY <1>2 DEF RelayInv
<1>4. ReplyInv(n)' BY <1>2 DEF JobInv, ReplyInv
<1>5. CASE buffer'[n] = buffer[n]
  <2>1. BufferInv(n)' BY <1>5 DEF JobInv, BufferInv, Answer, Only, ResultAt
  <2> QED BY <1>3, <1>4, <2>1 DEF JobInv
<1>6. CASE buffer'[n] = Append(buffer[n], "fragment") /\ call[n].st = "running"
  <2>1. /\ runs[n] > 0 /\ call[n].arg > 0 /\ call[n].arg + Len(buffer[n]) = msg[n].parts
        /\ Only(buffer[n], "part")
    BY <1>6 DEF JobInv, RelayInv, BufferInv
  <2>2. call[n].arg \in Nat BY DEF TypeOK, WorkerTypeOK, CallRec, CallId
  <2>3. Len(buffer[n]) < msg[n].parts BY <1>1, <2>1, <2>2
  <2>4. Answer(buffer'[n], msg[n].parts) BY <1>1, <1>6, <2>1, <2>3, AnswerGrows
  <2>5. BufferInv(n)' BY <2>1, <2>4 DEF BufferInv
  <2> QED BY <1>3, <1>4, <2>5 DEF JobInv
<1> QED BY <1>5, <1>6

\* Faults keep the invariant.
LEMMA JobFaults ==
  ASSUME TypeOK, NEW n \in Conn, JobInv(n), FaultStep, UNCHANGED connVars
  PROVE  JobInv(n)'
<1> USE DEF TypeOK, WorkerTypeOK
<1>0. n \in CallId /\ call[n] \in CallRec BY DEF CallId
<1>a. UNCHANGED <<pc, msg, packet, reply>> BY DEF connVars
<1>1. ASSUME NEW w, NEW atEof, NEW cut, Crash(w, atEof, cut) PROVE JobInv(n)'
  <2> DEFINE mine == call[n].to = w /\ call[n].st \in {"sent", "running"}
  <2>0. UNCHANGED runs BY <1>1 DEF Crash
  <2>1. CASE ~ mine
    <3>1. call'[n] = call[n] /\ buffer'[n] = buffer[n] BY <1>0, <1>1, <2>1 DEF Crash
    <3> QED BY <1>a, <2>0, <3>1, JobFrame
  <2>2. CASE mine
    <3>1. call'[n].st \in {"eof", "reset"} BY <1>0, <1>1, <2>2 DEF Crash, CallRec
    <3>2. \/ buffer'[n] = buffer[n]
          \/ buffer'[n] = Append(buffer[n], "fragment") /\ call[n].st = "running"
      BY <1>1 DEF Crash
    <3> QED BY <1>a, <2>0, <2>2, <3>1, <3>2, JobEnds
  <2> QED BY <2>1, <2>2
<1>2. ASSUME NEW w, Restart(w) PROVE JobInv(n)'
  BY <1>2, <1>a, JobFrame DEF Restart
<1>3. ASSUME NEW id \in CallId, BreakConnection(id) PROVE JobInv(n)'
  <2>0. UNCHANGED <<runs, buffer>> BY <1>3 DEF BreakConnection
  <2>1. CASE id # n
    <3>1. call'[n] = call[n] BY <1>0, <1>3, <2>1 DEF BreakConnection
    <3> QED BY <1>a, <2>0, <3>1, JobFrame
  <2>2. CASE id = n
    <3>1. call[n].st \in {"sent", "running"} /\ call'[n].st = "reset"
      BY <1>0, <1>3, <2>2 DEF BreakConnection, CallRec
    <3> QED BY <1>a, <2>0, <3>1, JobEnds
  <2> QED BY <2>1, <2>2
<1> QED BY <1>1, <1>2, <1>3 DEF FaultStep

-----------------------------------------------------------------------------
(* Steps of the balancer.                                                  *)

\* A connection is not touched by the thread of another one.
LEMMA JobOthers ==
  ASSUME TypeOK, NEW n \in Conn, NEW m \in Conn, m # n, ConnStep(m)
  PROVE  /\ call'[n] = call[n] /\ buffer'[n] = buffer[n] /\ runs'[n] = runs[n]
         /\ packet'[n] = packet[n] /\ msg'[n] = msg[n] /\ reply'[n] = reply[n]
         /\ pc'[n] = pc[n]
<1> USE DEF TypeOK, WorkerTypeOK, ConnTypeOK, Goto, workerVars
<1>0. n \in CallId /\ n \notin queue BY DstWorkerAssumption DEF CallId, BalancerTypeOK
<1>1. CASE Accept(m) \/ ReadError(m) \/ NoWorkers(m) \/ AnswerAddress(m) \/ PickWorker(m)
  BY <1>1 DEF Accept, ReadError, NoWorkers, AnswerAddress, PickWorker
<1>2. CASE RelayRefused(m) \/ RelayPunish(m) \/ RelayRetry(m)
  BY <1>2 DEF RelayRefused, RelayPunish, RelayRetry
<1>3. CASE RelaySend(m) \/ RelayEof(m) \/ RelayReset(m)
  BY <1>0, <1>3 DEF RelaySend, RelayEof, RelayReset
<1>4. CASE BroadcastBegin(m) BY <1>0, <1>4 DEF BroadcastBegin
<1>5. CASE BroadcastEnd(m) BY <1>0, <1>5 DEF BroadcastEnd
<1> QED BY <1>1, <1>2, <1>3, <1>4, <1>5 DEF ConnStep

\* A step that only answers and closes keeps the invariant.
LEMMA JobCloses ==
  ASSUME NEW n \in Conn, JobInv(n), pc[n] \notin {"relay", "closed"}, pc'[n] = "closed",
         call'[n] = call[n], buffer'[n] = buffer[n], runs'[n] = runs[n],
         packet'[n] = packet[n], msg'[n] = msg[n],
         \/ reply'[n] = <<"error">>
         \/ msg[n].op # "job" /\ reply'[n] \in {<<"address">>, <<"success">>}
  PROVE  JobInv(n)'
<1>1. RelayInv(n)' BY DEF JobInv, RelayInv
<1>2. BufferInv(n)' BY DEF JobInv, BufferInv, Answer, Only, ResultAt
<1>3. ReplyInv(n)' BY DEF ReplyInv
<1> QED BY <1>1, <1>2, <1>3 DEF JobInv

\* Writing the packet to a worker: a whole packet meets an empty buffer.
LEMMA JobSent ==
  ASSUME TypeOK, NEW n \in Conn, JobInv(n), RelaySend(n)
  PROVE  JobInv(n)'
<1> USE DEF TypeOK, WorkerTypeOK, ConnTypeOK
<1>0. n \in CallId BY DEF CallId
<1>1. /\ pc[n] = "connect" /\ pc'[n] = "relay" /\ packet'[n] = "empty" /\ call'[n] = Sent(n)
      /\ buffer'[n] = buffer[n] /\ runs'[n] = runs[n] /\ msg'[n] = msg[n] /\ reply'[n] = reply[n]
  BY <1>0 DEF RelaySend, Goto, Consumed
<1>2. msg[n].parts \in Nat /\ msg[n].parts > 0 BY DEF Request, JobInv, RelayInv
<1>3. /\ call'[n].st = "sent"
      /\ packet[n] = "whole" => call'[n].kind = "job" /\ call'[n].arg = msg[n].parts
      /\ packet[n] = "tail" => call'[n].kind = "tail"
      /\ packet[n] = "empty" => call'[n].kind = "nothing"
  BY <1>1 DEF Sent, Call
<1>4. packet[n] \in {"whole", "tail", "empty"} OBVIOUS
<1>5. packet[n] # "empty" => buffer[n] = <<>> BY DEF JobInv, RelayInv
<1>6. RelayInv(n)' BY <1>1, <1>2, <1>3, <1>4, <1>5 DEF RelayInv
<1>7. BufferInv(n)'
  <2>1. ASSUME call'[n].kind = "job"
        PROVE  /\ call'[n].arg > 0 /\ call'[n].arg + Len(buffer'[n]) = msg'[n].parts
               /\ Only(buffer'[n], "part")
    <3>1. buffer'[n] = <<>> /\ call'[n].arg = msg[n].parts BY <1>1, <1>3, <1>4, <1>5, <2>1
    <3>2. Len(<<>>) = 0 OBVIOUS
    <3>3. Only(<<>>, "part") BY <3>2 DEF Only
    <3> QED BY <1>1, <1>2, <3>1, <3>2, <3>3
  <2>2. Answer(buffer'[n], msg'[n].parts) BY <1>1 DEF JobInv, BufferInv
  <2>3. runs'[n] > 0 \/ Only(buffer'[n], "zero") BY <1>1 DEF JobInv, BufferInv
  <2> QED BY <2>1, <2>2, <2>3 DEF BufferInv
<1>8. ReplyInv(n)' BY <1>1 DEF JobInv, ReplyInv
<1> QED BY <1>6, <1>7, <1>8 DEF JobInv

\* The read from the worker ends: the call is over, the buffer stays.
LEMMA JobRead ==
  ASSUME TypeOK, NEW n \in Conn, JobInv(n), RelayEof(n) \/ RelayReset(n)
  PROVE  JobInv(n)'
<1> USE DEF TypeOK, WorkerTypeOK, ConnTypeOK
<1>0. n \in CallId BY DEF CallId
<1>1. /\ pc[n] = "relay" /\ pc'[n] \in {"closed", "failed"} /\ call'[n].st = "idle"
      /\ buffer'[n] = buffer[n] /\ runs'[n] = runs[n] /\ msg'[n] = msg[n] /\ packet'[n] = packet[n]
      /\ reply'[n] = reply[n] \/ (pc'[n] = "closed" /\ reply'[n] = buffer[n])
  BY <1>0 DEF RelayEof, RelayReset, Goto, NoCall
<1>2. RelayInv(n)' BY <1>1 DEF JobInv, RelayInv
<1>3. BufferInv(n)' BY <1>1 DEF JobInv, BufferInv, Answer, Only, ResultAt
<1>4. ReplyInv(n)' BY <1>1 DEF JobInv, ReplyInv
<1> QED BY <1>2, <1>3, <1>4 DEF JobInv

\* The threads of the connections keep the invariant.
LEMMA JobConnections ==
  ASSUME TypeOK, NEW n \in Conn, JobInv(n), NEW m \in Conn, ConnStep(m)
  PROVE  JobInv(n)'
<1>1. CASE m # n BY <1>1, JobOthers, JobFrame
<1>2. CASE m = n
  <2> USE <1>2 DEF TypeOK, WorkerTypeOK, ConnTypeOK, Goto, workerVars
  <2>0. n \in CallId /\ n \notin queue BY DstWorkerAssumption DEF CallId, BalancerTypeOK
  <2>1. CASE Accept(n) \/ ReadError(n) \/ NoWorkers(n) \/ PickWorker(n)
    BY <2>1, JobFrame DEF Accept, ReadError, NoWorkers, PickWorker
  <2>2. CASE RelayRefused(n) \/ RelayRetry(n)
    BY <2>2, JobFrame DEF RelayRefused, RelayRetry
  <2>3. CASE BroadcastBegin(n)
    <3>1. call'[n] = call[n] BY <2>0, <2>3 DEF BroadcastBegin
    <3> QED BY <2>3, <3>1, JobFrame DEF BroadcastBegin
  <2>4. CASE AnswerAddress(n)
    BY <2>4, JobCloses DEF AnswerAddress
  <2>5. CASE BroadcastEnd(n)
    <3>1. call'[n] = call[n] BY <2>0, <2>5 DEF BroadcastEnd
    <3>2. msg[n].op = "broadcast" BY <2>5 DEF BroadcastEnd, JobInv, RelayInv
    <3>3. reply'[n] \in {<<"error">>, <<"success">>} BY <2>5 DEF BroadcastEnd
    <3> QED BY <2>5, <3>1, <3>2, <3>3, JobCloses DEF BroadcastEnd
  <2>6. CASE RelayPunish(n)
    <3>1. /\ pc[n] = "failed" /\ pc'[n] \in {"closed", "retry"}
          /\ UNCHANGED <<call, buffer, runs, packet, msg>>
      BY <2>6 DEF RelayPunish
    <3>2. CASE TrialsUsedUp(n)
      <4>1. pc'[n] = "closed" /\ reply'[n] = <<"error">> BY <2>6, <3>2 DEF RelayPunish
      <4> QED BY <3>1, <4>1, JobCloses
    <3>3. CASE ~ TrialsUsedUp(n)
      <4>1. UNCHANGED reply BY <2>6, <3>3 DEF RelayPunish
      <4> QED BY <3>1, <4>1, JobFrame
    <3> QED BY <3>2, <3>3
  <2>7. CASE RelaySend(n) BY <2>7, JobSent
  <2>8. CASE RelayEof(n) \/ RelayReset(n) BY <2>8, JobRead
  <2> QED BY <1>2, <2>1, <2>2, <2>3, <2>4, <2>5, <2>6, <2>7, <2>8 DEF ConnStep
<1> QED BY <1>1, <1>2

\* A connection that breaks while the packet is written keeps the invariant.
LEMMA JobWriteError ==
  ASSUME TypeOK, NEW n \in Conn, JobInv(n), NEW m \in Conn, NEW left, RelayWriteError(m, left)
  PROVE  JobInv(n)'
<1> USE DEF TypeOK, WorkerTypeOK, ConnTypeOK
<1>0. UNCHANGED <<call, buffer, runs, msg, reply>> BY DEF RelayWriteError
<1>1. CASE m # n
  BY <1>0, <1>1, JobFrame DEF RelayWriteError, Goto
<1>2. CASE m = n
  <2>1. pc[n] = "connect" /\ pc'[n] = "failed" /\ packet[n] # "empty"
    BY <1>2 DEF RelayWriteError, Goto
  <2>2. buffer[n] = <<>> /\ call[n].st = "idle" BY <2>1 DEF JobInv, RelayInv
  <2>3. RelayInv(n)' BY <1>0, <2>1, <2>2 DEF JobInv, RelayInv
  <2>4. BufferInv(n)' BY <1>0, <2>2 DEF JobInv, BufferInv, Answer, Only, ResultAt
  <2>5. ReplyInv(n)' BY <1>0, <2>1 DEF JobInv, ReplyInv
  <2> QED BY <2>3, <2>4, <2>5 DEF JobInv
<1> QED BY <1>1, <1>2

-----------------------------------------------------------------------------
(* All steps, for the connections.                                         *)

\* A client's step, with or without a fault, keeps the invariant of a connection:
\* the one it opens is fresh.
LEMMA JobClients ==
  ASSUME TypeOK, NEW n \in Conn, JobInv(n), NEW c \in Client, ClientStep(c) \/ ClientFault(c)
  PROVE  JobInv(n)'
<1> USE DEF TypeOK, ConnTypeOK, connVars, workerVars
<1>1. CASE ReadMsg(c) \/ ConnectFailed(c) \/ ReadMsgFailed(c)
  BY <1>1, JobFrame DEF ReadMsg, ConnectFailed, ReadMsgFailed
<1>2. ASSUME NEW m \in Conn, SendMsgFailed(c, m) PROVE JobInv(n)'
  BY <1>2, JobFrame DEF SendMsgFailed, Goto
<1>3. ASSUME NEW m \in Conn, SendMsg(c, m) PROVE JobInv(n)'
  <2>0. UNCHANGED <<call, buffer, runs, packet, reply>> BY <1>3 DEF SendMsg
  <2>1. CASE m # n BY <1>3, <2>0, <2>1, JobFrame DEF SendMsg, Goto
  <2>2. CASE m = n
    <3>1. pc[n] = "free" /\ pc'[n] = "sending" /\ msg'[n] = RequestOf(c)
      BY <1>3, <2>2 DEF SendMsg, Goto
    <3>2. /\ packet[n] = "whole" /\ call[n].st = "idle" /\ buffer[n] = <<>> /\ reply[n] = <<>>
      BY <3>1 DEF JobInv, RelayInv, ReplyInv
    <3>3. msg'[n].parts \in Nat /\ msg'[n].parts > 0
      BY <3>1, DistributedAssumption DEF RequestOf
    <3>4. RelayInv(n)' BY <2>0, <3>1, <3>2, <3>3 DEF RelayInv
    <3>5. BufferInv(n)' BY <2>0, <3>2, <3>3, AnswerEmpty DEF BufferInv
    <3>6. ReplyInv(n)' BY <2>0, <3>2 DEF ReplyInv
    <3> QED BY <3>4, <3>5, <3>6 DEF JobInv
  <2> QED BY <2>1, <2>2
<1> QED BY <1>1, <1>2, <1>3 DEF ClientStep, ClientFault

\* The discovery thread and the broadcast pool touch no relay.
LEMMA JobElsewhere ==
  ASSUME TypeOK, NEW n \in Conn, AddThread \/ Resolve \/ \E e \in Entry : PoolTask(e)
  PROVE  call'[n] = call[n] /\ UNCHANGED <<buffer, runs, connVars>>
<1> USE DEF TypeOK, WorkerTypeOK, workerVars
<1>0. n \in CallId /\ n \notin Entry /\ n # LookUp BY DstWorkerAssumption DEF CallId
<1>1. CASE \E e \in Entry : PoolTask(e)
  BY <1>0, <1>1 DEF PoolTask, BroadcastSend
<1>2. CASE Resolve BY <1>2 DEF Resolve, LookUpWorkers
<1>3. CASE AddThread
  <2>0. UNCHANGED connVars BY <1>3 DEF AddThread
  <2>1. CASE AddWorkerDone \/ \E e \in Entry : AddWorkerLock(e)
    BY <2>0, <2>1 DEF AddWorkerDone, AddWorkerLock
  <2>2. CASE ReplayNext BY <1>0, <2>0, <2>2 DEF ReplayNext
  <2>3. CASE ReplayEof \/ ReplayFailed BY <1>0, <2>0, <2>3 DEF ReplayEof, ReplayFailed
  <2> QED BY <1>3, <2>1, <2>2, <2>3 DEF AddThread, AddWorkerStep
<1> QED BY <1>1, <1>2, <1>3

\* Every step keeps the invariant of a connection.
LEMMA JobNext ==
  ASSUME TypeOK, NEW n \in Conn, StartInv(n), JobInv(n), [Next]_vars
  PROVE  JobInv(n)'
<1>1. ASSUME NEW c \in Client, ClientStep(c) \/ ClientFault(c) PROVE JobInv(n)'
  BY <1>1, JobClients
<1>2. ASSUME NEW m \in Conn, ConnThread(m) PROVE JobInv(n)'
  BY <1>2, JobConnections DEF ConnThread
<1>3. CASE AddThread \/ Resolve \/ \E e \in Entry : PoolTask(e)
  BY <1>3, JobElsewhere, JobFrame DEF connVars
<1>4. ASSUME NEW id \in CallId, Handler(id) PROVE JobInv(n)'
  BY <1>4, JobHandlers DEF Handler
<1>5. CASE FaultStep /\ UNCHANGED <<clientVars, connVars, balancerVars>>
  BY <1>5, JobFaults
<1>6. ASSUME NEW m \in Conn, NEW left \in {"whole", "tail"}, RelayWriteError(m, left)
      PROVE  JobInv(n)'
  BY <1>6, JobWriteError
<1>7. CASE UNCHANGED vars
  BY <1>7, JobFrame DEF vars, connVars, workerVars
<1> QED BY <1>1, <1>2, <1>3, <1>4, <1>5, <1>6, <1>7 DEF Next, Fault, RelayFault

\* The invariant of a connection holds in the initial states.
LEMMA JobInit == ASSUME Init, NEW n \in Conn PROVE JobInv(n)
<1> USE DEF Init, ConnInit, WorkerInit
<1>1. /\ pc[n] = "free" /\ packet[n] = "whole" /\ call[n].st = "idle" /\ buffer[n] = <<>>
      /\ reply[n] = <<>> /\ msg[n].parts = 1
  BY DEF CallId, NoCall, NoRequest
<1>2. RelayInv(n) BY <1>1 DEF RelayInv
<1>3. BufferInv(n) BY <1>1, AnswerEmpty DEF BufferInv
<1>4. ReplyInv(n) BY <1>1 DEF ReplyInv
<1> QED BY <1>2, <1>3, <1>4 DEF JobInv

-----------------------------------------------------------------------------
(* The clients.                                                            *)

\* A connection that is taken keeps its request, and one that is closed also what
\* it received.
Stays(n) ==
  /\ pc[n] # "free" => pc'[n] # "free" /\ msg'[n] = msg[n]
  /\ pc[n] = "closed" => pc'[n] = "closed" /\ runs'[n] = runs[n] /\ buffer'[n] = buffer[n]

\* No step takes anything from such a connection.
LEMMA ConnectionStays ==
  ASSUME TypeOK, NEW n \in Conn, JobInv(n), [Next]_vars
  PROVE  Stays(n)
<1> USE DEF TypeOK, ConnTypeOK, WorkerTypeOK, connVars, workerVars, Goto
<1>0. n \in CallId BY DEF CallId
<1>1. ASSUME NEW c \in Client, ClientStep(c) \/ ClientFault(c) PROVE Stays(n)
  <2>1. CASE ReadMsg(c) \/ ConnectFailed(c) \/ ReadMsgFailed(c)
    BY <2>1 DEF ReadMsg, ConnectFailed, ReadMsgFailed, Stays
  <2>2. ASSUME NEW m \in Conn, SendMsgFailed(c, m) \/ SendMsg(c, m) PROVE Stays(n)
    BY <2>2 DEF SendMsgFailed, SendMsg, Stays
  <2> QED BY <1>1, <2>1, <2>2 DEF ClientStep, ClientFault
<1>2. ASSUME NEW m \in Conn, ConnStep(m) PROVE Stays(n)
  <2>1. CASE m # n BY <1>2, <2>1, JobOthers DEF Stays
  <2>2. CASE m = n
    <3>1. pc[n] # "closed" /\ pc'[n] # "free" /\ msg'[n] = msg[n]
      <4>1. CASE Accept(n) \/ ReadError(n) \/ NoWorkers(n) \/ AnswerAddress(n) \/ PickWorker(n)
        BY <4>1 DEF Accept, ReadError, NoWorkers, AnswerAddress, PickWorker
      <4>2. CASE RelayRefused(n) \/ RelayPunish(n) \/ RelayRetry(n)
        BY <4>2 DEF RelayRefused, RelayPunish, RelayRetry
      <4>3. CASE RelaySend(n) \/ RelayEof(n) \/ RelayReset(n)
        BY <4>3 DEF RelaySend, RelayEof, RelayReset
      <4>4. CASE BroadcastBegin(n) \/ BroadcastEnd(n)
        BY <4>4 DEF BroadcastBegin, BroadcastEnd
      <4> QED BY <1>2, <2>2, <4>1, <4>2, <4>3, <4>4 DEF ConnStep
    <3> QED BY <3>1 DEF Stays
  <2> QED BY <2>1, <2>2
<1>3. CASE AddThread \/ Resolve \/ \E e \in Entry : PoolTask(e)
  BY <1>3, JobElsewhere DEF Stays
<1>4. ASSUME NEW id \in CallId, Handler(id) PROVE Stays(n)
  <2>1. UNCHANGED <<pc, msg>> /\ HandlerStep(id) BY <1>4 DEF Handler
  <2>2. CASE id = n
    <3>1. pc[n] # "closed"
      BY <2>1, <2>2 DEF JobInv, RelayInv, HandlerStep, RejectPacket, StartHandler, SendResult,
                        ApplyUpdate
    <3> QED BY <2>1, <3>1 DEF Stays
  <2>3. CASE id # n
    <3>1. runs'[n] = runs[n] /\ buffer'[n] = buffer[n]
      BY <2>1, <2>3 DEF HandlerStep, RejectPacket, StartHandler, SendResult, ApplyUpdate
    <3> QED BY <2>1, <3>1 DEF Stays
  <2> QED BY <2>2, <2>3
<1>5. CASE FaultStep /\ UNCHANGED <<clientVars, connVars, balancerVars>>
  <2>1. UNCHANGED <<runs, pc, msg>>
    BY <1>5 DEF FaultStep, Crash, Restart, BreakConnection
  <2>2. buffer'[n] = buffer[n] \/ call[n].st = "running"
    BY <1>5 DEF FaultStep, Crash, Restart, BreakConnection
  <2>3. call[n].st = "running" => pc[n] # "closed" BY DEF JobInv, RelayInv
  <2> QED BY <2>1, <2>2, <2>3 DEF Stays
<1>6. ASSUME NEW m \in Conn, NEW left \in {"whole", "tail"}, RelayWriteError(m, left)
      PROVE  Stays(n)
  BY <1>6 DEF RelayWriteError, Stays
<1>7. CASE UNCHANGED vars
  BY <1>7 DEF vars, Stays
<1> QED BY <1>1, <1>2, <1>3, <1>4, <1>5, <1>6, <1>7
     DEF Next, Fault, RelayFault, ConnThread

\* A step that leaves the call of client c alone keeps its invariant.
LEMMA ClientFrame ==
  ASSUME TypeOK, NEW c \in Client, ClientInv(c), \A n \in Conn : Stays(n),
         state'[c] = state[c], conn'[c] = conn[c], ok'[c] = ok[c],
         result'[c] = result[c], descs'[c] = descs[c]
  PROVE  ClientInv(c)'
<1>1. state[c] = "waiting" => conn[c] \in Conn BY DEF TypeOK, ClientTypeOK
<1>2. state'[c] = "waiting" => msg'[conn'[c]] = RequestOf(c) /\ pc'[conn'[c]] # "free"
  BY <1>1 DEF ClientInv, Stays
<1>3. ASSUME ok'[c], result'[c] = "kSuccess", CallOf[c] = "single"
      PROVE  \E n \in Conn : /\ pc'[n] = "closed" /\ msg'[n].from = c
                             /\ runs'[n] > 0 /\ buffer'[n] = <<"final">>
  <2>1. PICK n \in Conn : /\ pc[n] = "closed" /\ msg[n].from = c
                          /\ runs[n] > 0 /\ buffer[n] = <<"final">>
    BY <1>3 DEF ClientInv
  <2> QED BY <2>1 DEF Stays
<1> QED BY <1>2, <1>3 DEF ClientInv, ResultAt

\* The messages getNextMsg splits an answer into are the results in order: what
\* has no end is dropped.
LEMMA SplitAnswer ==
  ASSUME NEW answer \in Seq(Msg), answer # <<>>, NEW k \in Nat, Answer(answer, k)
  PROVE  \A i \in 1 .. Len(Split(answer)) : Split(answer)[i] = ResultAt(i, k)
<1> DEFINE l == Len(answer)
<1>1. l \in Nat /\ l > 0 OBVIOUS
<1>2. CASE Parses(answer[l])
  <2>1. Split(answer) = answer BY <1>2 DEF Split
  <2>2. answer[l] \notin {"fragment", "zero"} BY <1>2 DEF Parses
  <2> QED BY <2>1, <2>2 DEF Answer
<1>3. CASE ~ Parses(answer[l])
  <2>1. Split(answer) = SubSeq(answer, 1, l - 1) BY <1>3 DEF Split
  <2>2. Len(SubSeq(answer, 1, l - 1)) = l - 1
    <3>1. l - 1 \in Nat /\ 1 .. (l - 1) \subseteq 1 .. l BY <1>1
    <3>2. \A j \in Nat : 1 .. j \subseteq 1 .. l => Len(SubSeq(answer, 1, j)) = j
      OBVIOUS
    <3> QED BY <3>1, <3>2
  <2>3. \A i \in 1 .. (l - 1) : SubSeq(answer, 1, l - 1)[i] = answer[i] BY <1>1
  <2>4. \A i \in 1 .. (l - 1) : i \in 1 .. l /\ i # l BY <1>1
  <2>5. \A i \in 1 .. (l - 1) : answer[i] = ResultAt(i, k) BY <2>4 DEF Answer
  <2> HIDE DEF l
  <2> QED BY <2>1, <2>2, <2>3, <2>5
<1> QED BY <1>2, <1>3

\* The answer of a connection to the request of a job is nothing, what the
\* relay received, or the balancer's error.
LEMMA JobReply ==
  ASSUME TypeOK, NEW c \in Client, ClientInv(c), \A n \in Conn : JobInv(n), ReadMsg(c),
         CallOf[c] \in {"single", "multi"}
  PROVE  LET n == conn[c] IN
         /\ n \in Conn /\ pc[n] = "closed" /\ msg[n] = RequestOf(c)
         /\ reply[n] \in {<<>>, buffer[n], <<"error">>}
<1>1. conn[c] \in Conn /\ pc[conn[c]] = "closed" BY DEF ReadMsg, TypeOK, ClientTypeOK
<1>2. msg[conn[c]] = RequestOf(c) BY DEF ReadMsg, ClientInv
<1>3. msg[conn[c]].op = "job" BY <1>2 DEF RequestOf
<1>4. ReplyInv(conn[c]) BY <1>1 DEF JobInv
<1> QED BY <1>1, <1>2, <1>3, <1>4 DEF ReplyInv

\* A client that is given an answer keeps its invariant.
LEMMA ClientReturns ==
  ASSUME TypeOK, NEW c \in Client, ClientInv(c), \A n \in Conn : JobInv(n), ReadMsg(c),
         \A n \in Conn : Stays(n), Usable(c, reply[conn[c]])
  PROVE  ClientInv(c)'
<1> DEFINE n == conn[c]
           answer == reply[n]
<1> USE DEF TypeOK, ClientTypeOK
<1>1. n \in Conn /\ answer \in Seq(Msg) /\ answer # <<>>
  BY DEF ReadMsg, ConnTypeOK, Usable
<1>2. ReturnResult(c, answer) BY DEF ReadMsg
<1>3. state'[c] = "done" BY <1>2 DEF ReturnResult
<1>4. descs[c] = <<>> BY DEF ReadMsg, ClientInv
<1>b. buffer[n] \in Seq(Msg) BY <1>1 DEF WorkerTypeOK
<1>5. ASSUME CallOf[c] = "multi"
      PROVE  \/ descs'[c] = <<"error">>
             \/ \A i \in 1 .. Len(descs'[c]) : descs'[c][i] = ResultAt(i, RouteParts)
  <2>1. descs'[c] = Split(answer)
    <3>1. descs'[c] = descs[c] \o Split(answer) BY <1>2, <1>5 DEF ReturnResult
    <3>2. Split(answer) \in Seq(Msg) BY <1>1, ResultType
    <3> QED BY <1>4, <3>1, <3>2
  <2>2. answer \in {buffer[n], <<"error">>} /\ msg[n] = RequestOf(c)
    BY <1>1, <1>5, JobReply
  <2>3. CASE answer = <<"error">>
    <3>1. Len(<<"error">>) = 1 /\ <<"error">>[1] = "error" OBVIOUS
    <3>2. Split(<<"error">>) = <<"error">> BY <3>1 DEF Split, Parses
    <3> QED BY <2>1, <2>3, <3>2
  <2>4. CASE answer = buffer[n]
    <3>1. msg[n].parts = RouteParts BY <1>5, <2>2 DEF RequestOf
    <3>2. Answer(answer, RouteParts) BY <1>1, <2>4, <3>1 DEF JobInv, BufferInv
    <3>3. RouteParts \in Nat BY DistributedAssumption
    <3> QED BY <1>1, <2>1, <3>2, <3>3, SplitAnswer
  <2> QED BY <2>2, <2>3, <2>4
<1>6. ASSUME result'[c] = "kSuccess", CallOf[c] = "single"
      PROVE  \E m \in Conn : /\ pc'[m] = "closed" /\ msg'[m].from = c
                             /\ runs'[m] > 0 /\ buffer'[m] = <<"final">>
  <2>1. /\ answer \in {buffer[n], <<"error">>} /\ pc[n] = "closed" /\ msg[n] = RequestOf(c)
    BY <1>1, <1>6, JobReply
  <2>2. result'[c] = JobType(Head(answer)) BY <1>2, <1>6 DEF ReturnResult
  <2>3. answer # <<"error">>
    <3>1. Head(<<"error">>) = "error" OBVIOUS
    <3> QED BY <1>6, <2>2, <3>1 DEF JobType
  <2>4. answer = buffer[n] BY <2>1, <2>3
  <2>5. msg[n].parts = 1 /\ msg[n].from = c BY <1>6, <2>1 DEF RequestOf
  <2>6. Answer(answer, 1) BY <1>1, <2>4, <2>5 DEF JobInv, BufferInv
  <2>7. Len(answer) = 1
    <3>1. Len(answer) \in Nat /\ Len(answer) # 0 BY <1>1
    <3>2. Len(answer) <= 1 BY <2>6 DEF Answer
    <3>3. \A x \in Nat : x # 0 /\ x <= 1 => x = 1 OBVIOUS
    <3> QED BY <3>1, <3>2, <3>3
  <2>8. Head(answer) = answer[1] BY <1>1
  <2>9. answer[1] \notin {"fragment", "zero"} BY <1>6, <2>8 DEF Usable, Parses
  <2>10. 1 \in 1 .. Len(answer) BY <2>7
  <2>11. answer[1] = "final" BY <2>6, <2>9, <2>10 DEF Answer, ResultAt
  <2>12. answer = <<"final">> BY <1>1, <2>7, <2>11
  <2>13. runs[n] > 0
    BY <1>1, <2>4, <2>10, <2>11 DEF JobInv, BufferInv, Only
  <2>14. /\ pc'[n] = "closed" /\ msg'[n] = msg[n]
         /\ runs'[n] = runs[n] /\ buffer'[n] = buffer[n]
    BY <1>1, <2>1 DEF Stays
  <2>15. buffer'[n] = <<"final">> BY <2>4, <2>12, <2>14
  <2>16. msg'[n].from = c /\ runs'[n] > 0 BY <2>5, <2>13, <2>14
  <2> HIDE DEF n, answer
  <2> QED BY <1>1, <2>14, <2>15, <2>16
<1> QED BY <1>3, <1>5, <1>6 DEF ClientInv

\* A try that is over without an answer keeps the client's invariant.
LEMMA ClientGivesUp ==
  ASSUME TypeOK, NEW c \in Client, ClientInv(c), GiveUpTry(c), state[c] # "done"
  PROVE  ClientInv(c)'
<1>1. state'[c] \in {"idle", "done"} BY DEF GiveUpTry, TypeOK, ClientTypeOK
<1>2. ok'[c] = FALSE /\ descs'[c] = <<>> BY DEF GiveUpTry, ClientInv
<1> QED BY <1>1, <1>2 DEF ClientInv

\* A client's own steps keep its invariant.
LEMMA ClientOwn ==
  ASSUME TypeOK, NEW c \in Client, ClientInv(c), \A n \in Conn : JobInv(n),
         \A n \in Conn : Stays(n), ClientStep(c) \/ ClientFault(c)
  PROVE  ClientInv(c)'
<1> USE DEF TypeOK, ClientTypeOK
<1>1. CASE ReadMsg(c)
  <2>1. CASE Usable(c, reply[conn[c]]) BY <1>1, <2>1, ClientReturns
  <2>2. CASE ~ Usable(c, reply[conn[c]])
    <3>1. GiveUpTry(c) /\ state[c] = "waiting" BY <1>1, <2>2 DEF ReadMsg
    <3> QED BY <3>1, ClientGivesUp
  <2> QED BY <2>1, <2>2
<1>2. ASSUME NEW n \in Conn, SendMsg(c, n) PROVE ClientInv(c)'
  <2>1. /\ state[c] = "idle" /\ state'[c] = "waiting" /\ conn'[c] = n
        /\ msg'[n] = RequestOf(c) /\ pc'[n] = "sending"
        /\ UNCHANGED <<ok, result, descs>>
    BY <1>2 DEF SendMsg, Goto, ConnTypeOK
  <2>2. ok'[c] = FALSE /\ descs'[c] = <<>> BY <2>1 DEF ClientInv
  <2> QED BY <2>1, <2>2 DEF ClientInv
<1>3. CASE ConnectFailed(c)
  <2>1. CASE CallOf[c] = "multi"
    <3>1. state[c] = "idle" /\ state'[c] = "done" /\ UNCHANGED <<ok, result, descs>>
      BY <1>3, <2>1 DEF ConnectFailed
    <3>2. ok'[c] = FALSE BY <3>1 DEF ClientInv
    <3> QED BY <3>1, <3>2 DEF ClientInv
  <2>2. CASE CallOf[c] # "multi"
    BY <1>3, <2>2, ClientGivesUp DEF ConnectFailed
  <2> QED BY <2>1, <2>2
<1>4. CASE ReadMsgFailed(c) BY <1>4, ClientGivesUp DEF ReadMsgFailed
<1>5. ASSUME NEW n \in Conn, SendMsgFailed(c, n) PROVE ClientInv(c)'
  BY <1>5, ClientGivesUp DEF SendMsgFailed
<1> QED BY <1>1, <1>2, <1>3, <1>4, <1>5 DEF ClientStep, ClientFault

\* No step of another client touches a client's call.
LEMMA ClientOthers ==
  ASSUME TypeOK, NEW c \in Client, NEW d \in Client, d # c, ClientStep(d) \/ ClientFault(d)
  PROVE  /\ state'[c] = state[c] /\ conn'[c] = conn[c] /\ ok'[c] = ok[c]
         /\ result'[c] = result[c] /\ descs'[c] = descs[c]
<1> USE DEF TypeOK, ClientTypeOK
<1>1. CASE ReadMsg(d) BY <1>1 DEF ReadMsg, ReturnResult, GiveUpTry
<1>2. CASE ConnectFailed(d) \/ ReadMsgFailed(d)
  BY <1>2 DEF ConnectFailed, ReadMsgFailed, GiveUpTry
<1>3. ASSUME NEW n \in Conn, SendMsg(d, n) \/ SendMsgFailed(d, n)
      PROVE  /\ state'[c] = state[c] /\ conn'[c] = conn[c] /\ ok'[c] = ok[c]
             /\ result'[c] = result[c] /\ descs'[c] = descs[c]
  BY <1>3 DEF SendMsg, SendMsgFailed, GiveUpTry
<1> QED BY <1>1, <1>2, <1>3 DEF ClientStep, ClientFault

\* Every step keeps the invariant of a client.
LEMMA ClientNext ==
  ASSUME TypeOK, NEW c \in Client, ClientInv(c), \A n \in Conn : JobInv(n), [Next]_vars
  PROVE  ClientInv(c)'
<1>0. \A n \in Conn : Stays(n) BY ConnectionStays
<1>1. ASSUME NEW d \in Client, ClientStep(d) \/ ClientFault(d) PROVE ClientInv(c)'
  <2>1. CASE d = c BY <1>0, <1>1, <2>1, ClientOwn
  <2>2. CASE d # c BY <1>0, <1>1, <2>2, ClientOthers, ClientFrame
  <2> QED BY <2>1, <2>2
<1>2. CASE UNCHANGED clientVars
  BY <1>0, <1>2, ClientFrame DEF clientVars
<1> QED BY <1>1, <1>2
     DEF Next, Fault, RelayFault, ConnThread, PoolTask, Resolve, AddThread, Handler, vars

-----------------------------------------------------------------------------
(* The theorems.                                                           *)

\* The inductive invariant holds in every behaviour.
LEMMA ResultInvariant ==
  Spec => []((\A n \in Conn : JobInv(n)) /\ (\A c \in Client : ClientInv(c)))
<1> DEFINE SInv == \A n \in Conn : StartInv(n)
           JInv == \A n \in Conn : JobInv(n)
           CInv == \A c \in Client : ClientInv(c)
<1>1. Init => JInv BY JobInit
<1>2. Init => CInv BY DEF Init, ClientInit, ClientInv
<1>3. TypeOK /\ SInv /\ JInv /\ [Next]_vars => JInv' BY JobNext
<1>4. TypeOK /\ JInv /\ CInv /\ [Next]_vars => CInv' BY ClientNext
<1>5. Spec => []SInv BY StartInvariant
<1> HIDE DEF SInv, JInv, CInv
<1>6. Spec => [](JInv /\ CInv)
  BY <1>1, <1>2, <1>3, <1>4, <1>5, TypeCorrect, PTL DEF Spec
<1> QED BY <1>6 DEF JInv, CInv

\* What sendJobMultiResult collects are the results of one run of the job, in
\* order and none twice, or the balancer's error: for any number of result
\* messages, trials and retries, although the relay keeps its receive buffer when
\* it goes on to another worker (sendJobMultiResult, handle_read).
THEOREM ResultsAreOfOneRun == Spec => []ResultsOfOneRun
<1> DEFINE JInv == \A n \in Conn : JobInv(n)
           CInv == \A c \in Client : ClientInv(c)
<1>1. CInv => ResultsOfOneRun BY DEF ClientInv, ResultsOfOneRun, ResultAt
<1>2. Spec => [](JInv /\ CInv) BY ResultInvariant
<1> HIDE DEF JInv, CInv
<1> QED BY <1>1, <1>2, PTL

\* When sendJob returns with kSuccess a worker ran this job to its end: no
\* failure on the way is reported as a success (sendJob, readMsg, handle_read).
THEOREM SuccessesAreGenuine == Spec => []SuccessIsGenuine
<1> DEFINE JInv == \A n \in Conn : JobInv(n)
           CInv == \A c \in Client : ClientInv(c)
<1>1. CInv => SuccessIsGenuine BY DEF ClientInv, SuccessIsGenuine
<1>2. Spec => [](JInv /\ CInv) BY ResultInvariant
<1> HIDE DEF JInv, CInv
<1> QED BY <1>1, <1>2, PTL
=============================================================================
