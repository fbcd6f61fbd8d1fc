--------------------------- MODULE BroadcastProofs ---------------------------
(***************************************************************************)
(* Proofs about broadcasts and the balancer's queue: a worker in the queue *)
(* has the whole broadcast history, and every worker has applied it in     *)
(* order; healthy workers are not dropped, the load is even and the count  *)
(* of workers that a broadcast reports is exact; for any number of         *)
(* workers, clients and connections.                                       *)
(***************************************************************************)
EXTENDS DistributedProofs

-----------------------------------------------------------------------------
(* The inductive invariant.                                                *)

\* Worker w, unless a fault touched it, has the first k broadcasts.
UpTo(w, k) == w \notin faulty => 1 .. k \subseteq applied[w]

\* Who holds the mutex is where the code holds it.
MutexInv ==
  /\ mutex \notin Entry
  /\ mutex = LookUp <=> lookup \in {"replay", "wait"}
  /\ \A n \in Conn : mutex = n <=> pc[n] = "broadcast"

\* The task of entry e during a broadcast, and its history at all times.
TaskInv(e) ==
  /\ call[e].st # "idle" => e \in queue /\ mutex \in Conn
  /\ e \in queue /\ mutex \in Conn =>
       /\ call[e].st # "idle" /\ call[e].kind = "broadcast"
       /\ call[e].to = Addr[e] /\ call[e].arg = Len(broadcastData)
       /\ UpTo(Addr[e], Len(broadcastData) - 1)
       /\ call[e].st = "eof" => UpTo(Addr[e], Len(broadcastData))
  /\ e \in queue /\ mutex \notin Conn => UpTo(Addr[e], Len(broadcastData))

\* The replay of the history to a new worker.
ReplayInv ==
  /\ call[LookUp].st # "idle" => lookup = "wait"
  /\ lookup = "replay" => UpTo(Addr[adding], replayed)
  /\ lookup = "wait" =>
       /\ call[LookUp].st # "idle" /\ call[LookUp].kind = "broadcast"
       /\ call[LookUp].to = Addr[adding] /\ call[LookUp].arg = replayed + 1
       /\ UpTo(Addr[adding], replayed)
       /\ call[LookUp].st = "eof" => UpTo(Addr[adding], replayed + 1)

BroadcastInv ==
  /\ MutexInv
  /\ \A e \in Entry : TaskInv(e)
  /\ ReplayInv
  /\ AppliedInOrder

-----------------------------------------------------------------------------
(* What steps leave alone.                                                 *)

\* A step forgets no fault and takes nothing from a worker without one.
Grows ==
  /\ faulty \subseteq faulty'
  /\ \A w \in Worker : w \notin faulty' => applied[w] \subseteq applied'[w]

\* Such a step keeps what is known of a worker's history.
LEMMA UpToStable ==
  ASSUME Grows, NEW w \in Worker, NEW k, UpTo(w, k)
  PROVE  w \notin faulty' => 1 .. k \subseteq applied'[w]
BY DEF Grows, UpTo

\* A worker that has all but the k-th broadcast, and then gets it, has all k.
LEMMA UpToNext ==
  ASSUME Grows, NEW w \in Worker, NEW k \in Nat, UpTo(w, k - 1),
         w \notin faulty' => k \in applied'[w]
  PROVE  w \notin faulty' => 1 .. k \subseteq applied'[w]
<1> SUFFICES ASSUME w \notin faulty', NEW i \in 1 .. k PROVE i \in applied'[w] OBVIOUS
<1>1. i = k \/ i \in 1 .. (k - 1) OBVIOUS
<1> QED BY <1>1 DEF Grows, UpTo

\* A step that leaves the task of e alone keeps its invariant.
LEMMA TaskFrame ==
  ASSUME TypeOK, NEW e \in Entry, TaskInv(e), Grows,
         UNCHANGED <<queue, broadcastData>>,
         mutex' \in Conn <=> mutex \in Conn,
         call'[e] = call[e]
  PROVE  TaskInv(e)'
<1>1. Addr[e] \in Worker BY LoadBalancerAssumption
<1>2. \A k : UpTo(Addr[e], k) => UpTo(Addr[e], k)'
  BY <1>1, UpToStable DEF UpTo
<1> QED BY <1>2 DEF TaskInv

\* And so does a step that moves the task on.
LEMMA TaskMove ==
  ASSUME TypeOK, NEW e \in Entry, TaskInv(e), Grows,
         UNCHANGED <<queue, broadcastData, mutex>>,
         call[e].st # "idle", call'[e].st # "idle",
         call'[e].kind = call[e].kind, call'[e].to = call[e].to, call'[e].arg = call[e].arg,
         call'[e].st = "eof" /\ Addr[e] \notin faulty' => call[e].arg \in applied'[Addr[e]]
  PROVE  TaskInv(e)'
<1> DEFINE w == Addr[e]
           k == Len(broadcastData)
<1>1. w \in Worker /\ k \in Nat BY LoadBalancerAssumption DEF TypeOK, BalancerTypeOK
<1>2. /\ e \in queue /\ mutex \in Conn /\ call[e].kind = "broadcast"
      /\ call[e].to = w /\ call[e].arg = k /\ UpTo(w, k - 1)
  BY DEF TaskInv
<1>3. w \notin faulty' => 1 .. (k - 1) \subseteq applied'[w]
  BY <1>1, <1>2, UpToStable
<1>4. call'[e].st = "eof" => (w \notin faulty' => 1 .. k \subseteq applied'[w])
  BY <1>1, <1>2, UpToNext
<1> QED BY <1>2, <1>3, <1>4 DEF TaskInv, UpTo

\* A step that leaves the replay alone keeps its invariant.
LEMMA ReplayFrame ==
  ASSUME TypeOK, ReplayInv, Grows, UNCHANGED <<lookup, adding, replayed>>,
         call'[LookUp] = call[LookUp]
  PROVE  ReplayInv'
<1>1. Addr[adding] \in Worker BY LoadBalancerAssumption DEF TypeOK, BalancerTypeOK
<1>2. \A k : UpTo(Addr[adding], k) => UpTo(Addr[adding], k)'
  BY <1>1, UpToStable DEF UpTo
<1> QED BY <1>2 DEF ReplayInv

\* And so does a step that moves the connection to the new worker on.
LEMMA ReplayMove ==
  ASSUME TypeOK, ReplayInv, Grows, UNCHANGED <<lookup, adding, replayed>>,
         call[LookUp].st # "idle", call'[LookUp].st # "idle",
         call'[LookUp].kind = call[LookUp].kind,
         call'[LookUp].to = call[LookUp].to, call'[LookUp].arg = call[LookUp].arg,
         call'[LookUp].st = "eof" /\ Addr[adding] \notin faulty' =>
           call[LookUp].arg \in applied'[Addr[adding]]
  PROVE  ReplayInv'
<1> DEFINE w == Addr[adding]
           k == replayed + 1
<1>1. w \in Worker /\ k \in Nat /\ replayed = k - 1
  BY LoadBalancerAssumption DEF TypeOK, BalancerTypeOK
<1>2. /\ lookup = "wait" /\ call[LookUp].kind = "broadcast"
      /\ call[LookUp].to = w /\ call[LookUp].arg = k /\ UpTo(w, replayed)
  BY DEF ReplayInv
<1>3. w \notin faulty' => 1 .. replayed \subseteq applied'[w]
  BY <1>1, <1>2, UpToStable
<1>4. call'[LookUp].st = "eof" => (w \notin faulty' => 1 .. k \subseteq applied'[w])
  BY <1>1, <1>2, UpToNext
<1> QED BY <1>2, <1>3, <1>4 DEF ReplayInv, UpTo

\* A step that applies nothing on a worker without faults keeps the order.
LEMMA OrderFrame ==
  ASSUME AppliedInOrder, faulty \subseteq faulty',
         \A w \in Worker : w \notin faulty' => applied'[w] = applied[w]
  PROVE  AppliedInOrder'
BY DEF AppliedInOrder

\* A step that changes neither mutex nor what the holders are keeps MutexInv.
LEMMA MutexFrame ==
  ASSUME MutexInv, UNCHANGED <<mutex, lookup>>,
         \A n \in Conn : pc'[n] = "broadcast" <=> pc[n] = "broadcast"
  PROVE  MutexInv'
BY DEF MutexInv

-----------------------------------------------------------------------------
(* Steps of the workers.                                                   *)

\* A handler keeps the invariant: the only one that changes a worker's history
\* applies the next broadcast.
LEMMA BroadcastHandlers ==
  ASSUME TypeOK, BroadcastInv, \A n \in Conn : StartInv(n),
         NEW id \in CallId, HandlerStep(id), UNCHANGED <<connVars, balancerVars>>
  PROVE  BroadcastInv'
<1> USE DEF BroadcastInv, TypeOK, WorkerTypeOK
<1>0. UNCHANGED <<queue, broadcastData, mutex, lookup, adding, replayed, pc, faulty>>
  BY DEF HandlerStep, RejectPacket, StartHandler, SendResult, ApplyUpdate, connVars, balancerVars
<1>1. \A i \in CallId : call[i] \in CallRec /\ (i # id => call'[i] = call[i])
  BY DEF HandlerStep, RejectPacket, StartHandler, SendResult, ApplyUpdate
<1>2. Conn \subseteq CallId /\ Entry \subseteq CallId /\ LookUp \in CallId
  BY DEF CallId
<1>3. MutexInv' BY <1>0, MutexFrame
<1>4. id \in Entry \/ id = LookUp => call[id].st = "idle" \/ call[id].kind = "broadcast"
  BY DEF TaskInv, ReplayInv
<1>5. CASE ApplyUpdate(id)
  <2> DEFINE w == call[id].to
             k == call[id].arg
  <2>1. w \in Worker /\ k \in Nat /\ call[id].st = "running" BY <1>1, <1>5 DEF ApplyUpdate, CallRec
  <2>2. id \in Entry \/ id = LookUp BY <1>5 DEF ApplyUpdate, StartInv, CallId
  <2>3. UpTo(w, k - 1)
    <3>1. CASE id \in Entry BY <2>1, <3>1 DEF TaskInv
    <3>2. CASE id = LookUp
      <4>1. k = replayed + 1 /\ w = Addr[adding] /\ UpTo(w, replayed)
        BY <2>1, <3>2 DEF ReplayInv
      <4>2. k - 1 = replayed BY <4>1 DEF BalancerTypeOK
      <4> QED BY <4>1, <4>2
    <3> QED BY <2>2, <3>1, <3>2
  <2>4. applied' = [applied EXCEPT ![w] = @ \cup {k}] BY <1>5 DEF ApplyUpdate
  <2>5. Grows BY <1>0, <2>4 DEF Grows
  <2>6. call'[id].st = "eof" /\ k \in applied'[w]
        /\ call'[id].kind = call[id].kind /\ call'[id].to = w /\ call'[id].arg = k
    BY <1>1, <1>5, <2>1, <2>4 DEF ApplyUpdate, CallRec
  <2>7. AppliedInOrder'
    <3> SUFFICES ASSUME NEW v \in Worker, v \notin faulty', NEW i \in applied'[v]
                 PROVE  1 .. i \subseteq applied'[v]
      BY DEF AppliedInOrder
    <3>1. CASE i \in applied[v]
      BY <1>0, <2>5, <3>1 DEF AppliedInOrder, Grows
    <3>2. CASE i \notin applied[v]
      <4>1. v = w /\ i = k BY <2>4, <3>2
      <4> QED BY <2>1, <2>3, <2>5, <2>6, <4>1, UpToNext
    <3> QED BY <3>1, <3>2
  <2>8. ASSUME NEW e \in Entry PROVE TaskInv(e)'
    <3>1. CASE e # id BY <1>0, <1>1, <1>2, <2>5, <3>1, TaskFrame
    <3>2. CASE e = id
      <4>1. Addr[e] = w BY <2>1, <3>2 DEF TaskInv
      <4> QED BY <1>0, <2>1, <2>5, <2>6, <3>2, <4>1, TaskMove
    <3> QED BY <3>1, <3>2
  <2>9. ReplayInv'
    <3>1. CASE id # LookUp BY <1>0, <1>1, <1>2, <2>5, <3>1, ReplayFrame
    <3>2. CASE id = LookUp
      <4>1. Addr[adding] = w BY <2>1, <3>2 DEF ReplayInv
      <4> QED BY <1>0, <2>1, <2>5, <2>6, <3>2, <4>1, ReplayMove
    <3> QED BY <3>1, <3>2
  <2> QED BY <1>3, <2>7, <2>8, <2>9
<1>6. CASE RejectPacket(id) \/ StartHandler(id) \/ SendResult(id)
  <2>1. UNCHANGED applied BY <1>6 DEF RejectPacket, StartHandler, SendResult
  <2>2. Grows BY <1>0, <2>1 DEF Grows
  <2>3. AppliedInOrder' BY <1>0, <2>1, OrderFrame
  <2>4. id \in Entry \/ id = LookUp =>
          /\ call[id].st = "sent" /\ call'[id].st = "running" /\ call'[id].kind = call[id].kind
          /\ call'[id].to = call[id].to /\ call'[id].arg = call[id].arg
    <3> SUFFICES ASSUME id \in Entry \/ id = LookUp
                 PROVE  /\ call[id].st = "sent" /\ call'[id].st = "running"
                        /\ call'[id].kind = call[id].kind
                        /\ call'[id].to = call[id].to /\ call'[id].arg = call[id].arg
      OBVIOUS
    <3>1. id \notin Conn BY DstWorkerAssumption
    <3>2. StartHandler(id) BY <1>4, <1>6, <3>1 DEF RejectPacket, SendResult
    <3> QED BY <1>1, <3>2 DEF StartHandler, CallRec
  <2>5. ASSUME NEW e \in Entry PROVE TaskInv(e)'
    <3>1. CASE e # id BY <1>0, <1>1, <1>2, <2>2, <3>1, TaskFrame
    <3>2. CASE e = id BY <1>0, <2>2, <2>4, <3>2, TaskMove
    <3> QED BY <3>1, <3>2
  <2>6. ReplayInv'
    <3>1. CASE id # LookUp BY <1>0, <1>1, <1>2, <2>2, <3>1, ReplayFrame
    <3>2. CASE id = LookUp BY <1>0, <2>2, <2>4, <3>2, ReplayMove
    <3> QED BY <3>1, <3>2
  <2> QED BY <1>3, <2>3, <2>5, <2>6
<1> QED BY <1>5, <1>6 DEF HandlerStep

\* Faults keep the invariant: they touch the history of faulty workers only.
LEMMA BroadcastFaults ==
  ASSUME TypeOK, BroadcastInv, FaultStep, UNCHANGED <<connVars, balancerVars>>
  PROVE  BroadcastInv'
<1> USE DEF BroadcastInv, TypeOK, WorkerTypeOK
<1>0. UNCHANGED <<queue, broadcastData, mutex, lookup, adding, replayed, pc>>
  BY DEF connVars, balancerVars
<1>1. MutexInv' BY <1>0, MutexFrame
<1>2. Entry \subseteq CallId /\ LookUp \in CallId BY DEF CallId
<1>3. \A i \in CallId : call[i] \in CallRec OBVIOUS
<1>4. ASSUME Grows, faulty \subseteq faulty',
             \A w \in Worker : w \notin faulty' => applied'[w] = applied[w],
             \A i \in CallId :
               \/ call'[i] = call[i]
               \/ /\ call[i].st # "idle" /\ call'[i].st # "idle" /\ call[i].to \in faulty'
                  /\ call'[i].kind = call[i].kind
                  /\ call'[i].to = call[i].to /\ call'[i].arg = call[i].arg
      PROVE  BroadcastInv'
  <2>1. AppliedInOrder' BY <1>4, OrderFrame
  <2>2. ASSUME NEW e \in Entry PROVE TaskInv(e)'
    <3>1. CASE call'[e] = call[e] BY <1>0, <1>4, <3>1, TaskFrame
    <3>2. CASE call'[e] # call[e]
      <4>1. Addr[e] \in faulty' BY <1>2, <1>4, <3>2 DEF TaskInv
      <4> QED BY <1>0, <1>2, <1>4, <3>2, <4>1, TaskMove
    <3> QED BY <3>1, <3>2
  <2>3. ReplayInv'
    <3>1. CASE call'[LookUp] = call[LookUp] BY <1>0, <1>4, <3>1, ReplayFrame
    <3>2. CASE call'[LookUp] # call[LookUp]
      <4>1. Addr[adding] \in faulty' BY <1>2, <1>4, <3>2 DEF ReplayInv
      <4> QED BY <1>0, <1>2, <1>4, <3>2, <4>1, ReplayMove
    <3> QED BY <3>1, <3>2
  <2> QED BY <1>1, <2>1, <2>2, <2>3
<1>5. ASSUME NEW w \in Worker, NEW atEof, NEW cut, Crash(w, atEof, cut) PROVE BroadcastInv'
  <2>1. faulty' = faulty \cup {w} /\ applied' = [applied EXCEPT ![w] = {}]
    BY <1>5 DEF Crash
  <2>2. ASSUME NEW i \in CallId
        PROVE  \/ call'[i] = call[i]
               \/ /\ call[i].st # "idle" /\ call'[i].st # "idle" /\ call[i].to \in faulty'
                  /\ call'[i].kind = call[i].kind
                  /\ call'[i].to = call[i].to /\ call'[i].arg = call[i].arg
    <3>1. \/ call'[i] = call[i]
          \/ /\ call[i].to = w /\ call[i].st \in {"sent", "running"}
             /\ \E s \in {"eof", "reset"} : call'[i] = [call[i] EXCEPT !.st = s]
      BY <1>5 DEF Crash
    <3> QED BY <1>3, <2>1, <3>1 DEF CallRec
  <2>3. Grows BY <2>1 DEF Grows
  <2> QED BY <1>4, <2>1, <2>2, <2>3
<1>6. ASSUME NEW w, Restart(w) PROVE BroadcastInv'
  BY <1>4, <1>6 DEF Restart, Grows
<1>7. ASSUME NEW id \in CallId, BreakConnection(id) PROVE BroadcastInv'
  <2> DEFINE w == call[id].to
  <2>1. w \in Worker /\ call[id].arg \in Nat BY <1>3 DEF CallRec
  <2>2. faulty' = faulty \cup {w} BY <1>7 DEF BreakConnection
  <2>3. \A v \in Worker : v # w => applied'[v] = applied[v] BY <1>7 DEF BreakConnection
  <2>4. Grows BY <2>2, <2>3 DEF Grows
  <2>5. ASSUME NEW i \in CallId
        PROVE  \/ call'[i] = call[i]
               \/ /\ call[i].st # "idle" /\ call'[i].st # "idle" /\ call[i].to \in faulty'
                  /\ call'[i].kind = call[i].kind
                  /\ call'[i].to = call[i].to /\ call'[i].arg = call[i].arg
    <3>1. call'[i] = call[i] \/ i = id BY <1>7 DEF BreakConnection
    <3> QED BY <1>3, <1>7, <2>2, <3>1 DEF BreakConnection, CallRec
  <2> HIDE DEF w
  <2> QED BY <1>4, <2>2, <2>3, <2>4, <2>5
<1> QED BY <1>5, <1>6, <1>7 DEF FaultStep

-----------------------------------------------------------------------------
(* Steps of the balancer.                                                  *)

\* A step that changes neither workers nor the shared state of the balancer, and
\* neither begins nor ends a broadcast, keeps the invariant.
LEMMA BroadcastFrame ==
  ASSUME TypeOK, BroadcastInv,
         UNCHANGED <<queue, broadcastData, mutex, lookup, adding, replayed, applied>>,
         faulty \subseteq faulty',
         \A n \in Conn : pc'[n] = "broadcast" <=> pc[n] = "broadcast",
         \A i \in Entry \cup {LookUp} : call'[i] = call[i]
  PROVE  BroadcastInv'
<1> USE DEF BroadcastInv
<1>1. Grows BY DEF Grows
<1>2. MutexInv' BY MutexFrame
<1>3. \A e \in Entry : TaskInv(e)' BY <1>1, TaskFrame
<1>4. ReplayInv' BY <1>1, ReplayFrame
<1>5. AppliedInOrder' BY OrderFrame
<1> QED BY <1>2, <1>3, <1>4, <1>5

\* Beginning a broadcast posts one task per entry, each with the broadcast its
\* worker lacks.
LEMMA BroadcastBegins ==
  ASSUME TypeOK, BroadcastInv, NEW n \in Conn, BroadcastBegin(n)
  PROVE  BroadcastInv'
<1> USE DEF BroadcastInv, TypeOK, WorkerTypeOK, BalancerTypeOK, ConnTypeOK
<1>0. n \in CallId /\ n # NoOne /\ n \notin Entry /\ n # LookUp
  BY DstWorkerAssumption, LoadBalancerAssumption DEF CallId
<1>1. /\ mutex = NoOne /\ mutex' = n /\ UNCHANGED <<queue, lookup, adding, replayed, applied, faulty>>
      /\ pc' = [pc EXCEPT ![n] = "broadcast"]
      /\ broadcastData' = Append(broadcastData, msg[n].from)
  BY DEF BroadcastBegin, Goto, lookupVars
<1>2. mutex \notin Conn /\ mutex # LookUp
  BY <1>1, LoadBalancerAssumption DEF CallId
<1>3. MutexInv' BY <1>0, <1>1, <1>2 DEF MutexInv
<1>4. Grows BY <1>1 DEF Grows
<1>5. Len(broadcastData') = Len(broadcastData) + 1 /\ Len(broadcastData) \in Nat
  BY <1>1 DEF Request
<1>6. ASSUME NEW e \in Entry PROVE TaskInv(e)'
  <2>0. e \in CallId BY DEF CallId
  <2>1. CASE e \notin queue
    <3>1. call'[e] = call[e] BY <2>0, <2>1 DEF BroadcastBegin
    <3> QED BY <1>1, <2>1, <3>1 DEF TaskInv
  <2>2. CASE e \in queue
    <3>1. /\ call'[e].st = "posted" /\ call'[e].kind = "broadcast" /\ call'[e].to = Addr[e]
          /\ call'[e].arg = Len(broadcastData')
      BY <1>5, <2>0, <2>2 DEF BroadcastBegin, Call
    <3>2. UpTo(Addr[e], Len(broadcastData)) BY <1>2, <2>2 DEF TaskInv
    <3>3. Len(broadcastData') - 1 = Len(broadcastData) BY <1>5
    <3> QED BY <1>1, <2>2, <3>1, <3>2, <3>3 DEF TaskInv, UpTo
  <2> QED BY <2>1, <2>2
<1>7. call'[LookUp] = call[LookUp]
  <2>1. LookUp \in CallId /\ LookUp \notin queue BY DstWorkerAssumption DEF CallId
  <2> QED BY <2>1 DEF BroadcastBegin
<1>8. ReplayInv' BY <1>1, <1>4, <1>7, ReplayFrame
<1>9. AppliedInOrder' BY <1>1, OrderFrame
<1> QED BY <1>3, <1>6, <1>8, <1>9

\* Ending a broadcast leaves only entries whose task ended well.
LEMMA BroadcastEnds ==
  ASSUME TypeOK, BroadcastInv, NEW n \in Conn, BroadcastEnd(n)
  PROVE  BroadcastInv'
<1> USE DEF BroadcastInv, TypeOK, WorkerTypeOK, BalancerTypeOK, ConnTypeOK
<1>0. n \in CallId /\ n # NoOne /\ n # LookUp /\ NoOne \notin Conn /\ NoOne # LookUp /\ NoOne \notin Entry
  BY DstWorkerAssumption, LoadBalancerAssumption DEF CallId
<1>1. /\ pc[n] = "broadcast" /\ pc' = [pc EXCEPT ![n] = "closed"] /\ mutex' = NoOne
      /\ UNCHANGED <<broadcastData, lookup, adding, replayed, applied, faulty>>
  BY DEF BroadcastEnd, Goto, lookupVars
<1>2. mutex = n BY <1>1 DEF MutexInv
<1>3. MutexInv' BY <1>0, <1>1, <1>2 DEF MutexInv
<1>4. Grows BY <1>1 DEF Grows
<1>5. ASSUME NEW e \in Entry PROVE TaskInv(e)'
  <2>0. e \in CallId BY DEF CallId
  <2>1. call'[e].st = "idle"
    BY <2>0 DEF BroadcastEnd, NoCall, TaskInv
  <2>2. ASSUME e \in queue' PROVE e \in queue /\ call[e].st = "eof"
    <3>1. e \in queue /\ call[e].st # "reset" BY <2>2 DEF BroadcastEnd, RemoveWorkers
    <3> QED BY <3>1 DEF BroadcastEnd, TasksDone
  <2>3. e \in queue' => UpTo(Addr[e], Len(broadcastData)) BY <1>2, <2>2 DEF TaskInv
  <2> QED BY <1>0, <1>1, <2>1, <2>3 DEF TaskInv, UpTo
<1>6. call'[LookUp] = call[LookUp]
  <2>1. LookUp \in CallId /\ LookUp \notin queue BY DstWorkerAssumption DEF CallId
  <2> QED BY <2>1 DEF BroadcastEnd
<1>7. ReplayInv' BY <1>1, <1>4, <1>6, ReplayFrame
<1>8. AppliedInOrder' BY <1>1, OrderFrame
<1> QED BY <1>3, <1>5, <1>7, <1>8

\* The threads of the connections keep the invariant.
LEMMA BroadcastConnections ==
  ASSUME TypeOK, BroadcastInv, NEW n \in Conn, ConnStep(n)
  PROVE  BroadcastInv'
<1> USE DEF TypeOK, WorkerTypeOK, ConnTypeOK, Goto
<1>0. n \notin Entry \cup {LookUp} /\ Entry \cup {LookUp} \subseteq CallId
  BY DstWorkerAssumption DEF CallId
<1>a. ASSUME NEW from, from # "broadcast", NEW to, to # "broadcast", Goto(n, from, to)
      PROVE  \A m \in Conn : pc'[m] = "broadcast" <=> pc[m] = "broadcast"
  BY <1>a
<1>1. CASE Accept(n) \/ ReadError(n) \/ NoWorkers(n) \/ RelayRefused(n)
  <2>1. \A m \in Conn : pc'[m] = "broadcast" <=> pc[m] = "broadcast"
    BY <1>a, <1>1 DEF Accept, ReadError, NoWorkers, RelayRefused
  <2> QED BY <1>1, <2>1, BroadcastFrame
       DEF Accept, ReadError, NoWorkers, RelayRefused, balancerVars, workerVars
<1>2. CASE AnswerAddress(n) \/ PickWorker(n) \/ RelayRetry(n)
  <2>1. \A m \in Conn : pc'[m] = "broadcast" <=> pc[m] = "broadcast"
    BY <1>a, <1>2 DEF AnswerAddress, PickWorker, RelayRetry
  <2> QED BY <1>2, <2>1, BroadcastFrame
       DEF AnswerAddress, PickWorker, RelayRetry, lookupVars, workerVars
<1>3. CASE RelayPunish(n)
  <2>1. \A m \in Conn : pc'[m] = "broadcast" <=> pc[m] = "broadcast"
    BY <1>a, <1>3 DEF RelayPunish
  <2> QED BY <1>3, <2>1, BroadcastFrame DEF RelayPunish, lookupVars, workerVars
<1>4. CASE RelaySend(n) \/ RelayEof(n) \/ RelayReset(n)
  <2>1. \A m \in Conn : pc'[m] = "broadcast" <=> pc[m] = "broadcast"
    BY <1>a, <1>4 DEF RelaySend, RelayEof, RelayReset
  <2>2. \A i \in Entry \cup {LookUp} : call'[i] = call[i]
    BY <1>0, <1>4 DEF RelaySend, RelayEof, RelayReset
  <2> QED BY <1>4, <2>1, <2>2, BroadcastFrame
       DEF RelaySend, RelayEof, RelayReset, balancerVars
<1>5. CASE BroadcastBegin(n) BY <1>5, BroadcastBegins
<1>6. CASE BroadcastEnd(n) BY <1>6, BroadcastEnds
<1> QED BY <1>1, <1>2, <1>3, <1>4, <1>5, <1>6 DEF ConnStep

\* A task of the pool keeps the invariant.
LEMMA BroadcastTasks ==
  ASSUME TypeOK, BroadcastInv, NEW e \in Entry, BroadcastSend(e)
  PROVE  BroadcastInv'
<1> USE DEF BroadcastInv, TypeOK, WorkerTypeOK
<1>0. UNCHANGED <<queue, broadcastData, mutex, lookup, adding, replayed, pc, applied, faulty>>
  BY DEF BroadcastSend, connVars, balancerVars
<1>1. Grows BY <1>0 DEF Grows
<1>2. e \in CallId /\ LookUp \in CallId /\ LookUp # e /\ call[e] \in CallRec
  BY DstWorkerAssumption DEF CallId
<1>3. /\ call[e].st = "posted" /\ call'[e].st \in {"sent", "reset"}
      /\ call'[e].kind = call[e].kind /\ call'[e].to = call[e].to /\ call'[e].arg = call[e].arg
  BY <1>2 DEF BroadcastSend, CallRec
<1>4. MutexInv' BY <1>0, MutexFrame
<1>5. ASSUME NEW f \in Entry PROVE TaskInv(f)'
  <2>1. CASE f = e BY <1>0, <1>1, <1>3, <2>1, TaskMove
  <2>2. CASE f # e
    <3>1. call'[f] = call[f] BY <2>2 DEF BroadcastSend, CallId
    <3> QED BY <1>0, <1>1, <3>1, TaskFrame
  <2> QED BY <2>1, <2>2
<1>6. call'[LookUp] = call[LookUp] BY <1>2 DEF BroadcastSend
<1>7. ReplayInv' BY <1>0, <1>1, <1>6, ReplayFrame
<1>8. AppliedInOrder' BY <1>0, OrderFrame
<1> QED BY <1>4, <1>5, <1>7, <1>8

\* The discovery thread keeps the invariant: a worker enters the queue with the
\* whole history.
LEMMA BroadcastDiscovery ==
  ASSUME TypeOK, BroadcastInv, AddWorkerStep, UNCHANGED connVars
  PROVE  BroadcastInv'
<1> USE DEF BroadcastInv, TypeOK, WorkerTypeOK, BalancerTypeOK
<1>0. /\ LookUp \in CallId /\ LookUp \notin Conn /\ LookUp \notin Entry
      /\ NoOne \notin Conn /\ NoOne \notin Entry /\ NoOne # LookUp
  BY DstWorkerAssumption, LoadBalancerAssumption DEF CallId
<1>1. UNCHANGED <<broadcastData, applied, faulty, pc>>
  BY DEF AddWorkerStep, AddWorkerLock, ReplayNext, ReplayEof, ReplayFailed, AddWorkerDone,
         workerVars, connVars
<1>2. Grows BY <1>1 DEF Grows
<1>3. AppliedInOrder' BY <1>1, OrderFrame
<1>4. \A e \in Entry : call'[e] = call[e]
  <2>1. \A e \in Entry : e \in CallId /\ e # LookUp BY <1>0 DEF CallId
  <2>2. CASE \E e \in Entry : AddWorkerLock(e) BY <2>2 DEF AddWorkerLock, workerVars
  <2>3. CASE ReplayNext BY <2>1, <2>3 DEF ReplayNext
  <2>4. CASE ReplayEof \/ ReplayFailed BY <2>1, <2>4 DEF ReplayEof, ReplayFailed
  <2>5. CASE AddWorkerDone BY <2>5 DEF AddWorkerDone, workerVars
  <2> QED BY <2>2, <2>3, <2>4, <2>5 DEF AddWorkerStep
<1>5. ASSUME queue' = queue, mutex' \in Conn <=> mutex \in Conn
      PROVE  \A e \in Entry : TaskInv(e)'
  BY <1>1, <1>2, <1>4, <1>5, TaskFrame
<1>a. Addr[adding] \in Worker /\ replayed \in Nat BY LoadBalancerAssumption
<1>b. NoCall.st = "idle" BY DEF NoCall
<1>6. ASSUME NEW e \in Entry, AddWorkerLock(e) PROVE BroadcastInv'
  <2>1. /\ lookup = "add" /\ lookup' = "replay" /\ mutex = NoOne /\ mutex' = LookUp
        /\ replayed' = 0 /\ UNCHANGED <<queue, call>>
    BY <1>6 DEF AddWorkerLock, workerVars
  <2>2. MutexInv' BY <1>0, <1>1, <2>1 DEF MutexInv
  <2>3. \A f \in Entry : TaskInv(f)' BY <1>0, <1>5, <2>1
  <2>4. ReplayInv' BY <2>1 DEF ReplayInv, UpTo
  <2> QED BY <1>3, <2>2, <2>3, <2>4
<1>7. CASE ReplayNext
  <2>1. /\ lookup = "replay" /\ lookup' = "wait"
        /\ UNCHANGED <<queue, mutex, adding, replayed>>
    BY <1>7 DEF ReplayNext
  <2>2. MutexInv' BY <1>1, <2>1 DEF MutexInv
  <2>3. \A f \in Entry : TaskInv(f)' BY <1>5, <2>1
  <2>4. /\ call'[LookUp].st \in {"sent", "reset"} /\ call'[LookUp].kind = "broadcast"
        /\ call'[LookUp].to = Addr[adding] /\ call'[LookUp].arg = replayed + 1
    BY <1>0, <1>7 DEF ReplayNext, Call, ReplayIndex
  <2>5. UpTo(Addr[adding], replayed) BY <2>1 DEF ReplayInv
  <2>6. ReplayInv' BY <1>1, <2>1, <2>4, <2>5 DEF ReplayInv, UpTo
  <2> QED BY <1>3, <2>2, <2>3, <2>6
<1>8. CASE ReplayEof
  <2>1. /\ lookup = "wait" /\ lookup' = "replay" /\ call[LookUp].st = "eof"
        /\ UNCHANGED <<queue, mutex, adding>> /\ replayed' = replayed + 1
    BY <1>8 DEF ReplayEof
  <2>2. MutexInv' BY <1>1, <2>1 DEF MutexInv
  <2>3. \A f \in Entry : TaskInv(f)' BY <1>5, <2>1
  <2>4. call'[LookUp].st = "idle" BY <1>0, <1>8, <1>b DEF ReplayEof
  <2>5. UpTo(Addr[adding], replayed + 1) BY <2>1 DEF ReplayInv
  <2>6. ReplayInv' BY <1>1, <2>1, <2>4, <2>5 DEF ReplayInv, UpTo
  <2> QED BY <1>3, <2>2, <2>3, <2>6
<1>9. CASE ReplayFailed
  <2>1. /\ lookup = "wait" /\ lookup' \in {"resolve", "add"} /\ mutex' = NoOne /\ UNCHANGED queue
    BY <1>9 DEF ReplayFailed, AfterAdd
  <2>2. mutex = LookUp BY <2>1 DEF MutexInv
  <2>3. MutexInv' BY <1>0, <1>1, <2>1, <2>2 DEF MutexInv
  <2>4. \A f \in Entry : TaskInv(f)' BY <1>0, <1>5, <2>1, <2>2
  <2>5. call'[LookUp].st = "idle" BY <1>0, <1>9, <1>b DEF ReplayFailed
  <2>6. ReplayInv' BY <2>1, <2>5 DEF ReplayInv
  <2> QED BY <1>3, <2>3, <2>4, <2>6
<1>10. CASE AddWorkerDone
  <2>1. /\ lookup = "replay" /\ lookup' \in {"resolve", "add"} /\ mutex' = NoOne
        /\ queue' = queue \cup {adding} /\ replayed >= Len(broadcastData) /\ UNCHANGED call
    BY <1>10 DEF AddWorkerDone, AfterAdd, ReplayDone, workerVars
  <2>2. mutex = LookUp BY <2>1 DEF MutexInv
  <2>3. MutexInv' BY <1>0, <1>1, <2>1, <2>2 DEF MutexInv
  <2>4. UpTo(Addr[adding], Len(broadcastData))
    <3>1. UpTo(Addr[adding], replayed) BY <2>1 DEF ReplayInv
    <3>2. Len(broadcastData) \in Nat OBVIOUS
    <3>3. 1 .. Len(broadcastData) \subseteq 1 .. replayed BY <1>a, <2>1, <3>2
    <3> QED BY <3>1, <3>3 DEF UpTo
  <2>5. ASSUME NEW e \in Entry PROVE TaskInv(e)'
    <3>1. call'[e].st = "idle" BY <1>0, <2>1, <2>2 DEF TaskInv
    <3>2. e \in queue' => UpTo(Addr[e], Len(broadcastData))
      BY <1>0, <2>1, <2>2, <2>4 DEF TaskInv
    <3> QED BY <1>0, <1>1, <2>1, <3>1, <3>2 DEF TaskInv, UpTo
  <2>6. ReplayInv'
    BY <2>1 DEF ReplayInv
  <2> QED BY <1>3, <2>3, <2>5, <2>6
<1> QED BY <1>6, <1>7, <1>8, <1>9, <1>10 DEF AddWorkerStep

-----------------------------------------------------------------------------
(* The theorems.                                                           *)

\* The invariant holds in the initial states.
LEMMA BroadcastInit == Init => BroadcastInv
<1> SUFFICES ASSUME Init PROVE BroadcastInv OBVIOUS
<1> USE DEF Init, WorkerInit, BalancerInit, ConnInit
<1>0. \A i \in CallId : call[i].st = "idle" BY DEF NoCall
<1>1. MutexInv BY LoadBalancerAssumption DEF MutexInv, CallId
<1>2. ASSUME NEW e \in Entry PROVE TaskInv(e)
  <2>1. mutex \notin Conn BY LoadBalancerAssumption DEF CallId
  <2>2. 1 .. Len(broadcastData) = {} OBVIOUS
  <2> QED BY <1>0, <2>1, <2>2 DEF TaskInv, UpTo, CallId
<1>3. ReplayInv BY <1>0 DEF ReplayInv, CallId
<1>4. AppliedInOrder BY DEF AppliedInOrder
<1> QED BY <1>1, <1>2, <1>3, <1>4 DEF BroadcastInv

\* Every step keeps the invariant.
LEMMA BroadcastNext ==
  ASSUME TypeOK, BroadcastInv, \A n \in Conn : StartInv(n), [Next]_vars
  PROVE  BroadcastInv'
<1> USE DEF balancerVars, workerVars, connVars
<1>1. ASSUME NEW c \in Client, ClientStep(c) \/ ClientFault(c) PROVE BroadcastInv'
  <2>1. \A n \in Conn : pc'[n] = "broadcast" <=> pc[n] = "broadcast"
    BY <1>1 DEF ClientStep, ClientFault, SendMsg, ReadMsg, ConnectFailed, ReadMsgFailed,
                SendMsgFailed, Goto, TypeOK, ConnTypeOK
  <2>2. UNCHANGED <<queue, broadcastData, mutex, lookup, adding, replayed, applied, faulty, call>>
    BY <1>1 DEF ClientStep, ClientFault, SendMsg, ReadMsg, ConnectFailed, ReadMsgFailed,
                SendMsgFailed
  <2> QED BY <2>1, <2>2, BroadcastFrame
<1>2. ASSUME NEW n \in Conn, ConnThread(n) PROVE BroadcastInv'
  BY <1>2, BroadcastConnections DEF ConnThread
<1>3. ASSUME NEW e \in Entry, PoolTask(e) PROVE BroadcastInv'
  BY <1>3, BroadcastTasks DEF PoolTask
<1>4. CASE Resolve
  <2>1. /\ lookup = "resolve" /\ lookup' \in {"resolve", "add"}
        /\ UNCHANGED <<queue, broadcastData, mutex, adding, replayed, applied, faulty, call, pc>>
    BY <1>4 DEF Resolve, LookUpWorkers
  <2>2. Grows BY <2>1 DEF Grows
  <2>3. MutexInv' BY <2>1 DEF BroadcastInv, MutexInv
  <2>4. \A e \in Entry : TaskInv(e)' BY <2>1, <2>2, TaskFrame DEF BroadcastInv
  <2>5. ReplayInv' BY <2>1 DEF BroadcastInv, ReplayInv
  <2>6. AppliedInOrder' BY <2>1, OrderFrame DEF BroadcastInv
  <2> QED BY <2>3, <2>4, <2>5, <2>6 DEF BroadcastInv
<1>5. CASE AddThread BY <1>5, BroadcastDiscovery DEF AddThread
<1>6. ASSUME NEW id \in CallId, Handler(id) PROVE BroadcastInv'
  BY <1>6, BroadcastHandlers DEF Handler
<1>7. CASE FaultStep /\ UNCHANGED <<clientVars, connVars, balancerVars>>
  BY <1>7, BroadcastFaults
<1>8. ASSUME NEW n \in Conn, NEW left \in {"whole", "tail"}, RelayWriteError(n, left)
      PROVE  BroadcastInv'
  <2>1. \A m \in Conn : pc'[m] = "broadcast" <=> pc[m] = "broadcast"
    BY <1>8 DEF RelayWriteError, Goto, TypeOK, ConnTypeOK
  <2> QED BY <1>8, <2>1, BroadcastFrame DEF RelayWriteError
<1>9. CASE UNCHANGED vars
  BY <1>9, BroadcastFrame DEF vars
<1> QED BY <1>1, <1>2, <1>3, <1>4, <1>5, <1>6, <1>7, <1>8, <1>9
     DEF Next, Fault, RelayFault

\* The inductive invariant holds in every behaviour.
LEMMA BroadcastInvariant == Spec => []BroadcastInv
<1> DEFINE SInv == \A n \in Conn : StartInv(n)
<1>1. TypeOK /\ SInv /\ BroadcastInv /\ [Next]_vars => BroadcastInv' BY BroadcastNext
<1>2. Spec => []SInv BY StartInvariant
<1> HIDE DEF SInv
<1> QED BY <1>1, <1>2, BroadcastInit, TypeCorrect, PTL DEF Spec

\* Whenever the balancer can hand out workers, every worker in the queue that no
\* fault has touched has applied all broadcasts saved so far: for any number of
\* workers, entries, clients and connections and any interleaving of broadcasts,
\* relays, additions and faults (handle_read, addWorker, removeWorkerLocked).
THEOREM QueueIsUpToDate == Spec => []QueuedWorkersUpToDate
<1>1. TypeOK /\ BroadcastInv => QueuedWorkersUpToDate
  <2>1. NoOne \notin Conn BY LoadBalancerAssumption DEF CallId
  <2> QED BY <2>1 DEF TypeOK, BalancerTypeOK, BroadcastInv, TaskInv, UpTo, QueuedWorkersUpToDate
<1> QED BY <1>1, BroadcastInvariant, TypeCorrect, PTL

\* Every worker that no fault has touched applies the broadcasts in the order in
\* which the balancer saved them (handle_read, addWorker).
THEOREM HistoryInOrder == Spec => []AppliedInOrder
<1>1. BroadcastInv => AppliedInOrder BY DEF BroadcastInv
<1> QED BY <1>1, BroadcastInvariant, PTL

-----------------------------------------------------------------------------
(* The queue: who is dropped from it, how the load is spread over it and   *)
(* the count that a broadcast reports.  The inductive invariant.           *)

\* A worker that was not running from the beginning or that a fault has touched.
Sick(w) == ~ up[w] \/ restarts[w] > 0 \/ w \in faulty

\* Without a domain name the discovery thread does not run, a task of the broadcast
\* pool fails only on such a worker, and only entries of such workers are gone.
HealthInv ==
  /\ ~ UseDomain => lookup = "resolve"
  /\ \A e \in Entry : call[e].st = "reset" => Sick(call[e].to)
  /\ HealthyWorkersStay

-----------------------------------------------------------------------------
(* Who is dropped.                                                         *)

\* A worker never recovers in the sense of Sick: a restarted process has no design.
SickStays == \A w \in Worker : Sick(w) => Sick(w)'

\* A step that leaves the queue and the discovery thread alone, and ends no task of
\* the pool with a failure on a healthy worker, keeps the invariant.
LEMMA HealthFrame ==
  ASSUME TypeOK, HealthInv, SickStays, UNCHANGED <<queue, lookup>>,
         \A e \in Entry :
           \/ call'[e] = call[e]
           \/ call'[e].st # "reset"
           \/ Sick(call[e].to)'
  PROVE  HealthInv'
<1>1. ASSUME NEW e \in Entry, call'[e].st = "reset" PROVE Sick(call[e].to)'
  <2>1. CASE call'[e] = call[e]
    <3>1. Sick(call[e].to) BY <1>1, <2>1 DEF HealthInv
    <3>2. call[e].to \in Worker BY DEF TypeOK, WorkerTypeOK, CallRec, CallId
    <3>3. \A w \in Worker : Sick(w) => Sick(w)' BY DEF SickStays
    <3> QED BY <2>1, <3>1, <3>2, <3>3 DEF Sick
  <2> QED BY <1>1, <2>1
<1>2. HealthyWorkersStay'
  <2> SUFFICES ASSUME ~ UseDomain, NEW e \in Entry, ~ Sick(Addr[e])' PROVE e \in queue'
    BY LoadBalancerAssumption DEF HealthyWorkersStay, Sick, TypeOK, WorkerTypeOK
  <2>1. Addr[e] \in Worker BY LoadBalancerAssumption
  <2>2. ~ Sick(Addr[e]) BY <2>1 DEF SickStays
  <2>3. up[Addr[e]] /\ restarts[Addr[e]] = 0 /\ Addr[e] \notin faulty
    <3>1. restarts[Addr[e]] \in Nat BY <2>1, DstWorkerAssumption DEF TypeOK, WorkerTypeOK
    <3>2. ~ (restarts[Addr[e]] > 0) BY <2>2 DEF Sick
    <3>3. restarts[Addr[e]] = 0 BY <3>1, <3>2
    <3> QED BY <2>2, <3>3, Zenon DEF Sick
  <2> QED BY <2>3 DEF HealthInv, HealthyWorkersStay
<1> QED BY <1>1, <1>2 DEF HealthInv

\* Steps that touch no process, no connection and no fault keep who is sick.
LEMMA SickFrame ==
  ASSUME UNCHANGED <<up, restarts>>, faulty \subseteq faulty'
  PROVE  SickStays
BY DEF SickStays, Sick

\* Handlers keep the invariant: they end no call with a failure.
LEMMA HealthHandlers ==
  ASSUME TypeOK, HealthInv, NEW id \in CallId, HandlerStep(id), UNCHANGED balancerVars
  PROVE  HealthInv'
<1> USE DEF TypeOK, WorkerTypeOK
<1>1. UNCHANGED <<up, restarts, faulty, queue, lookup>>
  BY DEF HandlerStep, RejectPacket, StartHandler, SendResult, ApplyUpdate, balancerVars
<1>2. SickStays BY <1>1, SickFrame
<1>3. ASSUME NEW e \in Entry PROVE call'[e] = call[e] \/ call'[e].st # "reset"
  <2>1. e \in CallId /\ call[e] \in CallRec BY DEF CallId
  <2>2. CASE e # id
    BY <2>1, <2>2 DEF HandlerStep, RejectPacket, StartHandler, SendResult, ApplyUpdate
  <2>3. CASE e = id
    <3>1. e \notin Conn BY DstWorkerAssumption
    <3>2. \E s \in {"eof", "running"} : call' = [call EXCEPT ![id].st = s]
      BY <2>3, <3>1 DEF HandlerStep, RejectPacket, StartHandler, SendResult, ApplyUpdate
    <3> QED BY <2>1, <2>3, <3>2 DEF CallRec
  <2> QED BY <2>2, <2>3
<1> QED BY <1>1, <1>2, <1>3, HealthFrame

\* Faults keep the invariant: they make the worker they touch sick.
LEMMA HealthFaults ==
  ASSUME TypeOK, HealthInv, FaultStep, UNCHANGED balancerVars
  PROVE  HealthInv'
<1> USE DEF TypeOK, WorkerTypeOK
<1>0. UNCHANGED <<queue, lookup>> /\ Entry \subseteq CallId BY DEF balancerVars, CallId
<1>1. ASSUME NEW w \in Worker, NEW atEof, NEW cut, Crash(w, atEof, cut) PROVE HealthInv'
  <2>1. /\ up' = [up EXCEPT ![w] = FALSE] /\ faulty' = faulty \cup {w} /\ UNCHANGED restarts
    BY <1>1 DEF Crash
  <2>2. SickStays
    <3> SUFFICES ASSUME NEW v \in Worker, Sick(v) PROVE Sick(v)' BY DEF SickStays
    <3>1. CASE v = w BY <2>1, <3>1 DEF Sick
    <3>2. CASE v # w
      <4>1. up'[v] = up[v] BY <2>1, <3>2
      <4> QED BY <2>1, <4>1 DEF Sick
    <3> QED BY <3>1, <3>2
  <2>3. ASSUME NEW e \in Entry PROVE call'[e] = call[e] \/ Sick(call[e].to)'
    <3>1. call'[e] = call[e] \/ call'[e].to = w BY <1>0, <1>1 DEF Crash, CallRec
    <3> QED BY <2>1, <3>1 DEF Sick
  <2> QED BY <1>0, <2>2, <2>3, HealthFrame
<1>2. ASSUME NEW w \in Worker, Restart(w) PROVE HealthInv'
  <2>1. /\ restarts' = [restarts EXCEPT ![w] = @ + 1] /\ up' = [up EXCEPT ![w] = TRUE]
        /\ UNCHANGED <<faulty, call>>
    BY <1>2 DEF Restart
  <2>2. restarts[w] \in Nat BY DstWorkerAssumption
  <2>3. SickStays
    <3> SUFFICES ASSUME NEW v \in Worker, Sick(v) PROVE Sick(v)' BY DEF SickStays
    <3>1. CASE v = w
      <4>1. restarts'[v] > 0 BY <2>1, <2>2, <3>1
      <4> QED BY <4>1 DEF Sick
    <3>2. CASE v # w
      <4>1. up'[v] = up[v] /\ restarts'[v] = restarts[v] BY <2>1, <3>2
      <4> QED BY <2>1, <4>1 DEF Sick
    <3> QED BY <3>1, <3>2
  <2> QED BY <1>0, <2>1, <2>3, HealthFrame
<1>3. ASSUME NEW id \in CallId, BreakConnection(id) PROVE HealthInv'
  <2>1. UNCHANGED <<up, restarts>> /\ faulty' = faulty \cup {call[id].to}
    BY <1>3 DEF BreakConnection
  <2>2. SickStays BY <2>1, SickFrame
  <2>3. ASSUME NEW e \in Entry PROVE call'[e] = call[e] \/ Sick(call[e].to)'
    <3>1. call'[e] = call[e] \/ call'[e].to = call[id].to
      BY <1>0, <1>3 DEF BreakConnection, CallRec
    <3> QED BY <2>1, <3>1 DEF Sick
  <2> QED BY <1>0, <2>2, <2>3, HealthFrame
<1> QED BY <1>1, <1>2, <1>3 DEF FaultStep

\* The end of a broadcast drops the entries of sick workers only, also the other
\* entries with the address of a failed one.
LEMMA HealthEnds ==
  ASSUME TypeOK, BroadcastInv, HealthInv, NEW n \in Conn, BroadcastEnd(n)
  PROVE  HealthInv'
<1> USE DEF TypeOK, WorkerTypeOK, BalancerTypeOK
<1>1. UNCHANGED <<up, restarts, faulty, lookup>> BY DEF BroadcastEnd, lookupVars
<1>2. mutex = n BY DEF BroadcastEnd, Goto, BroadcastInv, MutexInv
<1>3. ASSUME NEW e \in Entry PROVE ~ (call'[e].st = "reset" /\ ~ Sick(call[e].to)')
  <2>1. e \in CallId BY DEF CallId
  <2>2. call'[e] = NoCall \/ call'[e] = call[e] BY <2>1 DEF BroadcastEnd
  <2>3. NoCall.st # "reset" BY DEF NoCall
  <2>4. call[e].st = "reset" => Sick(call[e].to) BY DEF HealthInv
  <2> QED BY <1>1, <2>2, <2>3, <2>4 DEF Sick
<1>4. HealthyWorkersStay'
  <2> SUFFICES ASSUME ~ UseDomain, NEW e \in Entry,
                      up[Addr[e]], restarts[Addr[e]] = 0, Addr[e] \notin faulty
               PROVE  e \in queue'
    BY <1>1 DEF HealthyWorkersStay
  <2>1. e \in queue BY DEF HealthInv, HealthyWorkersStay
  <2>2. ~ Sick(Addr[e]) BY DEF Sick
  <2>3. ASSUME NEW f \in queue, call[f].st = "reset" PROVE Addr[f] # Addr[e]
    <3>1. call[f].to = Addr[f] BY <1>2 DEF BroadcastInv, TaskInv
    <3>2. Sick(Addr[f]) BY <2>3, <3>1 DEF HealthInv
    <3> QED BY <2>2, <3>2
  <2> QED BY <2>1, <2>3 DEF BroadcastEnd, RemoveWorkers
<1>5. ~ UseDomain => lookup' = "resolve" BY <1>1 DEF HealthInv
<1> QED BY <1>3, <1>4, <1>5 DEF HealthInv

\* The threads of the connections and the tasks of the pool keep the invariant.
LEMMA HealthConnections ==
  ASSUME TypeOK, BroadcastInv, HealthInv, NEW n \in Conn, ConnStep(n)
  PROVE  HealthInv'
<1> USE DEF TypeOK, WorkerTypeOK, workerVars, balancerVars, lookupVars
<1>0. Entry \subseteq CallId /\ n \notin Entry BY DstWorkerAssumption DEF CallId
<1>1. CASE Accept(n) \/ ReadError(n) \/ NoWorkers(n) \/ AnswerAddress(n) \/ PickWorker(n)
           \/ RelayRefused(n) \/ RelayPunish(n) \/ RelayRetry(n)
  <2>1. UNCHANGED <<up, restarts, faulty, queue, lookup, call>>
    BY <1>1 DEF Accept, ReadError, NoWorkers, AnswerAddress, PickWorker, RelayRefused,
                RelayPunish, RelayRetry
  <2> QED BY <2>1, SickFrame, HealthFrame
<1>2. CASE RelaySend(n) \/ RelayEof(n) \/ RelayReset(n)
  <2>1. UNCHANGED <<up, restarts, faulty, queue, lookup>>
    BY <1>2 DEF RelaySend, RelayEof, RelayReset
  <2>2. \A e \in Entry : call'[e] = call[e]
    BY <1>0, <1>2 DEF RelaySend, RelayEof, RelayReset
  <2> QED BY <2>1, <2>2, SickFrame, HealthFrame
<1>3. CASE BroadcastBegin(n)
  <2>1. UNCHANGED <<up, restarts, faulty, queue, lookup>> BY <1>3 DEF BroadcastBegin
  <2>2. \A e \in Entry : call'[e] = call[e] \/ call'[e].st # "reset"
    BY <1>0, <1>3 DEF BroadcastBegin, Call
  <2> QED BY <2>1, <2>2, SickFrame, HealthFrame
<1>4. CASE BroadcastEnd(n) BY <1>4, HealthEnds
<1> QED BY <1>1, <1>2, <1>3, <1>4 DEF ConnStep

\* A task of the pool fails to connect only to a worker that is down.
LEMMA HealthTasks ==
  ASSUME TypeOK, HealthInv, NEW e \in Entry, BroadcastSend(e)
  PROVE  HealthInv'
<1> USE DEF TypeOK, WorkerTypeOK
<1>1. UNCHANGED <<up, restarts, faulty, queue, lookup>> BY DEF BroadcastSend, balancerVars
<1>2. ASSUME NEW f \in Entry
      PROVE  \/ call'[f] = call[f] \/ call'[f].st # "reset" \/ Sick(call[f].to)'
  <2>1. e \in CallId /\ f \in CallId /\ call[e] \in CallRec BY DEF CallId
  <2>2. CASE f # e BY <2>1, <2>2 DEF BroadcastSend
  <2>3. CASE f = e
    <3>1. call'[e].to = call[e].to BY <2>1 DEF BroadcastSend, CallRec
    <3>2. call'[e].st # "reset" \/ ~ up[call[e].to] BY <2>1 DEF BroadcastSend, CallRec
    <3> QED BY <1>1, <2>3, <3>1, <3>2 DEF Sick
  <2> QED BY <2>2, <2>3
<1> QED BY <1>1, <1>2, SickFrame, HealthFrame

\* The discovery thread runs only with a domain name.
LEMMA HealthDiscovery ==
  ASSUME TypeOK, HealthInv, AddWorkerStep \/ \E found \in SUBSET Entry : LookUpWorkers(found)
  PROVE  HealthInv'
<1> USE DEF TypeOK, WorkerTypeOK, workerVars
<1>0. \A e \in Entry : e \in CallId /\ e # LookUp BY DstWorkerAssumption DEF CallId
<1>1. UseDomain
  BY DEF HealthInv, AddWorkerStep, AddWorkerLock, ReplayNext, ReplayEof, ReplayFailed,
         AddWorkerDone, LookUpWorkers
<1>2. /\ UNCHANGED <<up, restarts, faulty>>
      /\ \A e \in Entry : call'[e] = call[e]
  <2>1. CASE \E found \in SUBSET Entry : LookUpWorkers(found) BY <2>1 DEF LookUpWorkers
  <2>2. CASE AddWorkerDone \/ \E e \in Entry : AddWorkerLock(e)
    BY <2>2 DEF AddWorkerDone, AddWorkerLock
  <2>3. CASE ReplayNext BY <1>0, <2>3 DEF ReplayNext
  <2>4. CASE ReplayEof \/ ReplayFailed BY <1>0, <2>4 DEF ReplayEof, ReplayFailed
  <2> QED BY <2>1, <2>2, <2>3, <2>4 DEF AddWorkerStep
<1> QED BY <1>1, <1>2 DEF HealthInv, HealthyWorkersStay, Sick

\* Every step keeps the invariant.
LEMMA HealthNext ==
  ASSUME TypeOK, BroadcastInv, HealthInv, [Next]_vars
  PROVE  HealthInv'
<1> USE DEF balancerVars, workerVars, connVars
<1>1. ASSUME NEW c \in Client, ClientStep(c) \/ ClientFault(c) PROVE HealthInv'
  <2>1. UNCHANGED <<up, restarts, faulty, queue, lookup, call>>
    BY <1>1 DEF ClientStep, ClientFault, SendMsg, ReadMsg, ConnectFailed, ReadMsgFailed,
                SendMsgFailed
  <2> QED BY <2>1, SickFrame, HealthFrame
<1>2. ASSUME NEW n \in Conn, ConnThread(n) PROVE HealthInv'
  BY <1>2, HealthConnections DEF ConnThread
<1>3. ASSUME NEW e \in Entry, PoolTask(e) PROVE HealthInv'
  BY <1>3, HealthTasks DEF PoolTask
<1>4. CASE Resolve \/ AddThread BY <1>4, HealthDiscovery DEF Resolve, AddThread
<1>5. ASSUME NEW id \in CallId, Handler(id) PROVE HealthInv'
  BY <1>5, HealthHandlers DEF Handler
<1>6. CASE FaultStep /\ UNCHANGED <<clientVars, connVars, balancerVars>>
  BY <1>6, HealthFaults
<1>7. ASSUME NEW n \in Conn, NEW left \in {"whole", "tail"}, RelayWriteError(n, left)
      PROVE  HealthInv'
  <2>1. UNCHANGED <<up, restarts, queue, lookup, call>> /\ faulty \subseteq faulty'
    BY <1>7 DEF RelayWriteError
  <2> QED BY <2>1, SickFrame, HealthFrame
<1>8. CASE UNCHANGED vars
  <2>1. UNCHANGED <<up, restarts, faulty, queue, lookup, call>> BY <1>8 DEF vars
  <2> QED BY <2>1, SickFrame, HealthFrame
<1> QED BY <1>1, <1>2, <1>3, <1>4, <1>5, <1>6, <1>7, <1>8 DEF Next, Fault, RelayFault

\* A configured worker that runs from the beginning and never failed stays in the
\* queue, whatever happens to the others and however many broadcasts fail
\* (removeWorkerLocked), for any configuration, equal end points included.
THEOREM HealthyWorkersKept == Spec => []HealthyWorkersStay
<1>1. Init => HealthInv
  BY DEF Init, WorkerInit, BalancerInit, HealthInv, HealthyWorkersStay, NoCall, CallId
<1>2. HealthInv => HealthyWorkersStay BY DEF HealthInv
<1> QED BY <1>1, <1>2, HealthNext, BroadcastInvariant, TypeCorrect, PTL DEF Spec

-----------------------------------------------------------------------------
(* How the load is spread.                                                 *)

\* No relay has failed so far.
NoTrials == \A n \in Conn : trials[n] = 0

\* A step that changes no priority and adds no entry keeps an even load.
LEMMA EvenFrame ==
  ASSUME LoadIsEven, NoTrials' => NoTrials, UNCHANGED priority,
         ~ UseDomain => queue' \subseteq queue
  PROVE  LoadIsEven'
BY DEF LoadIsEven, NoTrials

\* getNextWorker moves an entry of least priority by one, saturating.
LEMMA EvenPick ==
  ASSUME TypeOK, LoadIsEven, UNCHANGED <<queue, trials>>, NEW e \in queue, PickTop(e)
  PROVE  LoadIsEven'
<1> SUFFICES ASSUME ~ UseDomain, NoTrials, NEW f \in queue, NEW g \in queue
             PROVE  priority'[f] <= priority'[g] + 1
  BY DEF LoadIsEven, NoTrials
<1> USE DEF TypeOK, BalancerTypeOK
<1>1. MaxPriority \in Nat BY LoadBalancerAssumption
<1>2. \A h \in queue : priority[h] \in 0 .. MaxPriority /\ priority[e] <= priority[h]
  BY DEF PickTop, IsTop
<1>3. priority[f] <= priority[g] + 1 BY DEF LoadIsEven, NoTrials
<1>4. priority' = [priority EXCEPT ![e] = Bumped(priority[e])] BY DEF PickTop
<1>5. /\ f # e => priority'[f] = priority[f]
      /\ g # e => priority'[g] = priority[g]
      /\ priority'[e] = Bumped(priority[e])
  BY <1>4
<1>6. /\ Bumped(priority[e]) \in Nat /\ priority[e] <= Bumped(priority[e])
      /\ Bumped(priority[e]) <= priority[e] + 1
  BY <1>1, <1>2 DEF Bumped
<1>7. priority[e] \in Nat /\ priority[f] \in Nat /\ priority[g] \in Nat BY <1>1, <1>2
<1>8. priority[e] <= priority[g] BY <1>2
<1>9. CASE f = e /\ g = e BY <1>5, <1>6, <1>9
<1>10. CASE f = e /\ g # e BY <1>5, <1>6, <1>7, <1>8, <1>10
<1>11. CASE f # e /\ g = e BY <1>3, <1>5, <1>6, <1>7, <1>11
<1>12. CASE f # e /\ g # e BY <1>3, <1>5, <1>12
<1> QED BY <1>9, <1>10, <1>11, <1>12

\* The threads of the connections keep an even load.
LEMMA EvenConnections ==
  ASSUME TypeOK, LoadIsEven, NEW n \in Conn, ConnStep(n)
  PROVE  LoadIsEven'
<1> USE DEF TypeOK, ConnTypeOK, workerVars, balancerVars, lookupVars
<1>1. CASE Accept(n) \/ ReadError(n) \/ NoWorkers(n) \/ RelayRefused(n)
  BY <1>1, EvenFrame DEF Accept, ReadError, NoWorkers, RelayRefused, NoTrials
<1>2. CASE RelaySend(n) \/ RelayEof(n) \/ RelayReset(n) \/ BroadcastBegin(n)
  BY <1>2, EvenFrame DEF RelaySend, RelayEof, RelayReset, BroadcastBegin, NoTrials
<1>3. CASE AnswerAddress(n) BY <1>3, EvenPick DEF AnswerAddress
<1>4. CASE PickWorker(n) BY <1>4, EvenPick DEF PickWorker
<1>5. CASE RelayRetry(n)
  <2>1. UNCHANGED <<queue, trials>> BY <1>5 DEF RelayRetry
  <2>2. UNCHANGED priority \/ \E e \in queue : PickTop(e) BY <1>5 DEF RelayRetry
  <2> QED BY <2>1, <2>2, EvenFrame, EvenPick DEF NoTrials
<1>6. CASE RelayPunish(n)
  <2>1. trials'[n] = trials[n] + 1 BY <1>6 DEF RelayPunish
  <2>2. trials[n] \in Nat BY BalancerConnectionAssumption
  <2>3. trials'[n] # 0 BY <2>1, <2>2
  <2> QED BY <2>3 DEF LoadIsEven
<1>7. CASE BroadcastEnd(n)
  <2>1. UNCHANGED <<priority, trials>> /\ queue' \subseteq queue
    BY <1>7 DEF BroadcastEnd, RemoveWorkers
  <2> QED BY <2>1, EvenFrame DEF NoTrials
<1> QED BY <1>1, <1>2, <1>3, <1>4, <1>5, <1>6, <1>7 DEF ConnStep

\* Every step keeps an even load.
LEMMA EvenNext ==
  ASSUME TypeOK, HealthInv, LoadIsEven, [Next]_vars
  PROVE  LoadIsEven'
<1> USE DEF balancerVars, workerVars, connVars, NoTrials
<1>1. ASSUME NEW c \in Client, ClientStep(c) \/ ClientFault(c) PROVE LoadIsEven'
  <2>1. UNCHANGED <<priority, queue, trials>>
    BY <1>1 DEF ClientStep, ClientFault, SendMsg, ReadMsg, ConnectFailed, ReadMsgFailed,
                SendMsgFailed
  <2> QED BY <2>1, EvenFrame
<1>2. ASSUME NEW n \in Conn, ConnThread(n) PROVE LoadIsEven'
  BY <1>2, EvenConnections DEF ConnThread
<1>3. ASSUME NEW e \in Entry, PoolTask(e) PROVE LoadIsEven'
  BY <1>3, EvenFrame DEF PoolTask, BroadcastSend
<1>4. CASE Resolve \/ AddThread
  <2>1. UseDomain
    BY <1>4 DEF Resolve, AddThread, HealthInv, AddWorkerStep, AddWorkerLock, ReplayNext,
                ReplayEof, ReplayFailed, AddWorkerDone, LookUpWorkers
  <2> QED BY <2>1 DEF LoadIsEven
<1>5. ASSUME NEW id \in CallId, Handler(id) PROVE LoadIsEven'
  BY <1>5, EvenFrame DEF Handler
<1>6. CASE FaultStep /\ UNCHANGED <<clientVars, connVars, balancerVars>>
  BY <1>6, EvenFrame
<1>7. ASSUME NEW n \in Conn, NEW left \in {"whole", "tail"}, RelayWriteError(n, left)
      PROVE  LoadIsEven'
  BY <1>7, EvenFrame DEF RelayWriteError
<1>8. CASE UNCHANGED vars BY <1>8, EvenFrame DEF vars
<1> QED BY <1>1, <1>2, <1>3, <1>4, <1>5, <1>6, <1>7, <1>8 DEF Next, Fault, RelayFault

\* As long as no relay has failed, the priorities of any two workers in the queue
\* differ by at most one: also when the priorities saturate at their 16 bits and
\* when broadcasts remove workers (getNextWorker).
THEOREM LoadStaysEven == Spec => []LoadIsEven
<1>1. Init => HealthInv
  BY DEF Init, WorkerInit, BalancerInit, HealthInv, HealthyWorkersStay, NoCall, CallId
<1>2. Init => LoadIsEven BY DEF Init, BalancerInit, LoadIsEven
<1> QED BY <1>1, <1>2, HealthNext, EvenNext, BroadcastInvariant, TypeCorrect, PTL DEF Spec

-----------------------------------------------------------------------------
(* The count of workers that received a broadcast.                         *)

\* The entries that are left are those that did not fail, when end points differ.
LEMMA CountLeft ==
  ASSUME TypeOK, \A e, f \in Entry : Addr[e] = Addr[f] => e = f,
         NEW n \in Conn, BroadcastEnd(n)
  PROVE  count'[n] = Cardinality(queue')
<1> USE DEF TypeOK, BalancerTypeOK, ConnTypeOK
<1> DEFINE failed == {e \in queue : call[e].st = "reset"}
<1>1. queue' = queue \ failed BY DEF BroadcastEnd, RemoveWorkers
<1>2. IsFiniteSet(queue) BY LoadBalancerAssumption, FS_Subset
<1>3. failed \subseteq queue /\ IsFiniteSet(failed) BY <1>2, FS_Subset
<1>4. Cardinality(queue \ failed) = Cardinality(queue) - Cardinality(queue \cap failed)
  BY <1>2, <1>3, FS_Difference
<1>5. queue \cap failed = failed BY <1>3
<1>6. count'[n] = Cardinality(queue) - Cardinality(failed)
  BY DEF BroadcastEnd, SuccessBroadcast
<1> HIDE DEF failed
<1> QED BY <1>1, <1>4, <1>5, <1>6

\* The only step from a broadcast to a closed connection is the end of its
\* broadcast.
LEMMA OnlyBroadcastEnds ==
  ASSUME TypeOK, [Next]_vars, NEW n \in Conn, pc[n] = "broadcast", pc'[n] = "closed"
  PROVE  BroadcastEnd(n)
<1> USE DEF TypeOK, ConnTypeOK, connVars, Goto
<1>1. ASSUME NEW c \in Client, ClientStep(c) \/ ClientFault(c) PROVE FALSE
  BY <1>1 DEF ClientStep, ClientFault, SendMsg, ReadMsg, ConnectFailed, ReadMsgFailed,
              SendMsgFailed
<1>2. ASSUME NEW m \in Conn, ConnStep(m) PROVE BroadcastEnd(n)
  <2>1. m = n
    <3>1. CASE Accept(m) \/ ReadError(m) \/ NoWorkers(m) \/ AnswerAddress(m) \/ PickWorker(m)
      BY <3>1 DEF Accept, ReadError, NoWorkers, AnswerAddress, PickWorker
    <3>2. CASE RelayRefused(m) \/ RelayPunish(m) \/ RelayRetry(m)
      BY <3>2 DEF RelayRefused, RelayPunish, RelayRetry
    <3>3. CASE RelaySend(m) \/ RelayEof(m) \/ RelayReset(m)
      BY <3>3 DEF RelaySend, RelayEof, RelayReset
    <3>4. CASE BroadcastBegin(m) \/ BroadcastEnd(m)
      BY <3>4 DEF BroadcastBegin, BroadcastEnd
    <3> QED BY <1>2, <3>1, <3>2, <3>3, <3>4 DEF ConnStep
  <2> QED BY <1>2, <2>1 DEF ConnStep, Accept, ReadError, NoWorkers, AnswerAddress, PickWorker,
       RelayRefused, RelayPunish, RelayRetry, RelaySend, RelayEof, RelayReset, BroadcastBegin
<1>3. CASE UNCHANGED pc BY <1>3
<1>4. ASSUME NEW m \in Conn, NEW left \in {"whole", "tail"}, RelayWriteError(m, left) PROVE FALSE
  BY <1>4 DEF RelayWriteError
<1> QED BY <1>1, <1>2, <1>3, <1>4
     DEF Next, Fault, RelayFault, ConnThread, PoolTask, BroadcastSend, Resolve, AddThread, Handler,
         vars

\* When end points differ from each other, the workers count in the answer to a
\* broadcast is the number of workers left in the queue (handle_read,
\* success_broadcast, computed before removeWorkerLocked runs).
THEOREM CountsAreExact ==
  (\A e, f \in Entry : Addr[e] = Addr[f] => e = f) => (Spec => CountIsExact)
<1> SUFFICES ASSUME \A e, f \in Entry : Addr[e] = Addr[f] => e = f
             PROVE  Spec => CountIsExact
  OBVIOUS
<1>1. TypeOK /\ [Next]_vars =>
        [\A n \in Conn : pc[n] = "broadcast" /\ pc'[n] = "closed" =>
           count'[n] = Cardinality(queue')]_vars
  BY CountLeft, OnlyBroadcastEnds
<1> QED BY <1>1, TypeCorrect, PTL DEF Spec, CountIsExact

=============================================================================
