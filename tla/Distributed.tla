----------------------------- MODULE Distributed -----------------------------
(***************************************************************************)
(* The leader's side of the job system, and the whole system: client       *)
(* threads that call sendJob or sendJobMultiResult, the balancer and the   *)
(* workers.                                                                *)
(*                                                                         *)
(* Each client thread makes one call.  A call tries up to kMaxTries times; *)
(* every try is a new connection to the balancer.  No socket has a         *)
(* timeout.                                                                *)
(***************************************************************************)
EXTENDS BalancerConnection

CONSTANTS
  kMaxTries,   \* 5 in the code
  CallOf,      \* CallOf[c]: the call thread c makes, see CallKind
  RouteParts   \* messages a worker answers a routing job with

\* sendJob with a pin-access job, sendJobMultiResult with a routing job, sendJob
\* with kBalancer, sendJob with a broadcast message.
CallKind == {"single", "multi", "address", "broadcast"}

ASSUME DistributedAssumption ==
  /\ kMaxTries \in Nat \ {0}
  /\ CallOf \in [Client -> CallKind]
  /\ RouteParts \in Nat \ {0}

VARIABLES
  state,   \* state[c]: "idle" (between tries), "waiting" for an answer, "done"
  tries,   \* tries[c]: tries begun
  conn,    \* conn[c]: the connection of the current try
  ok,      \* ok[c]: what the call returned
  result,  \* result[c]: the job type in the caller's result message
  descs    \* descs[c]: the messages whose descriptions the caller was given

clientVars == <<state, tries, conn, ok, result, descs>>
vars == <<clientVars, connVars, balancerVars, workerVars>>

ClientTypeOK ==
  /\ state \in [Client -> {"idle", "waiting", "done"}]
  /\ tries \in [Client -> 0 .. kMaxTries]
  /\ conn \in [Client -> Conn \cup {NoOne}]
  /\ \A c \in Client : state[c] = "waiting" => conn[c] \in Conn
  /\ ok \in [Client -> BOOLEAN]
  /\ result \in [Client -> {"kNone", "kSuccess", "kError"}]
  /\ descs \in [Client -> Seq(Msg)]

ClientInit ==
  /\ state = [c \in Client |-> "idle"]
  /\ tries = [c \in Client |-> 0]
  /\ conn = [c \in Client |-> NoOne]
  /\ ok = [c \in Client |-> FALSE]
  /\ result = [c \in Client |-> "kNone"]
  /\ descs = [c \in Client |-> <<>>]

-----------------------------------------------------------------------------

RequestOf(c) ==
  [from |-> c,
   op |-> IF CallOf[c] \in {"single", "multi"} THEN "job" ELSE CallOf[c],
   parts |-> IF CallOf[c] = "multi" THEN RouteParts ELSE 1]

\* One try is over without an answer: go on to the next, or return false.
GiveUpTry(c) ==
  /\ state' = [state EXCEPT ![c] = IF tries'[c] < kMaxTries THEN "idle" ELSE "done"]
  /\ UNCHANGED <<ok, result, descs>>

\* connect and sendMsg succeed: the balancer gets a new connection.
SendMsg(c, n) ==
  /\ state[c] = "idle"
  /\ Goto(n, "free", "sending")
  /\ msg' = [msg EXCEPT ![n] = RequestOf(c)]
  /\ state' = [state EXCEPT ![c] = "waiting"]
  /\ tries' = [tries EXCEPT ![c] = @ + 1]
  /\ conn' = [conn EXCEPT ![c] = n]
  /\ UNCHANGED <<ok, result, descs>>
  /\ UNCHANGED <<packet, target, trials, reply, count>>
  /\ UNCHANGED <<balancerVars, workerVars>>

\* connect fails: sendJob tries again, sendJobMultiResult returns false.
ConnectFailed(c) ==
  /\ state[c] = "idle" /\ faults < MaxFaults
  /\ faults' = faults + 1
  /\ tries' = [tries EXCEPT ![c] = @ + 1]
  /\ IF CallOf[c] = "multi"
     THEN /\ state' = [state EXCEPT ![c] = "done"]
          /\ UNCHANGED <<ok, result, descs>>
     ELSE GiveUpTry(c)
  /\ UNCHANGED conn
  /\ UNCHANGED <<connVars, balancerVars>>
  /\ UNCHANGED <<up, applied, restarts, faulty, call, buffer, runs>>

\* sendMsg fails on a fresh connection.
SendMsgFailed(c, n) ==
  /\ state[c] = "idle" /\ faults < MaxFaults
  /\ Goto(n, "free", "lost")
  /\ faults' = faults + 1
  /\ tries' = [tries EXCEPT ![c] = @ + 1]
  /\ GiveUpTry(c)
  /\ UNCHANGED conn
  /\ UNCHANGED <<msg, packet, target, trials, reply, count>>
  /\ UNCHANGED balancerVars
  /\ UNCHANGED <<up, applied, restarts, faulty, call, buffer, runs>>

\* readMsg fails while the balancer goes on with the job.
ReadMsgFailed(c) ==
  /\ state[c] = "waiting" /\ faults < MaxFaults
  /\ faults' = faults + 1
  /\ UNCHANGED <<tries, conn>>
  /\ GiveUpTry(c)
  /\ UNCHANGED <<connVars, balancerVars>>
  /\ UNCHANGED <<up, applied, restarts, faulty, call, buffer, runs>>

\* serializeMsg(kRead) parses the message the answer begins with.
Parses(m) == m \notin {"fragment", "zero"}

\* Mutated form of JobType: any answer counts as a success.
AlwaysSuccess(m) == "kSuccess"

JobType(m) ==
  CASE m = "error" -> "kError"
    [] m = "part"  -> "kNone"
    [] OTHER       -> "kSuccess"

\* getNextMsg splits the answer at the ends of packets; what follows the last
\* one is dropped.  Only the last message of an answer can lack its end.
Split(answer) ==
  IF Parses(answer[Len(answer)]) THEN answer ELSE SubSeq(answer, 1, Len(answer) - 1)

\* What readMsg hands on; an empty answer is a failure.
Usable(c, answer) ==
  /\ answer # <<>>
  /\ CallOf[c] # "multi" => Parses(Head(answer))

\* sendJob takes the job type of the answer; sendJobMultiResult collects the
\* descriptions of all messages and sets kSuccess.
ReturnResult(c, answer) ==
  /\ state' = [state EXCEPT ![c] = "done"]
  /\ ok' = [ok EXCEPT ![c] = TRUE]
  /\ IF CallOf[c] = "multi"
     THEN /\ result' = [result EXCEPT ![c] = "kSuccess"]
          /\ descs' = [descs EXCEPT ![c] = @ \o Split(answer)]
     ELSE /\ result' = [result EXCEPT ![c] = JobType(Head(answer))]
          /\ descs' = [descs EXCEPT ![c] = <<Head(answer)>>]

\* The balancer has closed the connection: readMsg returns what it wrote.
ReadMsg(c) ==
  LET answer == reply[conn[c]] IN
  /\ state[c] = "waiting" /\ pc[conn[c]] = "closed"
  /\ UNCHANGED <<tries, conn>>
  /\ IF Usable(c, answer) THEN ReturnResult(c, answer) ELSE GiveUpTry(c)
  /\ UNCHANGED <<connVars, balancerVars, workerVars>>

-----------------------------------------------------------------------------

Init == WorkerInit /\ BalancerInit /\ ConnInit /\ ClientInit

ClientStep(c) == ReadMsg(c) \/ \E n \in Conn : SendMsg(c, n)

ClientFault(c) ==
  \/ ConnectFailed(c)
  \/ ReadMsgFailed(c)
  \/ \E n \in Conn : SendMsgFailed(c, n)

RelayFault(n) == \E left \in {"whole", "tail"} : RelayWriteError(n, left)

\* Steps of the balancer and of the workers, with the parts they leave alone.
ConnThread(n) == ConnStep(n) /\ UNCHANGED clientVars
PoolTask(e) == BroadcastSend(e) /\ UNCHANGED clientVars
Resolve == (\E found \in SUBSET Entry : LookUpWorkers(found)) /\ UNCHANGED <<clientVars, connVars>>
AddThread == AddWorkerStep /\ UNCHANGED <<clientVars, connVars>>
Handler(id) == HandlerStep(id) /\ UNCHANGED <<clientVars, connVars, balancerVars>>
Fault ==
  \/ FaultStep /\ UNCHANGED <<clientVars, connVars, balancerVars>>
  \/ (\E n \in Conn : RelayFault(n)) /\ UNCHANGED clientVars
  \/ \E c \in Client : ClientFault(c)

Next ==
  \/ \E c \in Client : ClientStep(c)
  \/ \E n \in Conn : ConnThread(n)
  \/ \E e \in Entry : PoolTask(e)
  \/ Resolve
  \/ AddThread
  \/ \E id \in CallId : Handler(id)
  \/ Fault

Spec == Init /\ [][Next]_vars

\* Every thread of the leader, the balancer and the workers keeps running while
\* it can: the operating system schedules all of them.  Nothing is assumed of
\* the network, of faults or of the name server.
Fairness ==
  /\ \A c \in Client : WF_vars(ClientStep(c))
  /\ \A n \in Conn : WF_vars(ConnThread(n))
  /\ \A e \in Entry : WF_vars(PoolTask(e))
  /\ WF_vars(AddThread)
  /\ \A id \in CallId : WF_vars(Handler(id))

FairSpec == Spec /\ Fairness

-----------------------------------------------------------------------------
(* Properties.                                                             *)

\* Every variable keeps its type (the fields of LoadBalancer, of
\* BalancerConnection and the locals of sendJob and sendJobMultiResult).
TypeOK == ClientTypeOK /\ ConnTypeOK /\ BalancerTypeOK /\ WorkerTypeOK

\* A relay that is still going on and a call that will try again have a trial
\* left: no path through the loops of handle_read, sendJob and
\* sendJobMultiResult uses more than kMaxFailedWorkersTrials or kMaxTries.
LimitsKept ==
  /\ \A n \in Conn : pc[n] # "closed" => trials[n] < kMaxFailedWorkersTrials
  /\ \A c \in Client : state[c] = "idle" => tries[c] < kMaxTries

\* Whenever the balancer can hand out workers, a queued worker that never failed
\* has applied every broadcast saved so far, although broadcasts, their failures,
\* workers that start late and workers being added run concurrently
\* (handle_read, kBroadcast; addWorker).
QueuedWorkersUpToDate ==
  mutex = NoOne =>
    \A e \in queue : Addr[e] \notin faulty =>
      1 .. Len(broadcastData) \subseteq applied[Addr[e]]

\* A worker applies broadcasts in the order in which the balancer saved them: it
\* has none without the earlier ones, also when it joins late and is sent the
\* history by addWorker.
AppliedInOrder ==
  \A w \in Worker \ faulty : \A i \in applied[w] : 1 .. i \subseteq applied[w]

\* However often the relay of a connection goes on to another worker after a
\* failure, the client's job is started at most once per connection
\* (BalancerConnection::handle_read, kUnicast).
StartedAtMostOnce == \A n \in Conn : runs[n] <= 1

\* When sendJob returns with kSuccess, a worker ran this job to its end: none of
\* the failures on the way (a refused or broken relay, a worker that dies while
\* it runs the job, a lost answer) is reported as a success (sendJob, readMsg,
\* handle_read).
SuccessIsGenuine ==
  \A c \in Client :
    ok[c] /\ result[c] = "kSuccess" /\ CallOf[c] = "single" =>
      \E n \in Conn : msg[n].from = c /\ runs[n] > 0 /\ buffer[n] = <<"final">>

\* The results sendJobMultiResult collects are those of one run of the job, in
\* order and none twice, or the balancer's error: although the relay keeps its
\* receive buffer when it goes on to another worker, and the client retries.
ResultsOfOneRun ==
  \A c \in Client : CallOf[c] = "multi" /\ ok[c] =>
    \/ descs[c] = <<"error">>
    \/ \A i \in 1 .. Len(descs[c]) :
         descs[c][i] = IF i < RouteParts THEN "part" ELSE "final"

\* The workers count in the answer to a broadcast is the number of workers that
\* are left in the queue, all of which have received it (handle_read,
\* success_broadcast), for end points that differ from each other.
CountIsExact ==
  [][\A n \in Conn : pc[n] = "broadcast" /\ pc'[n] = "closed" =>
       count'[n] = Cardinality(queue')]_vars

\* A configured worker that runs from the beginning and never failed is never
\* dropped from the queue (removeWorkerLocked).
HealthyWorkersStay ==
  ~ UseDomain =>
    \A e \in Entry : LET w == Addr[e] IN
      up[w] /\ restarts[w] = 0 /\ w \notin faulty => e \in queue

\* As long as no relay has failed the load is even: the priorities, which count
\* the jobs handed to each worker, differ by at most one (getNextWorker).
LoadIsEven ==
  ~ UseDomain /\ (\A n \in Conn : trials[n] = 0) =>
    \A e, f \in queue : priority[e] <= priority[f] + 1

\* A client whose connection is relayed with nothing left to send waits for a
\* worker that waits for it.
Starved(c) ==
  LET n == conn[c] IN
  state[c] = "waiting" /\ pc[n] = "relay" /\ call[n].st = "sent" /\ call[n].kind = "nothing"

\* Every call of sendJob and sendJobMultiResult returns, except when the relay
\* retries a job whose packet an earlier worker already took.
CallsReturn == \A c \in Client : <>[](state[c] = "done" \/ Starved(c))

\* The mutex, held across network traffic by broadcasts and by addWorker, is
\* always released again.
MutexIsReleased == []<>(mutex = NoOne)

-----------------------------------------------------------------------------
(* What the code's own messages, comments and tests say, and the code does *)
(* not do; each is checked by a run that finds a counterexample.           *)

\* "worker with ip ... and port ... will be pushed back the queue" (message 204,
\* logged before punishWorker): punishing never moves a worker forward.
PunishedIsPushedBack ==
  [][\A n \in Conn : pc[n] = "failed" /\ pc'[n] \in {"closed", "retry"} =>
       \A e \in queue : Addr[e] = target[n] => priority'[e] >= priority[e]]_vars

\* "No more than 2 workers failed to receive the broadcast": the answer is kError
\* only when more workers failed than kMaxBroadcastFailedNodes.
BroadcastErrorOnlyAboveLimit ==
  [][\A n \in Conn : pc[n] = "broadcast" /\ pc'[n] = "closed" /\ reply'[n] = <<"error">> =>
       Cardinality(queue) - Cardinality(queue') > kMaxBroadcastFailedNodes]_vars

\* "Maximum of {} failing workers reached, relaying error to leader": the leader's
\* call then reports an error.
ErrorReachesLeader ==
  \A c \in Client :
    state[c] = "done" /\ ok[c] /\ reply[conn[c]] = <<"error">> => result[c] = "kError"
=============================================================================
