------------------------- MODULE BalancerConnection -------------------------
(***************************************************************************)
(* The balancer's client connections.  Each runs handle_read in a thread   *)
(* of its own: a unicast message is answered with a worker's address or    *)
(* relayed to a worker, a broadcast message is sent to every worker of the *)
(* queue while the mutex is held.                                          *)
(***************************************************************************)
EXTENDS LoadBalancer

CONSTANTS
  kMaxFailedWorkersTrials,   \* 3 in the code
  kMaxBroadcastFailedNodes,  \* 2 in the code
  kReportPeriod              \* start_accept reports every 100 jobs

ASSUME BalancerConnectionAssumption ==
  /\ kMaxFailedWorkersTrials \in Nat \ {0}
  /\ kMaxBroadcastFailedNodes \in Nat
  /\ kReportPeriod \in Nat \ {0}

VARIABLES
  pc,      \* pc[n]: where the thread of connection n is
  msg,     \* msg[n]: the message it has read, see Request
  packet,  \* packet[n]: what is left in in_packet_
  target,  \* target[n]: worker_address and port
  trials,  \* trials[n]: failed_workers_trials
  reply,   \* reply[n]: what it has written to the client
  count    \* count[n]: workers count in the answer to a broadcast

connVars == <<pc, msg, packet, target, trials, reply, count>>

\* A client's message: its sender, its type and, for a job, the number of
\* messages a worker answers it with.
Request == [from : Client, op : {"job", "address", "broadcast"}, parts : Nat]
NoRequest == [from |-> CHOOSE c \in Client : TRUE, op |-> "job", parts |-> 1]

\* "free": not accepted; "sending": the client has connected; "lost": it went
\* away before the end of its packet; "read": handle_read has a whole message.
PC == {"free", "sending", "lost", "read", "connect", "relay", "failed", "retry",
       "broadcast", "closed"}

ConnTypeOK ==
  /\ pc \in [Conn -> PC]
  /\ msg \in [Conn -> Request]
  /\ packet \in [Conn -> {"whole", "tail", "empty"}]
  /\ target \in [Conn -> Worker]
  /\ trials \in [Conn -> 0 .. kMaxFailedWorkersTrials]
  /\ reply \in [Conn -> Seq(Msg)]
  /\ count \in [Conn -> Nat]

ConnInit ==
  /\ pc = [n \in Conn |-> "free"]
  /\ msg = [n \in Conn |-> NoRequest]
  /\ packet = [n \in Conn |-> "whole"]
  /\ target = [n \in Conn |-> CHOOSE w \in Worker : TRUE]
  /\ trials = [n \in Conn |-> 0]
  /\ reply = [n \in Conn |-> <<>>]
  /\ count = [n \in Conn |-> 0]

Goto(n, from, to) ==
  /\ pc[n] = from
  /\ pc' = [pc EXCEPT ![n] = to]

-----------------------------------------------------------------------------
(* Accepting.                                                              *)

\* jobs_ counts the accept operations started so far.
Jobs == 1 + Cardinality({n \in Conn : pc[n] \notin {"free", "sending", "lost"}})

\* After each accept the acceptor thread calls start_accept, which reports the
\* load every kReportPeriod jobs and needs the mutex for it; only then does the
\* thread go on to read the new connection.
StartAccept == Jobs % kReportPeriod = 0 => mutex = NoOne

\* handle_accept, start, and handle_read with a whole message.
Accept(n) ==
  /\ Goto(n, "sending", "read")
  /\ StartAccept
  /\ UNCHANGED <<msg, packet, target, trials, reply, count>>
  /\ UNCHANGED <<balancerVars, workerVars>>

\* handle_read with an error: the client went away.
ReadError(n) ==
  /\ Goto(n, "lost", "closed")
  /\ StartAccept
  /\ UNCHANGED <<msg, packet, target, trials, reply, count>>
  /\ UNCHANGED <<balancerVars, workerVars>>

-----------------------------------------------------------------------------
(* Unicast.                                                                *)

\* No worker in the queue: close without an answer.
NoWorkers(n) ==
  /\ Goto(n, "read", "closed")
  /\ msg[n].op # "broadcast"
  /\ mutex = NoOne /\ queue = {}
  /\ UNCHANGED <<msg, packet, target, trials, reply, count>>
  /\ UNCHANGED <<balancerVars, workerVars>>

\* kBalancer: the client asks for a worker's address.
AnswerAddress(n) ==
  /\ Goto(n, "read", "closed")
  /\ msg[n].op = "address"
  /\ \E e \in queue :
       /\ PickTop(e)
       /\ target' = [target EXCEPT ![n] = Addr[e]]
  /\ reply' = [reply EXCEPT ![n] = <<"address">>]
  /\ UNCHANGED <<msg, packet, trials, count>>
  /\ UNCHANGED <<queue, broadcastData, mutex, lookupVars>>
  /\ UNCHANGED workerVars

\* Any other unicast job is relayed to the next worker.
PickWorker(n) ==
  /\ Goto(n, "read", "connect")
  /\ msg[n].op = "job"
  /\ \E e \in queue :
       /\ PickTop(e)
       /\ target' = [target EXCEPT ![n] = Addr[e]]
  /\ UNCHANGED <<msg, packet, trials, reply, count>>
  /\ UNCHANGED <<queue, broadcastData, mutex, lookupVars>>
  /\ UNCHANGED workerVars

\* What writing in_packet_ puts on the wire.
Sent(n) ==
  CASE packet[n] = "whole" -> Call(target[n], "job", msg[n].parts)
    [] packet[n] = "tail"  -> Call(target[n], "tail", 0)
    [] packet[n] = "empty" -> Call(target[n], "nothing", 0)

\* Mutated form of Consumed: the packet is kept for another worker.
Kept(n) == packet[n]

\* What asio::write leaves in in_packet_: it consumes what it has written.
Consumed(n) == "empty"

\* connect and asio::write succeed.
RelaySend(n) ==
  /\ Goto(n, "connect", "relay")
  /\ up[target[n]]
  /\ call' = [call EXCEPT ![n] = Sent(n)]
  /\ packet' = [packet EXCEPT ![n] = Consumed(n)]
  /\ UNCHANGED <<msg, target, trials, reply, count>>
  /\ UNCHANGED balancerVars
  /\ UNCHANGED <<up, applied, restarts, faults, faulty, buffer, runs>>

\* connect is refused.
RelayRefused(n) ==
  /\ Goto(n, "connect", "failed")
  /\ ~ up[target[n]]
  /\ UNCHANGED <<msg, packet, target, trials, reply, count>>
  /\ UNCHANGED <<balancerVars, workerVars>>

\* The connection breaks during asio::write, before or after some of the packet
\* was written.
RelayWriteError(n, left) ==
  /\ Goto(n, "connect", "failed")
  /\ up[target[n]] /\ faults < MaxFaults
  /\ packet[n] # "empty" /\ left \in {packet[n], "tail"}
  /\ packet' = [packet EXCEPT ![n] = left]
  /\ faults' = faults + 1
  /\ faulty' = faulty \cup {target[n]}
  /\ UNCHANGED <<msg, target, trials, reply, count>>
  /\ UNCHANGED balancerVars
  /\ UNCHANGED <<up, applied, restarts, call, buffer, runs>>

\* The read ends with "read: End of file": relay what was received, close.
RelayEof(n) ==
  /\ Goto(n, "relay", "closed")
  /\ call[n].st = "eof"
  /\ call' = [call EXCEPT ![n] = NoCall]
  /\ reply' = [reply EXCEPT ![n] = buffer[n]]
  /\ UNCHANGED <<msg, packet, target, trials, count>>
  /\ UNCHANGED balancerVars
  /\ UNCHANGED <<up, applied, restarts, faults, faulty, buffer, runs>>

\* The read ends with any other exception.
RelayReset(n) ==
  /\ Goto(n, "relay", "failed")
  /\ call[n].st = "reset"
  /\ call' = [call EXCEPT ![n] = NoCall]
  /\ UNCHANGED <<msg, packet, target, trials, reply, count>>
  /\ UNCHANGED balancerVars
  /\ UNCHANGED <<up, applied, restarts, faults, faulty, buffer, runs>>

\* Mutated form of TrialsUsedUp: one trial too many.
TrialsUsedUpLate(n) == trials[n] = kMaxFailedWorkersTrials

\* The failure being handled is the last one allowed.
TrialsUsedUp(n) == trials[n] + 1 = kMaxFailedWorkersTrials

\* After an exception: punish the worker, and give up with kError when the
\* trials are used up.
RelayPunish(n) ==
  LET giveUp == TrialsUsedUp(n) IN
  /\ Goto(n, "failed", IF giveUp THEN "closed" ELSE "retry")
  /\ PunishWorker(target[n])
  /\ trials' = [trials EXCEPT ![n] = @ + 1]
  /\ reply' = IF giveUp THEN [reply EXCEPT ![n] = <<"error">>] ELSE reply
  /\ UNCHANGED <<msg, packet, target, count>>
  /\ UNCHANGED <<queue, broadcastData, mutex, lookupVars>>
  /\ UNCHANGED workerVars

\* Mutated form of KeepAddress: wait for a worker to be added.
WaitForWorker == FALSE

\* getNextWorker with an empty queue leaves the address as it is.
KeepAddress == mutex = NoOne /\ queue = {}

\* Take the next worker.
RelayRetry(n) ==
  /\ Goto(n, "retry", "connect")
  /\ \/ \E e \in queue :
          /\ PickTop(e)
          /\ target' = [target EXCEPT ![n] = Addr[e]]
     \/ KeepAddress /\ UNCHANGED <<priority, target>>
  /\ UNCHANGED <<msg, packet, trials, reply, count>>
  /\ UNCHANGED <<queue, broadcastData, mutex, lookupVars>>
  /\ UNCHANGED workerVars

-----------------------------------------------------------------------------
(* Broadcast, under the mutex from beginning to end.                       *)

\* Save the message and post one task per entry of the queue.
BroadcastBegin(n) ==
  /\ Goto(n, "read", "broadcast")
  /\ msg[n].op = "broadcast"
  /\ mutex = NoOne
  /\ mutex' = n
  /\ broadcastData' = Append(broadcastData, msg[n].from)
  /\ call' = [id \in CallId |->
       IF id \in queue
       THEN [Call(Addr[id], "broadcast", Len(broadcastData) + 1) EXCEPT !.st = "posted"]
       ELSE call[id]]
  /\ UNCHANGED <<msg, packet, target, trials, reply, count>>
  /\ UNCHANGED <<queue, priority, lookupVars>>
  /\ UNCHANGED <<up, applied, restarts, faults, faulty, buffer, runs>>

\* One task of the pool connects and writes.
BroadcastSend(e) ==
  /\ e \in Entry /\ call[e].st = "posted"
  /\ call' = [call EXCEPT ![e].st = IF up[call[e].to] THEN "sent" ELSE "reset"]
  /\ UNCHANGED <<connVars, balancerVars>>
  /\ UNCHANGED <<up, applied, restarts, faults, faulty, buffer, runs>>

\* kError, as the code decides it after the failed workers were removed.
BroadcastFailed(failed, left) ==
  /\ failed # {}
  /\ \/ Cardinality(failed) > kMaxBroadcastFailedNodes
     \/ Cardinality(failed) = Cardinality(left)

\* Mutated form of TasksDone: wait until every worker has received the message.
AllReceived == \A e \in queue : call[e].st = "eof"

\* pool.join(): every task has ended, one way or the other.
TasksDone == \A e \in queue : call[e].st \in {"eof", "reset"}

\* Mutated form of SuccessBroadcast: failed workers are counted too.
AllBroadcast(failed) == Cardinality(queue)

\* success_broadcast, computed before the failed workers are removed.
SuccessBroadcast(failed) == Cardinality(queue) - Cardinality(failed)

\* pool.join() returns: remove the workers that failed, answer, unlock.
BroadcastEnd(n) ==
  LET failed == {e \in queue : call[e].st = "reset"} IN
  /\ Goto(n, "broadcast", "closed")
  /\ TasksDone
  /\ RemoveWorkers(failed)
  /\ count' = [count EXCEPT ![n] = SuccessBroadcast(failed)]
  /\ reply' = [reply EXCEPT ![n] = IF BroadcastFailed(failed, queue')
                                   THEN <<"error">> ELSE <<"success">>]
  /\ call' = [id \in CallId |-> IF id \in queue THEN NoCall ELSE call[id]]
  /\ mutex' = NoOne
  /\ UNCHANGED <<msg, packet, target, trials>>
  /\ UNCHANGED <<priority, broadcastData, lookupVars>>
  /\ UNCHANGED <<up, applied, restarts, faults, faulty, buffer, runs>>

ConnStep(n) ==
  \/ Accept(n)
  \/ ReadError(n)
  \/ NoWorkers(n)
  \/ AnswerAddress(n)
  \/ PickWorker(n)
  \/ RelaySend(n)
  \/ RelayRefused(n)
  \/ RelayEof(n)
  \/ RelayReset(n)
  \/ RelayPunish(n)
  \/ RelayRetry(n)
  \/ BroadcastBegin(n)
  \/ BroadcastEnd(n)
=============================================================================
