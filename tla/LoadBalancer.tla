---------------------------- MODULE LoadBalancer ----------------------------
(***************************************************************************)
(* The balancer's shared state: the queue of workers ordered by load, the  *)
(* history of broadcast messages, the mutex that guards both, and the      *)
(* thread that discovers workers by resolving a domain name.               *)
(*                                                                         *)
(* An entry of the std::priority_queue is named by the addWorker call that *)
(* created it (Entry); two entries may hold the same address.  Entries of  *)
(* equal priority are in the order of the heap, which the model leaves     *)
(* open.                                                                   *)
(***************************************************************************)
EXTENDS DstWorker

CONSTANTS
  Addr,         \* Addr[e]: the address entry e was added with
  Client,       \* the threads of the leader that send jobs
  UseDomain,    \* workers come from a domain name, not from end_points_
  MaxPriority,  \* largest value of the priority field (2^16 - 1 in the code)
  NoOne         \* nobody holds the mutex

ASSUME LoadBalancerAssumption ==
  /\ Addr \in [Entry -> Worker]
  /\ UseDomain \in BOOLEAN
  /\ UseDomain => \A e, f \in Entry : Addr[e] = Addr[f] => e = f
  /\ MaxPriority \in Nat \ {0, 1}
  /\ NoOne \notin CallId
  /\ Entry # {} /\ IsFiniteSet(Entry)
  /\ Client # {}

VARIABLES
  queue,          \* workers_: the entries in the queue
  priority,       \* priority[e], of entries in the queue
  broadcastData,  \* broadcastData_: senders of the broadcasts saved so far
  mutex,          \* holder of workers_mutex_
  known,          \* workers_set: entries the discovery thread has seen
  pending,        \* new_workers: entries it has still to add
  lookup,         \* its program counter
  adding,         \* the entry addWorker is adding
  replayed        \* how many saved broadcasts addWorker has replayed to it

balancerVars == <<queue, priority, broadcastData, mutex, known, pending, lookup, adding, replayed>>
lookupVars == <<known, pending, lookup, adding, replayed>>

BalancerTypeOK ==
  /\ queue \in SUBSET Entry
  /\ priority \in [Entry -> 0 .. MaxPriority]
  /\ broadcastData \in Seq(Client)
  /\ mutex \in CallId \cup {NoOne}
  /\ known \in SUBSET Entry
  /\ pending \in SUBSET Entry
  /\ lookup \in {"resolve", "add", "replay", "wait"}
  /\ adding \in Entry
  /\ replayed \in Nat

\* runLoadBalancer without a domain adds every configured end point before it
\* serves its first request; the history is empty then, so each is accepted.
BalancerInit ==
  /\ queue = IF UseDomain THEN {} ELSE Entry
  /\ priority = [e \in Entry |-> 0]
  /\ broadcastData = <<>>
  /\ mutex = NoOne
  /\ known = {}
  /\ pending = {}
  /\ lookup = "resolve"
  /\ adding = CHOOSE e \in Entry : TRUE
  /\ replayed = 0

-----------------------------------------------------------------------------
(* The queue.                                                              *)

\* Mutated form of IsTop: the comparison is turned round.
IsBottom(e) == e \in queue /\ \A f \in queue : priority[e] >= priority[f]

\* workers_.top(): an entry with the least priority.
IsTop(e) == e \in queue /\ \A f \in queue : priority[e] <= priority[f]

\* getNextWorker moves the entry it returns behind by one, saturating.
Bumped(p) == IF p # MaxPriority THEN p + 1 ELSE p

\* punishWorker doubles the priority, in an unsigned 16-bit field.
Punished(p) == IF p = 0 THEN 2 ELSE (p * 2) % (MaxPriority + 1)

\* getNextWorker: some top entry is returned and moved behind.
PickTop(e) ==
  /\ mutex = NoOne
  /\ IsTop(e)
  /\ priority' = [priority EXCEPT ![e] = Bumped(@)]

\* punishWorker: every entry with this address is moved behind.
PunishWorker(w) ==
  /\ mutex = NoOne
  /\ priority' = [e \in Entry |-> IF e \in queue /\ Addr[e] = w
                                  THEN Punished(priority[e]) ELSE priority[e]]

\* Mutated forms of RemoveWorkers: nothing is removed; every worker on the host of
\* a failed one is removed.
KeepWorkers(failed) == queue' = queue
RemoveHost(failed) == queue' = {e \in queue : failed = {}}

\* removeWorkerLocked, for each failed entry: every entry with its address goes.
RemoveWorkers(failed) ==
  queue' = {e \in queue : \A f \in failed : Addr[f] # Addr[e]}

-----------------------------------------------------------------------------
(* Discovery: lookUpWorkers and addWorker.  addWorker keeps the mutex      *)
(* while it replays the whole broadcast history to the new worker.         *)

\* One resolution of the domain: found is what the name server answers.
\* Entries seen before are skipped, also those whose addWorker failed.
LookUpWorkers(found) ==
  /\ UseDomain
  /\ lookup = "resolve"
  /\ known' = known \cup found
  /\ pending' = found \ known
  /\ lookup' = IF found \subseteq known THEN "resolve" ELSE "add"
  /\ UNCHANGED <<queue, priority, broadcastData, mutex, adding, replayed>>
  /\ UNCHANGED workerVars

AddWorkerLock(e) ==
  /\ lookup = "add" /\ e \in pending
  /\ mutex = NoOne
  /\ mutex' = LookUp
  /\ adding' = e
  /\ pending' = pending \ {e}
  /\ replayed' = 0
  /\ lookup' = "replay"
  /\ UNCHANGED <<queue, priority, broadcastData, known>>
  /\ UNCHANGED workerVars

\* Mutated form of ReplayIndex: the latest broadcast first.
LatestFirst == Len(broadcastData) - replayed

\* The loop goes through broadcastData_ from its beginning ...
ReplayIndex == replayed + 1

\* Mutated form of ReplayDone: the last one is left out.
ReplayDoneEarly == replayed + 1 >= Len(broadcastData)

\* ... to its end.
ReplayDone == replayed >= Len(broadcastData)

\* Connect to the new worker and write the next saved broadcast.
ReplayNext ==
  LET w == Addr[adding] IN
  /\ lookup = "replay" /\ ~ ReplayDone
  /\ call' = [call EXCEPT ![LookUp] =
       [Call(w, "broadcast", ReplayIndex) EXCEPT !.st = IF up[w] THEN "sent" ELSE "reset"]]
  /\ lookup' = "wait"
  /\ UNCHANGED <<queue, priority, broadcastData, mutex, known, pending, adding, replayed>>
  /\ UNCHANGED <<up, applied, restarts, faults, faulty, buffer, runs>>

AfterAdd == IF pending = {} THEN "resolve" ELSE "add"

\* The read ended with an end of file: the worker counts as having received it.
ReplayEof ==
  /\ lookup = "wait" /\ call[LookUp].st = "eof"
  /\ call' = [call EXCEPT ![LookUp] = NoCall]
  /\ replayed' = replayed + 1
  /\ lookup' = "replay"
  /\ UNCHANGED <<queue, priority, broadcastData, mutex, known, pending, adding>>
  /\ UNCHANGED <<up, applied, restarts, faults, faulty, buffer, runs>>

\* Any other exception: addWorker returns false, which lookUpWorkers ignores.
ReplayFailed ==
  /\ lookup = "wait" /\ call[LookUp].st = "reset"
  /\ call' = [call EXCEPT ![LookUp] = NoCall]
  /\ mutex' = NoOne
  /\ lookup' = AfterAdd
  /\ UNCHANGED <<queue, priority, broadcastData, known, pending, adding, replayed>>
  /\ UNCHANGED <<up, applied, restarts, faults, faulty, buffer, runs>>

\* The whole history is replayed: the worker enters the queue with priority 0.
AddWorkerDone ==
  /\ lookup = "replay" /\ ReplayDone
  /\ queue' = queue \cup {adding}
  /\ priority' = [priority EXCEPT ![adding] = 0]
  /\ mutex' = NoOne
  /\ lookup' = AfterAdd
  /\ UNCHANGED <<broadcastData, known, pending, adding, replayed>>
  /\ UNCHANGED workerVars

AddWorkerStep ==
  \/ \E e \in Entry : AddWorkerLock(e)
  \/ ReplayNext
  \/ ReplayEof
  \/ ReplayFailed
  \/ AddWorkerDone
=============================================================================
