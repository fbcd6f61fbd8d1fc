---------------------------- MODULE DesignUpdates ----------------------------
(* How the leader of distributed detailed routing (TritonRoute::main and   *)
(* FlexDR) keeps the copies of the design that its workers hold in step    *)
(* with its own.                                                           *)
(*                                                                         *)
(* The leader's main thread, the pool of one thread that sends broadcasts  *)
(* in its background, the files of the shared volume, the broadcasts the   *)
(* load balancer saves and replays to workers that join late, and the      *)
(* handlers of RoutingCallBack are modelled.  A change of the design is    *)
(* its number in the order in which the leader makes the changes; the      *)
(* globals are the number of the writeGlobals that wrote them.             *)
EXTENDS Integers, FiniteSets, SequencesExt

CONSTANTS
  Worker,          \* the workers
  Present,         \* those the balancer has from the beginning
  Batches,         \* batches of updates_ (2 * MAX_THREADS)
  Iterations,      \* rounds of searchRepair
  GlobalsAt,       \* the rounds that write globals.<iter>.ar
  MaxBatches,      \* bound on the batches of jobs in a round
  MaxUpdates,      \* bound on the changes the leader makes
  MaxFaults,       \* bound on calls of sendJob that go wrong
  MaxDrops,        \* bound on workers that fail a broadcast
  NoWorker         \* no worker is joining

ASSUME SizesAssumption ==
  /\ Present \subseteq Worker /\ NoWorker \notin Worker
  /\ Batches \in Nat \ {0} /\ Iterations \in Nat \ {0}
  /\ GlobalsAt \subseteq 0 .. Iterations - 1 /\ 0 \in GlobalsAt
  /\ MaxBatches \in Nat /\ MaxUpdates \in Nat /\ MaxFaults \in Nat /\ MaxDrops \in Nat

VARIABLES
  doPA,            \* DO_PA, an option of detailed_route
  pc,              \* where TritonRoute::main is
  paThread,        \* the calls pa_thread has left; <<>> when it has ended
  pool,            \* the tasks posted to dist_pool_; the first one is running
  stage,           \* how far main and pool are in sendDesignDist, sendDesignUpdates
  iter, version,   \* FlexDR::iter_ and the version of optimizationFlow
  path,            \* FlexDR::router_cfg_path_
  updates,         \* frDesign::updates_ ...
  updatesSz,       \* ... and updates_sz_
  made,            \* changes the leader has made to its design
  taMade,          \* those made by track assignment
  writes,          \* calls of writeGlobals so far
  globalsFile,     \* the globals files by path, 0 if not written
  updatesFile,     \* updates_<i>.bin, for all i
  saved,           \* broadcastData_ of the load balancer ...
  savedFiles,      \* ... and, as history, the updates files when each was sent
  members,         \* the workers in the balancer's queue
  known,           \* the workers the balancer has ever looked up
  joiner,          \* [worker, next]: addWorker and the broadcast it replays next
  worker,          \* what each worker holds ...
  applied,         \* ... and the changes it has made to its design
  stale,           \* workers that replayed a broadcast whose files had changed
  faults, drops    \* faults so far

mainVars == <<doPA, pc, paThread, iter, version, path>>
designVars == <<updates, updatesSz, made, taMade>>
fileVars == <<writes, globalsFile, updatesFile>>
cloudVars == <<saved, savedFiles, members, worker, applied, faults, drops>>
joinVars == <<known, joiner, stale>>
vars == <<mainVars, pool, stage, designVars, fileVars, cloudVars, joinVars>>

None == -1         \* the empty path
DesignCfg == -2    \* DESIGN.router_cfg; globals.<iter>.ar is iter
Paths == {DesignCfg} \cup 0 .. Iterations - 1

-----------------------------------------------------------------------------
(* frDesign::updates_                                                      *)

NoUpdates == [b \in 1 .. Batches |-> <<>>]

hasUpdates == updatesSz # 0

\* addUpdate: the updates go round the batches.
addUpdate(batches, sz, u) == [batches EXCEPT ![(sz % Batches) + 1] = Append(@, u)]

\* The leader makes n changes.
addUpdates(n) ==
  /\ made + n <= MaxUpdates
  /\ updates' = FoldLeft(LAMBDA batches, i : addUpdate(batches, updatesSz + i - 1, made + i),
                         updates, [i \in 1 .. n |-> i])
  /\ updatesSz' = updatesSz + n
  /\ made' = made + n

\* Mutated form of applyUpdates: batch after batch.
applyByBatch(batches) == FlattenSeq(batches)

\* The changes so far, and the j-th update of every batch that has one.
ApplyRow(done, batches, j) ==
  FoldLeft(LAMBDA d, batch : IF Len(batch) >= j THEN Append(d, batch[j]) ELSE d, done, batches)

\* applyUpdates: the first of every batch, then the second of every batch ...;
\* the first batch is the longest.
applyUpdates(batches) ==
  FoldLeft(LAMBDA done, j : ApplyRow(done, batches, j), <<>>, [j \in 1 .. Len(batches[1]) |-> j])

-----------------------------------------------------------------------------
(* The handlers of the workers.                                            *)

EmptyWorker == [loaded |-> FALSE, paReady |-> FALSE, prepared |-> FALSE,
                cfgPath |-> None, globals |-> 0, viaData |-> FALSE, broken |-> FALSE]

\* What a broadcast says: its kind, the globals path and whether it has via data.
Msg(kind, p, via) == [kind |-> kind, path |-> p, via |-> via]

\* Mutated form of loadGlobals: a worker that has read globals keeps them.
loadGlobalsOnce(s, p) ==
  IF p # None /\ s.cfgPath = None
  THEN [s EXCEPT !.cfgPath = p, !.globals = globalsFile[p]]
  ELSE s

\* onFrDesignUpdated, globals: read when their path is not the one read last.
loadGlobals(s, p) ==
  IF p # None /\ p # s.cfgPath
  THEN [s EXCEPT !.cfgPath = p, !.globals = globalsFile[p]]
  ELSE s

\* resetDb: an error if the worker has a design; guides and region query are
\* prepared when the database has access points, which it has without DO_PA.
resetDb(s) ==
  [s EXCEPT !.broken = @ \/ s.loaded, !.loaded = TRUE, !.prepared = ~ doPA]

\* updateDesign needs the prepared design ...
updateDesign(s) == [s EXCEPT !.broken = @ \/ ~ s.prepared]

\* ... and reads the files as they are now.
Changes(s, m) ==
  IF m.kind = "updates" /\ s.prepared THEN applyUpdates(updatesFile) ELSE <<>>

loadViaData(s, via) == [s EXCEPT !.viaData = @ \/ via]

\* onFrDesignUpdated, onPinAccessJobReceived and onGRDRInitJobReceived.
Handle(s, m) ==
  CASE m.kind = "design"   -> resetDb(loadGlobals(s, m.path))
    [] m.kind = "updates"  -> updateDesign(loadGlobals(s, m.path))
    [] m.kind = "globals"  -> loadViaData(loadGlobals(s, m.path), m.via)
    [] m.kind = "initPA"   -> [s EXCEPT !.paReady = s.loaded, !.broken = @ \/ ~ s.loaded]
    [] m.kind = "updatePA" -> [s EXCEPT !.broken = @ \/ ~ s.paReady]
    [] m.kind = "grdrInit" -> [s EXCEPT !.prepared = s.paReady, !.broken = @ \/ ~ s.paReady]

-----------------------------------------------------------------------------
(* One broadcast through sendJob and the load balancer.  The balancer      *)
(* saves it before it sends it, and the workers that fail it leave the     *)
(* queue; addWorker and a broadcast exclude each other.                    *)

Deliver(m, again) ==
  /\ joiner.worker = NoWorker
  /\ \E failed \in SUBSET members :
       /\ drops + Cardinality(failed) <= MaxDrops
       /\ drops' = drops + Cardinality(failed)
       /\ LET received == members \ failed
              Once(w) == Handle(worker[w], m)
          IN  /\ members' = received
              /\ worker' = [w \in Worker |-> IF w \notin received THEN worker[w]
                                             ELSE IF again THEN Handle(Once(w), m)
                                             ELSE Once(w)]
              /\ applied' = [w \in Worker |->
                   IF w \notin received THEN applied[w]
                   ELSE applied[w] \o Changes(worker[w], m)
                                   \o IF again THEN Changes(Once(w), m) ELSE <<>>]
  /\ saved' = IF again THEN Append(Append(saved, m), m) ELSE Append(saved, m)
  /\ savedFiles' = savedFiles \o IF again THEN <<updatesFile, updatesFile>>
                                           ELSE <<updatesFile>>

\* The call gets through, once; or its answer is lost and the retry of sendJob
\* broadcasts it again.  The leader does not look at the answer.
sendJob(m) ==
  \/ Deliver(m, FALSE) /\ UNCHANGED faults
  \/ faults < MaxFaults /\ faults' = faults + 1 /\ Deliver(m, TRUE)

\* The balancer is not reached and sendJob returns false.
sendJobFails ==
  /\ faults < MaxFaults /\ faults' = faults + 1
  /\ UNCHANGED <<saved, savedFiles, members, worker, applied, drops>>

-----------------------------------------------------------------------------
(* sendDesignDist, sendDesignUpdates and sendGlobalsUpdates.  The actors   *)
(* that run them are main, the pool and pa_thread.                         *)

Actor == {"main", "pool", "pa"}

\* What actor a is executing.
Doing(a, task) ==
  CASE a = "main" -> pc = "send" /\ task = "updates"
    [] a = "pool" -> pool # <<>> /\ Head(pool) = task
    [] a = "pa"   -> paThread # <<>> /\ Head(paThread) = task

\* a goes on to what comes next.
Finish(a) ==
  /\ stage' = [stage EXCEPT ![a] = "begin"]
  /\ pc' = IF a = "main" THEN "jobs" ELSE pc
  /\ pool' = IF a = "pool" THEN Tail(pool) ELSE pool
  /\ paThread' = IF a = "pa" THEN Tail(paThread) ELSE paThread
  /\ UNCHANGED <<doPA, iter, version, path>>

\* logger_->error throws: out of the command in the main thread, and out of the
\* thread, which terminates the process, in the others.
Throw == pc' = "failed" /\ UNCHANGED <<doPA, paThread, iter, version, path>>

Alive == pc # "failed"

writeGlobals(p) ==
  /\ writes' = writes + 1
  /\ globalsFile' = [globalsFile EXCEPT ![p] = writes + 1]

\* sendDesignDist writes DESIGN.db and DESIGN.router_cfg.
WriteDesign(a) ==
  /\ Alive /\ Doing(a, "design") /\ stage[a] = "begin"
  /\ writeGlobals(DesignCfg)
  /\ stage' = [stage EXCEPT ![a] = "written"]
  /\ UNCHANGED <<mainVars, pool, designVars, updatesFile, cloudVars, joinVars>>

\* sendDesignUpdates returns when there are none, and writes the files.
WriteUpdates(a) ==
  /\ Alive /\ Doing(a, "updates") /\ stage[a] = "begin"
  /\ IF hasUpdates
     THEN /\ updatesFile' = updates
          /\ stage' = [stage EXCEPT ![a] = "written"]
          /\ UNCHANGED <<mainVars, pool>>
     ELSE Finish(a) /\ UNCHANGED updatesFile
  /\ UNCHANGED <<writes, globalsFile, designVars, cloudVars, joinVars>>

\* The message of task: the pool sends the updates of track assignment without
\* a globals path.
MsgOf(a, task) ==
  IF task = "design" THEN Msg("design", DesignCfg, FALSE)
  ELSE Msg("updates", IF a = "pool" THEN None ELSE path, FALSE)

Broadcast(a, task) ==
  /\ Alive /\ Doing(a, task) /\ stage[a] = "written"
  /\ \/ /\ sendJob(MsgOf(a, task))
        /\ stage' = [stage EXCEPT ![a] = "sent"]
        /\ UNCHANGED mainVars
     \/ sendJobFails /\ Throw /\ UNCHANGED stage
  /\ UNCHANGED <<pool, designVars, fileVars, joinVars>>

clearUpdates == updates' = NoUpdates /\ updatesSz' = 0

\* Both end with clearUpdates, whatever has been added in the meantime.
ClearUpdates(a) ==
  /\ Alive /\ stage[a] = "sent"
  /\ clearUpdates
  /\ Finish(a)
  /\ UNCHANGED <<made, taMade, fileVars, cloudVars, joinVars>>

\* The kPinAccess INIT_PA and kGrdrInit broadcasts: nobody looks at the result.
BroadcastUnchecked(a, kind) ==
  /\ Alive /\ Doing(a, kind)
  /\ sendJob(Msg(kind, None, FALSE)) \/ sendJobFails
  /\ Finish(a)
  /\ UNCHANGED <<designVars, fileVars, joinVars>>

BackgroundStep ==
  \E a \in {"pool", "pa"} :
    \/ WriteDesign(a) \/ WriteUpdates(a) \/ ClearUpdates(a)
    \/ \E task \in {"design", "updates"} : Broadcast(a, task)
    \/ \E kind \in {"initPA", "grdrInit"} : BroadcastUnchecked(a, kind)

-----------------------------------------------------------------------------
(* TritonRoute::main                                                       *)

\* Mutated form of post: the pool takes the last task first.
postFirst(task) == pool' = <<task>> \o pool

post(task) == pool' = Append(pool, task)

StartMain ==
  /\ pc = "start"
  /\ IF doPA THEN paThread' = <<"design", "initPA">> /\ UNCHANGED pool
             ELSE post("design") /\ UNCHANGED paThread
  /\ pc' = "initDesign"
  /\ UNCHANGED <<doPA, iter, version, path, stage, designVars, fileVars, cloudVars, joinVars>>

InitDesign ==
  /\ pc = "initDesign"
  /\ pc' = IF doPA THEN "pa" ELSE "ta"
  /\ UNCHANGED <<doPA, paThread, iter, version, path, pool, stage>>
  /\ UNCHANGED <<designVars, fileVars, cloudVars, joinVars>>

\* No routable net: main returns.  pa_thread, not joined, terminates the process.
NoRoutableNets ==
  /\ pc = "initDesign"
  /\ pc' = IF doPA THEN "failed" ELSE "done"
  /\ UNCHANGED <<doPA, paThread, iter, version, path, pool, stage>>
  /\ UNCHANGED <<designVars, fileVars, cloudVars, joinVars>>

\* pa_thread is joined; pin access broadcasts its results; kGrdrInit is posted.
PinAccess ==
  /\ pc = "pa" /\ paThread = <<>>
  /\ \/ /\ sendJob(Msg("updatePA", None, FALSE))
        /\ post("grdrInit")
        /\ pc' = "ta" /\ UNCHANGED <<doPA, paThread, iter, version, path>>
     \/ sendJobFails /\ Throw /\ UNCHANGED pool
  /\ UNCHANGED <<stage, designVars, fileVars, joinVars>>

\* Track assignment adds one update after the other ...
AssignTrack ==
  /\ pc = "ta"
  /\ addUpdates(1)
  /\ taMade' = taMade + 1
  /\ UNCHANGED <<mainVars, pool, stage, fileVars, cloudVars, joinVars>>

\* Mutated form of EndTA: sending them is left to the first batch of jobs.
EndTAOnly ==
  /\ pc = "ta"
  /\ pc' = "dr"
  /\ UNCHANGED <<doPA, paThread, iter, version, path, pool, stage>>
  /\ UNCHANGED <<designVars, fileVars, cloudVars, joinVars>>

\* ... and sending them is posted.
EndTA ==
  /\ pc = "ta"
  /\ post("updates")
  /\ pc' = "dr"
  /\ UNCHANGED <<doPA, paThread, iter, version, path, stage>>
  /\ UNCHANGED <<designVars, fileVars, cloudVars, joinVars>>

-----------------------------------------------------------------------------
(* FlexDR                                                                  *)

\* searchRepair: some rounds write new globals; the optimization flow, which the
\* first round always takes, routes batches on the workers, the others route
\* in the leader.
SearchRepair ==
  /\ pc = "dr"
  /\ IF iter \in GlobalsAt
     THEN writeGlobals(iter) /\ path' = iter
     ELSE UNCHANGED <<writes, globalsFile, path>>
  /\ \/ pc' = "batch" /\ version' = 0 /\ UNCHANGED <<updates, updatesSz, made>>
     \/ /\ iter > 0
        /\ \E n \in 0 .. 2 : addUpdates(n)
        /\ pc' = "check" /\ UNCHANGED version
  /\ UNCHANGED <<doPA, paThread, iter, pool, stage, taMade, updatesFile, cloudVars, joinVars>>

\* dist_pool_->join()
joinPool == pool = <<>>

GlobalsOnly == version = 0 /\ ~ hasUpdates

\* processWorkersBatchDistributed up to the jobs: the first batch of a round
\* without updates sends globals and via data, any other one the updates.
SendGlobals ==
  /\ pc = "batch" /\ joinPool /\ GlobalsOnly
  /\ \/ /\ sendJob(Msg("globals", path, TRUE))
        /\ pc' = "jobs" /\ version' = version + 1
        /\ UNCHANGED <<doPA, paThread, iter, path>>
     \/ sendJobFails /\ Throw
  /\ UNCHANGED <<pool, stage, designVars, fileVars, joinVars>>

SendUpdates ==
  /\ pc = "batch" /\ joinPool /\ ~ GlobalsOnly
  /\ pc' = "send" /\ version' = version + 1
  /\ UNCHANGED <<doPA, paThread, iter, path, pool, stage>>
  /\ UNCHANGED <<designVars, fileVars, cloudVars, joinVars>>

SendUpdatesStep == WriteUpdates("main") \/ Broadcast("main", "updates") \/ ClearUpdates("main")

\* The results are in, and endWorkersBatch changes the design with them.
EndWorkersBatch ==
  /\ pc = "jobs"
  /\ \E n \in 0 .. 2 : addUpdates(n)
  /\ pc' = "check" \/ (pc' = "batch" /\ version < MaxBatches)
  /\ UNCHANGED <<doPA, paThread, iter, version, path, pool, stage, taMade>>
  /\ UNCHANGED <<fileVars, cloudVars, joinVars>>

\* The connectivity checker ends the round; without violations it was the last.
CheckConnectivity ==
  /\ pc = "check"
  /\ \E n \in 0 .. 1 : addUpdates(n)
  /\ iter' = iter + 1
  /\ \/ pc' = "done"
     \/ pc' = "dr" /\ iter + 1 < Iterations
  /\ UNCHANGED <<doPA, paThread, version, path, pool, stage, taMade>>
  /\ UNCHANGED <<fileVars, cloudVars, joinVars>>

LeaderStep ==
  \/ StartMain \/ InitDesign \/ NoRoutableNets \/ PinAccess \/ AssignTrack \/ EndTA
  \/ SearchRepair \/ SendGlobals \/ SendUpdates \/ SendUpdatesStep
  \/ EndWorkersBatch \/ CheckConnectivity

-----------------------------------------------------------------------------
(* LoadBalancer::addWorker: a worker that is discovered late.              *)

StartJoin(w) ==
  /\ joiner.worker = NoWorker /\ w \notin known
  /\ known' = known \cup {w}
  /\ joiner' = [worker |-> w, next |-> 1]
  /\ UNCHANGED <<mainVars, pool, stage, designVars, fileVars, cloudVars, stale>>

\* The saved broadcast is handled with the files as they are now.
ReplayBroadcast ==
  LET w == joiner.worker
      m == saved[joiner.next]
  IN
  /\ w # NoWorker /\ joiner.next <= Len(saved)
  /\ worker' = [worker EXCEPT ![w] = Handle(@, m)]
  /\ applied' = [applied EXCEPT ![w] = @ \o Changes(worker[w], m)]
  /\ stale' = IF m.kind = "updates" /\ savedFiles[joiner.next] # updatesFile
              THEN stale \cup {w} ELSE stale
  /\ joiner' = [joiner EXCEPT !.next = @ + 1]
  /\ UNCHANGED <<mainVars, pool, stage, designVars, fileVars>>
  /\ UNCHANGED <<saved, savedFiles, members, known, faults, drops>>

\* addWorker gives up, and the worker is not tried again.
ReplayFails ==
  /\ joiner.worker # NoWorker /\ joiner.next <= Len(saved)
  /\ drops < MaxDrops /\ drops' = drops + 1
  /\ joiner' = [worker |-> NoWorker, next |-> 1]
  /\ UNCHANGED <<mainVars, pool, stage, designVars, fileVars>>
  /\ UNCHANGED <<saved, savedFiles, members, worker, applied, known, stale, faults>>

EndJoin ==
  /\ joiner.worker # NoWorker /\ joiner.next > Len(saved)
  /\ members' = members \cup {joiner.worker}
  /\ joiner' = [worker |-> NoWorker, next |-> 1]
  /\ UNCHANGED <<mainVars, pool, stage, designVars, fileVars>>
  /\ UNCHANGED <<saved, savedFiles, worker, applied, known, stale, faults, drops>>

JoinStep == (\E w \in Worker : StartJoin(w)) \/ ReplayBroadcast \/ ReplayFails \/ EndJoin

-----------------------------------------------------------------------------
Init ==
  /\ doPA \in BOOLEAN
  /\ pc = "start" /\ paThread = <<>>
  /\ pool = <<>> /\ stage = [a \in Actor |-> "begin"]
  /\ iter = 0 /\ version = 0 /\ path = None
  /\ updates = NoUpdates /\ updatesSz = 0 /\ made = 0 /\ taMade = 0
  /\ writes = 0 /\ globalsFile = [p \in Paths |-> 0] /\ updatesFile = NoUpdates
  /\ saved = <<>> /\ savedFiles = <<>> /\ members = Present
  /\ worker = [w \in Worker |-> EmptyWorker] /\ applied = [w \in Worker |-> <<>>]
  /\ faults = 0 /\ drops = 0
  /\ known = Present /\ joiner = [worker |-> NoWorker, next |-> 1] /\ stale = {}

Next == LeaderStep \/ BackgroundStep \/ JoinStep

Spec == Init /\ [][Next]_vars

-----------------------------------------------------------------------------
\* Worker w has all changes of the leader's design, once each and in order;
\* without DO_PA the first of those of track assignment may be missing, the
\* clearUpdates of sendDesignDist having run after they were added.
Mirrors(w) ==
  \E lost \in 0 .. IF doPA THEN 0 ELSE taMade :
    applied[w] = [i \in 1 .. made - lost |-> lost + i]

\* While jobs are out, the design of every worker that can get one mirrors the
\* leader's, although the pool sends in the background, updates are kept in
\* batches and applied by columns, and workers fail or join at any time; unless
\* a worker joined after the files it replays were overwritten, or a call of
\* sendJob went wrong (sendDesignUpdates, applyUpdates, addWorker).
DesignsMatch ==
  pc = "jobs" /\ faults = 0 => \A w \in members \ stale : Mirrors(w)

\* While jobs are out, every worker that can get one has the globals searchRepair
\* wrote last, also the late ones and after retries, although the globals travel with
\* whatever is sent first in a round and are read only when their path differs
\* (processWorkersBatchDistributed, onFrDesignUpdated).
GlobalsMatch == pc = "jobs" => \A w \in members : worker[w].globals = globalsFile[path]

\* While jobs are out, every worker that can get one has the via data, which are
\* only sent when the first batch of a round finds no updates to send
\* (processWorkersBatchDistributed).
ViaDataArrives == pc = "jobs" => \A w \in members : worker[w].viaData

\* No worker is sent a design when it has one, or updates, pin access results or
\* kGrdrInit before what they need, also when it joins late; unless a call of
\* sendJob went wrong (TritonRoute::main, resetDb, onGRDRInitJobReceived).
HandlersReady == faults = 0 => \A w \in Worker : ~ worker[w].broken
=============================================================================
