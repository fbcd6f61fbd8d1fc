# A TLA+ verification of distributed routing and of the 3D viewer

This directory holds TLA+ specifications of parts of OpenROAD with its 3D viewer,
the TLC configurations that model-check them on small instances, and proofs of
their main properties that TLAPS checks for every value of the constants.
`PROJECT.json` lists components, runs, mutants, the lines each definition models,
findings, hazards and theorems in machine-readable form.

All paths are relative to the repository (`src/dst` is `src/src/dst` in
`PROJECT.json`).

## 1. The system and its parts

The repository is a large place-and-route tool. Most of its tools are sequential
numeric or geometric algorithms. Three parts have the kind of state that is hard to
test: the distributed job system `dst`, where threads of several processes
interact over unreliable connections; the leader of distributed detailed routing
in `drt`, which keeps copies of its design in step on all workers; and the 3D
viewer `gui/openroad3D`, an event-driven program with caches that have to agree
with each other.

### 1.1 dst: leader, balancer and workers

    leader process              balancer process                 worker processes
    sendJob / sendJobMultiResult                                 WorkerConnection
      client threads  --TCP-->  BalancerConnection  --TCP-->       io_context thread
                                  one thread each                  JobCallBack handlers
                                LoadBalancer: workers_,
                                  broadcastData_, workers_mutex_
                                lookUpWorkers thread --TCP-->

| part | state | operations | source |
|---|---|---|---|
| worker | whether it runs, the design updates it has applied, the handler it is in | accept, read a packet, run a job and answer with one or more messages, apply a broadcast update, reject a malformed packet | `src/dst/src/Worker.cc`, `WorkerConnection.cc`, `src/drt/src/distributed/RoutingCallBack.h` |
| load balancer | queue of workers by priority, history of broadcasts, the mutex, workers seen by the discovery thread | `getNextWorker`, `punishWorker`, `removeWorkerLocked`, `addWorker`, `lookUpWorkers`, `start_accept` | `src/dst/src/LoadBalancer.cc` |
| balancer connection | its message, what is left of the packet, the receive buffer, the worker it talks to, its failed trials | `handle_read`: answer with an address, relay a unicast job with retries, broadcast | `src/dst/src/BalancerConnection.cc` |
| client | tries, current connection, result | `sendJob`, `sendJobMultiResult` | `src/dst/src/Distributed.cc` |
| messages | type, descriptions, end-of-packet mark | `serializeMsg`, `getNextMsg` | `src/dst/src/JobMessage.cc` |

How they interact: a client thread opens a new connection to the balancer for
every try and reads until the balancer closes it. A unicast job is relayed to the
worker at the top of the queue; when that fails the worker is punished and the
next one is tried, three times in all. A broadcast is appended to the history and
sent to all workers of the queue by a thread pool, under the mutex; workers that
failed are removed. The discovery thread resolves a domain name and adds new
workers after it has replayed the whole history to them, also under the mutex.

What is hard here: every connection can be refused, reset or end early at any
point; the end of a connection is the only acknowledgement; the mutex is held
during network traffic; buffers live across retries; a packet can be consumed by a
worker that then fails; the client's tries overlap with relays of its earlier
tries; no socket has a timeout.

What makes it correct: a worker that gets jobs has the design the leader thinks it
has (all broadcasts, in order); a job is not run twice by one relay; a success
reported to the router is a real one; results of different runs are never mixed;
limits on trials are kept; healthy workers are not dropped; the load is spread
evenly; calls return and the mutex is released.

### 1.2 The drt leader and its workers' designs

| part | state | operations | source |
|---|---|---|---|
| `TritonRoute::main` | the design with its pending updates, `pa_thread`, `dist_pool_` | send the design, initialise pin access and routing, track assignment | `src/drt/src/TritonRoute.cpp`, `frDesign.h` |
| `FlexDR` | the round, the path of the globals | `searchRepair`, `processWorkersBatchDistributed`, `endWorkersBatch` | `src/drt/src/dr/FlexDR.cpp` |
| shared volume | the design, globals and updates files | written by the leader, read by the handlers | `TritonRoute.cpp` |
| `RoutingCallBack` | the worker's design, its globals, via data, pin access state | `onFrDesignUpdated`, `onPinAccessJobReceived`, `onGRDRInitJobReceived` | `src/drt/src/distributed/RoutingCallBack.h` |

The leader writes the design, the globals and its updates to files and broadcasts
their names; then it sends regions as jobs and enters the results into its own
design as new updates. What is hard: broadcasts are sent by the main thread, by a
thread for pin access and by a pool, while the main thread goes on changing the
design; a message names files that later messages overwrite, and late workers
replay the messages; updates are kept in batches; globals and via data travel with
whatever is sent first in a round; nobody looks at what the broadcasts answer.
What makes it correct: while jobs are out, every worker that can get one has the
leader's design, globals and via data, and no handler is called before what it
needs.

### 1.3 The 3D viewer

| part | state | operations | source |
|---|---|---|---|
| `OpenRoad3DWindow` | its own snapshot of objects and layers, type filters | `refreshView` (difference of two snapshots), `applyObjectFilters`, layer changes | `src/gui/openroad3D/OpenRoad3DWindow.cpp` |
| `LayerControl` | table of layers | `setData`, `addLayer`, `updateLayer`, `onItemChanged` | `LayerControl.cpp` |
| `OsgBackend` | second snapshot with an index of pointers into it, selection, back and forward view history | `loadScene`, `updateObjects`, `removeObjects`, `goPreviousView`, `goNextView`, `selectAt` | `render/backend_osg/OsgBackend.cpp` |
| `OsgScene` | scene objects by id, hidden set, loaded set, batches for wires and vias, selection | `loadSnapshot`, `upsertObjects`, `ensureObjectsInFrustum`, `setLayerVisible`, `setObjectVisible`, `setSelectedObject` | `render/backend_osg/OsgScene.cpp` |
| `SpatialIndex` | octree | `build`, frustum and box queries | `render/backend_osg/SpatialIndex.cpp` |
| `OdbSceneBuilder` | none that lasts | conversion of the database to a snapshot | `OdbSceneBuilder.cpp` |

All of it runs in the GUI thread. What is hard: four copies of what is visible
(window snapshot, backend snapshot, hidden set, node masks) that different events
change in different orders; pointers into a vector that is erased from and that moves
when it outgrows the memory reserved for it; records that share the empty id; an object
that is hidden, selected, deselected, unloaded and loaded again. What makes it
correct: the screen shows what is not hidden; what a filter, a layer or the
selection hides comes back when the reason ends; a highlight is that of the
selected object; a reload leaves the backend with the objects of the new build; an
object that is gone is not selected by what removed it; the index finds its objects as
long as nothing is removed and the reserve lasts; the
history is bounded and going back and forward loses no view.

### 1.4 Everything else

`ant` to `xgp`, the other directories of `src/`, are listed in `PROJECT.json` with
the reason each is left out: numeric or geometric algorithms, storage, wrappers of
external programs.

## 2. Plan and its state

| step | modules | state |
|---|---|---|
| the distributed job system | `DstWorker`, `LoadBalancer`, `BalancerConnection`, `Distributed` | done, ten theorems: every safety property the runs check |
| the view history and its abstract specification | `ViewTrail`, `ViewHistory` | done, two theorems, the refinement among them |
| the scene, the backend and the window of the viewer, composed | `OsgScene`, `OsgBackend`, `OpenRoad3DWindow` | done, seven theorems: every property the passing runs check |
| the leader of distributed routing | `DesignUpdates` | done, four theorems: every property its run checks |
| what the screen should show after a reload, stated and proved over reloads | `OpenRoad3DWindow` | open: the code rebuilds changed objects without what hid them, and nothing states what was meant |
| the tops of vias, which share the empty id, and layers whose names begin with that of another | `OsgScene`, `OpenRoad3DWindow` | modelled; the properties speak of the other objects and layers |
| what a reload should do with the tops of vias | `OpenRoad3DWindow` | open: the difference is by id and takes them for one object |
| the octree of `SpatialIndex` against the set of all boxes that meet a query | `SpatialIndex` | open |
| the `pinAccess` command, which joins the pool of the leader | `DesignUpdates` | open |

## 3. Modules

### 3.1 The distributed job system

The modules of `dst` extend each other from the workers to the whole system, so
that each can be read on its own.

**`DstWorker`** (workers and the connections to them). `call[id]` is the one
connection a caller holds: the relay of a client connection, the pool task of a
queue entry, or the replay by the discovery thread. A connection is posted, sent,
running or ended (`eof`, `reset`). `StartHandler`, `SendResult`, `ApplyUpdate` and
`RejectPacket` are the steps of a worker; a worker runs one handler at a time
because it has one io_context thread. `Crash`, `Restart` and `BreakConnection` are
the faults. A crash ends a connection whose bytes were all read with an ordinary
end of file or with a reset, and can leave a result cut in the middle: this choice
is what the code cannot tell apart from a normal end. `applied[w]` is the set of
places in the broadcast history that the current process of `w` has applied;
`faulty` and `runs` are history variables that no action reads.

**`LoadBalancer`** (shared state and discovery). The priority queue is a set of
entries with priorities; the order of equal priorities, which depends on the heap,
is left open. Two entries may have the same address, as `addWorker` allows.
`Punished` keeps the width of the priority field (`% (MaxPriority + 1)`), `Bumped`
saturates as the code does. `LookUpWorkers(found)` is one answer of the name
server, any set of entries. `addWorker` is a sequence of steps with the mutex held:
lock, one connection per saved broadcast, then queue the worker or give up.

**`BalancerConnection`** (the threads of `handle_read`). `packet[n]` is what is
left in `in_packet_`: `asio::write` consumes what it writes, so after a failed read
nothing is left for the next worker, and after a broken write a headless rest.
`buffer[n]`, the receive buffer of the relay, survives a retry because the code
declares it outside the loop. `BroadcastBegin` to `BroadcastEnd` is the critical
section, with one pool task per queue entry (`BroadcastSend`) in any order. `Jobs`
and `StartAccept` model the report every 100 jobs, which needs the mutex in the
acceptor thread.

**`Distributed`** (the client threads and the whole system). A call makes up to
`kMaxTries` tries; connecting, sending and reading can each fail; a lost answer
leaves the relay running while the client tries again. `ReturnResult` has the two
ways in which `sendJob` and `sendJobMultiResult` read an answer. This module has
`Init`, `Next`, `Spec`, `FairSpec` and the properties.

**`MCDistributed`** gives the constants their values for TLC: who calls what, the
addresses of the entries, and the symmetry of connections.

### 3.2 The leader of distributed routing

**`DesignUpdates`**. `pc` is where `TritonRoute::main` is; `paThread` and `pool` are
the calls that `pa_thread` and the one thread of `dist_pool_` still have to make;
the three actors run the steps of `sendDesignDist` and `sendDesignUpdates`
(`WriteDesign`, `WriteUpdates`, `Broadcast`, `ClearUpdates`) interleaved with
`AssignTrack`. A change of the design is a number, so "the same design" is "the
same numbers in the same order"; `updates` and `updatesSz` are the batches of
`frDesign` with their counter, filled round robin by `addUpdate`; `applyUpdates` is the
two nested loops of the code, of which `ApplyRow` is the inner one. The globals are
the number of the `writeGlobals` that wrote them. The files hold what was written
last, and a handler reads them as they are when it runs: `ReplayBroadcast` is where
a late worker reads files newer than the message. `savedFiles` and `stale` are
history variables that only record this.

Abstractions. A broadcast is one step (`Deliver`): which workers get it and which
leave the queue is what `QueueIsUpToDate` and `HistoryInOrder` prove of the detailed
module, and the mutex keeps `addWorker` out. A call of `sendJob` gets through, gets
through twice (a lost answer and a retry) or fails; more than one retry of one call
is left out. A worker whose handler failed stays a member although the real one may
have crashed, which only adds behaviours. A file is written in one step, so files
read half-written are left out. The race between `addUpdate` in the main thread and
`clearUpdates` in the pool, which is a data race in the code, is modelled by its
interleavings: any number of the updates of track assignment made so far is lost.
The three broadcasts of pin access results are one (`updatePA`). Without `DO_PA` the
database has its access points and `resetDb` prepares the design, as in the code.
The first round takes the optimization flow, since its mode is to rip up
everything; later rounds take either flow.

**`MCDesignUpdates`** names the two workers.

### 3.3 The 3D viewer

**`ViewHistory`**: camera, selection and the two stacks of views of `OsgBackend`,
with objects coming and going underneath. `indexed` is what a click can find, the keys
of `objectIndex_`: `removeObjects` drops the selection of a removed object but leaves
its id there. **`ViewTrail`** is what the history
promises to its user: one trail of views and a position in it. `ViewHistory` maps
its stacks to the trail (`TrailOf`): the backward stack, the current view, the
forward stack reversed.

**`OsgScene`**: a scene is a record, an operation of the class an operator from
scenes to scenes. It keeps the node of every object, the placeholders of batched
objects, the batches with the pointers they were built from and what they draw,
nodes that `objectsById_` has lost but the scene graph still holds (`ghosts`), the
hidden and loaded sets, highlights and both records of the selection. `Nameless` is
the empty id as that of a record: the tops of all vias have it
(`OdbSceneBuilder.cpp:701`), so every map by id takes them for one object, while the
vector, the batches and the spatial index hold each of them. `Prefixed[l]` are the
layers whose batches the box of `l` switches: `setLayerVisible` compares the key of a
batch with the name of the layer and an underscore (`OsgScene.cpp:832`), and the key of
a layer `l_x` begins so too.

**`OsgBackend`**: the vector of records with its index of pointers on top of a
scene. A pointer is a place in the vector, or 0 for a record that was freed, when
`updateObjects` returned or when the vector moved. Removing a record moves those behind
it up and leaves the pointers where they are. `capacity` is what fits into the memory of
the vector: `loadScene` reserves `Spare` records more than it is given (10000 in the
code), and a `push_back` into a full vector doubles it and frees every pointer into it,
those of the index but the new one's and those of the scene. What a read through a dangling pointer gives is chosen in
each step (`Garbage`); all dangling reads of one step see the same record.

**`OpenRoad3DWindow`** composes window, backend, scene and view history (`View`, an
instance of `ViewHistory`) and has one action per event of the user: reload, type
filter, layer check box, colour or selectability of a layer, context menu, selection,
rescaling, camera, frame, and the keys of the history. `onLayerStyleChanged` stands for
the two handlers of the colour and the selectability: they make the backend tell the
scene the visibility of the layer again, which shows its hidden instances. A reload
resets the layers that differ from the build: the unchecked ones and any set of
restyled ones. The constant `Operations` selects which of them the user makes
in an instance.

**`MCViewer`** has an instance, a wire and two tops of vias, on two layers of which the
first switches the batch of the second; for reloads three designs on one layer, which
differ in their order, in changed geometry, in removed objects, and in a growth past
the reserve.

Abstractions: batched objects are of one type, so the key of a batch is its layer;
all designs have the same layers; `Nearest` lists the objects by the distance that
orders lazy loading, which the code takes from the origin and not from the camera, and
which no reload changes here; every object has a box; the answer of the frustum query
is any set in `Frusta`; whether a layer is selectable is left open, so a click may also
find an object of a layer that is not;
`zoomToSelected` may also zoom to an object without a node; `updateObjects` has the branch
for updates that change the visibility alone, which the composed system never takes
because the builder makes every record visible.

`DesignAssumption` says what a design is: a sequence of records, all visible, of which
those with an id have distinct ones. The builder makes an id from the address of the
database object, its kind and the number of the shape (`OdbSceneBuilder.cpp:390`,
`:533`, `:737`, `:772`), or from a counter (`:317`); the record of the top of a via is
the one it gives none. Any number of them may be in a design, at any places.

## 4. Runs

Deadlock is not checked for `dst` and `DesignUpdates`, where a behaviour ends when
all calls have returned or the command is done. The viewer never stops.

| run | instance | shows |
|---|---|---|
| `static` | 2 configured workers, a broadcast and a job, 2 tries each, 2 faults, 4 connections; 865 104 states | `TypeOK`, `QueuedWorkersUpToDate`, `StartedAtMostOnce`, `SuccessIsGenuine`, `HealthyWorkersStay`, `LoadIsEven`, `CountIsExact` |
| `route` | a routing job with two result messages next to an address request; 663 947 states | `LimitsKept`, `ResultsOfOneRun` |
| `discovery` | 2 workers found by name and 2 broadcasting clients, 1 fault, 1 restart each; 445 176 states | `QueuedWorkersUpToDate`, `AppliedInOrder` while workers join in the middle |
| `liveness` | a broadcast and a job, 1 try each, 1 fault, workers being discovered; 153 368 states | `CallsReturn`, `MutexIsReleased` |
| `design_updates` | 1 worker from the beginning and 1 late, 2 rounds of up to 2 batches, 4 updates in 2 batches, 1 failing call, 1 failing worker; 1 431 253 states | `DesignsMatch`, `GlobalsMatch`, `ViaDataArrives`, `HandlersReady` |
| `view_history` | 2 objects, 2 poses, 3 views of history; 23 008 states | `HistoryBounded`, and `ImplementsTrail`, the refinement |
| `session` | one load of an instance, a wire and two tops of vias on two layers, then filters, layers with their styles, context menu, selection, rescaling, camera and frames in any order; 68 502 states | `ScreenIsExact`, `GlowIsSelection`, `OnlyRescaleShowsUnchecked`, `HiddenForAReason` |
| `reload` | reloads between three designs with a filter, styles, selection and history, a reserve of one record, and any garbage; 15 871 states | `RefreshIsComplete`, `GlowIsSelection`, `IndexRightWithinReserve`, `SelectsOnlySeenOrRemembered` |
| `punish` | 1 worker that is down, 4-bit priorities | violates `PunishedIsPushedBack` |
| `broadcast_error` | 2 workers, 1 fault | violates `BroadcastErrorOnlyAboveLimit` |
| `relayed_error` | 1 worker that is down, a routing job | violates `ErrorReachesLeader` |
| `new_wire` | reloads between three designs | violates `BatchedAreDrawn` |

Bounds and why they are enough:

- Workers may be down from the beginning, so failures of connect cost no fault;
  two more faults let a relay fail in all ways in a row and use up its three
  trials, and let both workers fail in one broadcast.
- Two tries of two clients need four connections: enough for a relay of an
  abandoned try to run next to its retry and next to a broadcast.
- Two workers are the least for the queue to have an order, for a retry to go
  elsewhere and for a broadcast to fail in part. `kMaxTries` is 2 or 1 instead
  of 5: two tries are the least for a try to overlap with the relay of an earlier
  one. The theorems hold for every value.
- `kReportPeriod` is 2 instead of 100, so that the report happens; `MaxPriority`
  is 15 instead of 65535, so that the overflow is reached after 4 failures of one
  worker; with the real width it takes 16 failures, or 2^15 jobs and one failure.
- `discovery` is limited to one fault and three connections; a restart stands for
  a worker that is discovered before it runs.
- Connections are interchangeable (`ConnSymmetry`): no definition chooses one.
  Symmetry is not used in the run with liveness properties.
- `design_updates`: two batches and three updates are the least for which the order
  by batch and the order by column differ; two rounds that both write globals are
  the least for a worker to keep old ones; the late worker can join before, between
  and after any of the broadcasts.
- Viewer: a wire and a top of a via in one batch are the least for a rebuild to matter
  and for a record to move when another is removed; two tops are the least for an id
  to be shared, two layers for one to switch the batches of the other; an instance is
  what lazy loading, layers and filters treat differently. `Spare` is 1 instead of
  10000: from the smallest design one reload stays within the reserve and another
  leaves it. Each exception of the properties below is reached in its run. `MaxPerFrame` is 1, so that a frame does not load
  everything. `MaxHistory` is 3 alone and 1 in the composition, instead of 32.

Each property of a passing run has a mutant in `PROJECT.json`: a definition next
to the code's, marked "Mutated form of", that makes a plausible mistake and with
which TLC finds the property violated.

Findings (the violated runs):

- `punishWorker` doubles a 16-bit priority without saturating, unlike
  `getNextWorker`: from 2^15 on the product wraps, so a worker that fails just
  after its 2^15th job gets a priority near 0 and moves to the front
  (`LoadBalancer.cc:148`).
- A broadcast is answered with `kError` when as many workers failed as are left,
  because the comparison is made after the removal (`BalancerConnection.cc:197`):
  one of two is enough. When all of one or two workers fail the answer is
  `kSuccess` with a count of 0.
- `sendJobMultiResult` turns the balancer's `kError` into `kSuccess`
  (`Distributed.cc:224`).
- A wire or via that is new in a reload gets into no batch and is not drawn
  (`OsgScene.cpp:1189`).

Behaviours that are part of the model and named in a property as its exception:

- A relay whose packet was consumed by a worker that failed connects to the next
  worker, writes nothing and waits for ever, since that worker waits for a packet
  (`Starved`, in `CallsReturn`). It is also the reason why `StartedAtMostOnce`
  holds.
- A worker that dies while it handles a broadcast, or is restarted later, stays in
  the queue without the history (`BalancerConnection.cc:172`): an end of file is
  taken for success. The properties of the queue speak of workers without a fault.
- The updates that track assignment makes before the `clearUpdates` of
  `sendDesignDist` are lost to the workers when pin access is skipped
  (`TritonRoute.cpp:894`, `Mirrors`).
- A worker that joins after the updates files were overwritten replays old messages
  with new contents (`TritonRoute.cpp:949`, `stale`).
- A broadcast that is retried after a lost answer is handled twice (`DesignsMatch`
  and `HandlersReady` speak of behaviours without a failing call).
- The box of a layer switches the batches of every layer whose name begins with its
  own and an underscore (`OsgScene.cpp:832`; `Alone` in `ScreenIsExact` and
  `OnlyRescaleShowsUnchecked`).
- The tops of vias have one entry of the hidden set together, and a reload neither adds nor removes tops as long
  as both builds have some (`Nameless`).
- Rescaling shows the batches of unchecked layers (`OnlyRescaleShowsUnchecked`) and
  hides the selected wire for good; an object that lazy loading had dropped when its
  layer or filter was switched on stays hidden (`HiddenForAReason`).
- A hidden object that changes in a reload is drawn again, which is why
  `ScreenIsExact` is checked between reloads only; a filter does not reach instances
  that are loaded later.
- Removing an object leaves the index of the backend pointing at other records, and a
  reload that adds more than was reserved leaves it pointing at freed memory
  (`IndexRightWithinReserve`).
- Going back in the history selects objects that are gone, and so does a click on what
  is still drawn of one (`SelectsOnlySeenOrRemembered`).

## 5. Fairness

`FairSpec` assumes weak fairness of every thread: a client that can send or read,
the thread of a connection, a pool task, the discovery thread inside `addWorker`,
and a worker's handler. The code's threads block only in socket operations and on
the mutex and are scheduled by the operating system; a handler ends because routing
a region ends. `absl::Mutex` is modelled as a lock whose waiters are served when it
is free; weak fairness is enough because each connection takes it a bounded number
of times. Faults and the answers of the name server are never assumed to happen
(`Resolve` is not fair). Of the network one thing is assumed: a connection that breaks
ends at both sides, with an end of file or a reset. A peer that vanishes silently, so
that the other side waits on a half-open connection, is not modelled; since the code
sets no timeout, `CallsReturn` and `MutexIsReleased` would fail there.

For the viewer no fairness is assumed: frames are painted only when something asks
for a redraw, so nothing in the code promises that lazy loading ends. For the leader
none is stated: that its calls return is `CallsReturn`.

## 6. Proofs

`tlapm` checks 10 943 obligations in eight modules. The constants are arbitrary sets
and numbers that satisfy the named assumptions: `DstWorkerAssumption`,
`LoadBalancerAssumption`, `BalancerConnectionAssumption`, `DistributedAssumption`,
`HistoryAssumption`, `SizesAssumption`, `SceneAssumption`, `BackendAssumption`,
`DesignAssumption`. They say that the sets of callers are disjoint, that entries are
finite in number and have addresses, that discovered entries differ in their addresses
(the discovery thread compares addresses before it adds one), that limits are positive,
that the empty id as that of no object is no object and no layer, that the tops of vias
are batched and every layer switches its own batches, that the reserve is positive, that
objects and layers are finite in number, that `Nearest` lists every object once, that the first round of routing writes
its globals, and what a design is (3.3). TLC evaluates them in the runs. Every
inductive invariant below was checked by TLC on the instance of its run before it was
proved.

**Loops** (`Loops`). Most of the operators with loops are folds, and what a fold gives
for a sequence of any length needs induction. The library's induction theorems take an
operator as a parameter, which the provers cannot instantiate. `Loops` is a module with
two constant operators instead: `Step`, the body of a loop, and `Holds`, its loop
invariant. `LoopKeeps` says that an invariant that holds at the start and is kept by
the body holds of the result of `FoldLeft`. It rests on `Induction`, for a set of
naturals, proved from the existence of a least element outside the set, and on
`FoldExists`, since `FoldLeft` is defined by CHOOSE and has a value only if the
function of its partial results exists. Each loop of the model is an instance of the
module (`KeepLoop`, `AddLoop`, `RowLoop`, `ApplyLoop` and others).

### 6.1 The distributed job system

`DistributedProofs`

- `TypesAndLimits`, `TypeCorrect`: `TypeOK /\ LimitsKept` is inductive. Neither
  part is inductive alone: the range of `trials` and `tries` needs the limit that
  holds before the last increment. One lemma per group of actions
  (`HandlerType`, `FaultType`, `AddThreadType`, `ConnType`, `ClientType`).
- `JobStartedAtMostOnce`: `StartInv(n)` says that a whole packet has started
  nothing, and that a job on the wire has started nothing and left no packet
  behind. So the packet can be sent as a job once.

`BroadcastProofs`

- `QueueIsUpToDate` and `HistoryInOrder` follow from `BroadcastInv`: `MutexInv`
  (who holds the mutex is in its critical section), `TaskInv(e)` (during a
  broadcast the task of `e` carries the last place of the history to the address of
  `e`, which has everything before it, and has everything once the task has ended
  without an error; outside a broadcast a queued entry has everything), `ReplayInv`
  (the new worker has what was replayed so far) and `AppliedInOrder`. The mutex is
  what makes it work: while it is held the history does not grow and nobody enters
  the queue.
- `HealthyWorkersKept`: `HealthInv` adds that the discovery thread does not run
  without a domain name and that a task of the pool fails only on a worker that is
  down, was restarted or met a fault (`Sick`), which never ends (`SickStays`).
- `LoadStaysEven`: a relay takes an entry of the least priority and raises it by one,
  with saturation, so the spread stays within one; together with `HealthInv`, since a
  worker that entered later would start at 0.
- `CountsAreExact` has a hypothesis: no two entries have the same address. The code
  removes by address (`removeWorkerLocked`), so of two entries with one end point both
  go when one fails, and the count of the code is then too high. The configuration of
  the balancer does not exclude this; `static` checks the property on distinct
  addresses.

In the last section of `DistributedProofs`:

- `ResultsAreOfOneRun` and `SuccessesAreGenuine` follow from `JobInv` and `ClientInv`.
  The buffer of a relay is the beginning of the answer of one run, perhaps cut in its
  last message (`BufferInv`): the messages received and those still to come add up to
  the messages of the job. A packet that is not yet written was answered by nobody
  (`RelayInv`), so the buffer, which survives a retry, is empty when a worker is
  sent the job and never collects the results of two runs. What a client is answered
  with is that buffer or the balancer's own message (`ReplyInv`), and the connection a
  client waits for carries its own request (`ClientInv`).

### 6.2 The leader of distributed routing

`DesignUpdatesProofs`

- `GlobalsAreCurrent` and `ViaDataAreThere`, for any number of workers, rounds,
  updates, failing calls and late workers. The inductive invariant `IInv` does not
  follow the workers but the history of broadcasts: a member holds what the saved
  messages say (`Followers`: the last globals path among them, and via data if any
  message had them), a joining worker what it has replayed; nobody is ahead of the
  leader's path, and what a worker read from a path is still there because every
  round writes a path of its own (`Behind`, `Rounds`); the history ends with the
  leader's path when jobs are out (`GlobalsSent`); and it has the via data, since the
  pool has sent and cleared the updates of track assignment before the first batch
  looks for updates (`ViaSent`, `Control`).

In its last section:

- `HandlersAlwaysReady`. `HandlersInv` says, as long as no call has gone wrong, that a
  worker is as far as the part of the history it has handled (`WorkersReady`), that
  the three actors still have the calls in an order in which each finds what it needs
  (`Tasks`), and how far the history is at each place of `main` (`Progress`). The
  order is that of three threads: `pa_thread` is joined before what needs it, and
  the pool has one thread.

`MirrorProofs`

- The first half is the batch algorithm: `ApplyBatched` says that
  `applyUpdates` of batches that `addUpdate` has filled round robin, one after
  another, from an empty state, gives these updates in their order, for any number of
  batches and of updates. `Batched` describes the batches place by place; `AddLoop`,
  `RowLoop` and `ApplyLoop`, instances of `Loops`, follow the three loops.
- `DesignsAlwaysMatch`. `MirrorInv` says, as long as no call has gone wrong, that
  there are numbers `upto[i]` such that the i-th saved broadcast brings a worker from
  change `upto[i - 1]` to change `upto[i]`, with files that were filled with exactly
  these (`Spans`); that the last of them is what the leader has made and not kept
  pending (`Delivered`); that what is pending continues from there and that the files
  are the pending batches between writing and sending them (`Leader`); and that a
  member, or a joining worker, that replayed no overwritten file has made the changes
  up to the broadcast it has handled. `upto[0]` is the number of changes of track
  assignment that `clearUpdates` of `sendDesignDist` loses, which is 0 with pin access
  and at most `taMade` without it. It needs `HandlersInv`: an update that reaches a
  worker whose design is not prepared is not applied.

### 6.3 The view history

`ViewHistoryProofs`

- `HistoryCorrect`: the types and the bound on both stacks together are inductive.
  `goNextView` needs no cap because it takes from one stack what it puts on the
  other.
- `HistoryImplementsTrail`: every step of the stacks is a step of the trail. The
  bound is needed here too: without it the cap of the forward stack could drop a
  view on the way back. The lemmas say what `TrailOf` gives for a pushed, popped and
  capped stack, place by place.

### 6.4 The composed viewer

`SceneProofs` has what the operators of `OsgScene` and `OsgBackend` do, for any number of
objects, layers and records; `WindowProofs` has the invariants and the theorems.

With reloads, any designs, and any outcome of the reads through dangling pointers:

- `RecordsAlways`: `RecordsInv` is inductive. In the backend's copy of the snapshot the
  ids are distinct but for the empty one, and the records with an id agree with the
  window's copy but for the visible flags (`Agree`); the highlight and
  `previousSelectedId_` are those of the backend's selection (`Marked`); the memory of
  the vector is at least what the last load reserved (`Reserve`). Distinct ids are needed
  because a difference of two builds is computed by id on one side and applied by place
  on the other; `previous` is needed because it is what the next deselection takes the
  highlight from.
- `HighlightIsSelection` and `ReloadIsComplete` follow from it. For the second, the loops
  of `refreshView` (`Keep`, the stores one by one, the filters) are shown to leave
  exactly the records of the new build that have an id, and a record without one exactly
  if the build has one, whatever is in the scene. Designs with vias are included.
- `IndexKeptInReserve`: when no id goes, no record moves up; a store indexes the place it
  writes; and the vector does not move while its records fit into its capacity
  (`StoreHolds`), which by `Reserve` is the case up to `Spare` records above those of the
  last load.
- `SelectionIsSeen`: an object that leaves the records leaves the selection in the same
  reload; of the other steps only the history and a click set one, and a click on an
  object that is not among the records is one on what is drawn.

Between two reloads, with the hypothesis that `"refresh"` is not among the `Operations`;
the first load is part of it, and so are any number of rescalings, each of which loads
the scene anew:

- `ScreenAlways`: `ScreenInv` is inductive. It adds to `RecordsInv` that window, backend
  and scene agree on the layers and the window's flags on the filters, and `SceneInv`:
  every pointer the scene holds points to the record of its object (`Links`), the
  geometry of a batch is, of the objects with an id, that of its objects that are not
  hidden (`Geometry`), a batch on a visible layer that no other layer switches is
  switched on (`Masks`), a wire outside all batches is hidden and
  one with a placeholder is hidden only as the selection (`Placeholders`), and an
  object has a node only if it is loaded, one that is loaded and has none is hidden,
  and the flag of a node on a visible layer is that of the hidden set (`Nodes`).
- `ScreenFollows`: the screen follows `hiddenObjects_`. `Links` is why no read goes
  through a dangling pointer, so that a rebuilt batch is what it should be; the
  `hidden` of an object that lazy loading has not loaded is what keeps `LoadObject`
  from showing it.
- `UncheckedStaysOff`: each operation but rescaling keeps `Dark`, that no node on a layer
  that is not visible is shown and no batch of such a layer, if no other switches it, is
  on.
- `NothingStaysHidden`: a step that ends the reason why an object with a node or a batch
  entry is hidden shows it. `Placeholders` is needed: a wire that still has its
  placeholder was hidden by nobody but the selection.

After a reload the hypothesis is necessary: `ScreenIsExact` fails, as section 4 says, and
`upsertObjects` leaves pointers into freed memory, so `Links` fails too.

### 6.5 Only model-checked

`CallsReturn` and `MutexIsReleased`: liveness under fairness is beyond this prover.
Every other property of the passing runs is proved. The properties of the violated
runs are false.

## 7. Not modelled

- `dst`: the contents of jobs and results; the `boost::archive` encoding (a message
  parses, or is a fragment, or is the `"0"`); `updateWorker`, which no code calls; a
  malformed packet from a client, which no client sends; threads and sockets running
  out; the destructor and shutdown; restarts of the balancer (its state is not
  persistent and the leader has no way to notice one).
- `drt`: routing, pin access and track assignment themselves; the commands
  `pinAccess` and `step_dr`; the jobs of pin access and routing, which change no
  worker's copy of the design. The rest of `drt` is geometric search.
- Viewer: the spatial index (its query may return any set here, so the objects it
  misses because they stick out of the box of their node are among the behaviours,
  but nothing is said about them); the scene builder, which converts the database
  once per reload; picking by ray; the ruler and edit tools; labels, stipples,
  lights, textures and the drawing calls; the widgets of the layer control and what its
  colours and styles look like; adding and removing layers.
- The other tools of the repository, listed in `PROJECT.json`.

## 8. Running it

    tlc -workers 2 -config MCStatic.cfg MCDistributed
    tlc -workers 2 -config MCReload.cfg MCViewer
    tlc -workers 2 -config MCDesignUpdates.cfg MCDesignUpdates
    tlapm DistributedProofs.tla
    tlapm MirrorProofs.tla
    tlapm WindowProofs.tla

The longest run takes about two minutes, the proofs about half an hour together.
