-------------------------- MODULE DesignUpdatesProofs --------------------------
(* Proofs that every worker that can get a job has the leader's globals    *)
(* and its via data, for any number of workers, rounds, updates and faults. *)
(*                                                                         *)
(* The argument does not follow the workers but the balancer's history:    *)
(* what a member holds is determined by the saved broadcasts, and what a   *)
(* joining worker holds by those it has replayed.                          *)
EXTENDS DesignUpdates, SequenceTheorems, TLAPS

Kind == {"design", "updates", "globals", "initPA", "updatePA", "grdrInit"}

\* Only the kUpdateDesign broadcasts have a globals path, and those without an
\* update or a design have via data.
Message ==
  {m \in [kind : Kind, path : {None} \cup Paths, via : BOOLEAN] :
     /\ m.kind \in {"initPA", "updatePA", "grdrInit"} => m.path = None
     /\ m.kind = "globals" => m.via}

WState == [loaded : BOOLEAN, paReady : BOOLEAN, prepared : BOOLEAN,
           cfgPath : {None} \cup Paths, globals : Nat,
           viaData : BOOLEAN, broken : BOOLEAN]

Task == {"design", "updates", "initPA", "grdrInit"}

Early == {"start", "initDesign", "pa", "ta"}
Routing == {"batch", "send", "jobs", "check"}

\* Types of what the proofs are about.
Types ==
  /\ doPA \in BOOLEAN
  /\ pc \in Early \cup Routing \cup {"dr", "done", "failed"}
  /\ paThread \in Seq(Task) /\ pool \in Seq(Task)
  /\ stage \in [Actor -> {"begin", "written", "sent"}]
  /\ iter \in Nat /\ version \in Nat /\ path \in {None} \cup 0 .. Iterations - 1
  /\ writes \in Nat /\ globalsFile \in [Paths -> Nat]
  /\ saved \in Seq(Message)
  /\ worker \in [Worker -> WState]
  /\ known \subseteq Worker /\ members \subseteq known
  /\ joiner \in [worker : Worker \cup {NoWorker}, next : Nat]

\* Who is running: the background is quiet when the leader relies on it.
Control ==
  /\ stage["pool"] # "begin" => pool # <<>>
  /\ stage["pa"] # "begin" => paThread # <<>>
  /\ stage["main"] # "begin" => pc \in {"send", "failed"}
  /\ pc \in Routing \cup {"ta", "dr"} \/ ~ doPA => paThread = <<>>
  /\ pc \in {"send", "jobs"} => pool = <<>> /\ version > 0
  /\ pc = "batch" /\ version > 0 => pool = <<>>

\* The round and the path of the globals: new globals get a new path.
Rounds ==
  /\ pc \in Early => iter = 0 /\ version = 0 /\ path = None
  /\ pc = "dr" => path < iter /\ (iter > 0 => path >= 0) /\ (iter = 0 => version = 0)
  /\ pc \in Routing => path <= iter /\ path >= 0

\* No broadcast and no worker is ahead of the leader's path, and what a worker
\* read from a path is still there.
Behind ==
  /\ \A i \in 1 .. Len(saved) : saved[i].path <= path
  /\ \A w \in Worker : /\ worker[w].cfgPath <= path
                       /\ worker[w].cfgPath >= 0 =>
                            worker[w].globals = globalsFile[worker[w].cfgPath]

\* p is the last globals path among the first n messages of history h.
IsLast(h, n, p) ==
  IF p = None THEN \A i \in 1 .. n : h[i].path = None
  ELSE \E i \in 1 .. n : h[i].path = p /\ \A j \in i + 1 .. n : h[j].path = None

\* Via data are among the first n messages of history h.
ViaIn(h, n) == \E i \in 1 .. n : h[i].kind = "globals"

\* Worker w holds what the first n saved broadcasts gave it.
Holds(w, n) ==
  /\ IsLast(saved, n, worker[w].cfgPath)
  /\ ViaIn(saved, n) => worker[w].viaData

Followers ==
  /\ \A w \in members : Holds(w, Len(saved))
  /\ \A w \in Worker \ known : worker[w].cfgPath = None
  /\ joiner.worker # NoWorker =>
       /\ joiner.worker \in known \ members
       /\ joiner.next \in 1 .. Len(saved) + 1
       /\ Holds(joiner.worker, joiner.next - 1)

\* The history ends with the leader's path when jobs are out ...
GlobalsSent ==
  LET sent == IsLast(saved, Len(saved), path) IN
  /\ pc = "jobs" => sent
  /\ pc = "batch" /\ version > 0 => sent
  /\ pc = "send" => /\ stage["main"] = "begin" => sent \/ hasUpdates
                    /\ stage["main"] = "sent" => sent

\* ... and has the via data after the first batch, which finds no updates: the
\* last task of the pool sends and clears those of track assignment.
ViaSent ==
  LET sent == ViaIn(saved, Len(saved)) IN
  /\ pc \in {"send", "jobs", "check"} => sent
  /\ pc = "batch" /\ (iter > 0 \/ version > 0) => sent
  /\ pc = "dr" /\ iter > 0 => sent
  /\ pc \in {"dr", "batch"} /\ iter = 0 /\ version = 0 =>
       IF pool = <<>> THEN ~ hasUpdates ELSE pool[Len(pool)] = "updates"

IInv == Types /\ Control /\ Rounds /\ Behind /\ Followers /\ GlobalsSent /\ ViaSent

-----------------------------------------------------------------------------
(* The history and what a worker makes of it.                              *)

\* State s is what a worker with all of history h holds.
Follows(h, s) ==
  /\ IsLast(h, Len(h), s.cfgPath)
  /\ ViaIn(h, Len(h)) => s.viaData

\* State s was read from files that are still there, none of a later round.
Sound(s) ==
  /\ s \in WState
  /\ s.cfgPath <= path
  /\ s.cfgPath >= 0 => s.globals = globalsFile[s.cfgPath]

\* One path at most is the last one.
LEMMA LastUnique ==
  ASSUME NEW h, NEW n \in Nat, NEW p \in Int, NEW q \in Int,
         \A i \in 1 .. n : h[i].path \in Int,
         IsLast(h, n, p), IsLast(h, n, q)
  PROVE  p = q
BY DEF IsLast, None

\* The next message of a history decides which path is its last.
LEMMA LastStep ==
  ASSUME NEW h, NEW n \in Nat, NEW p \in Int, IsLast(h, n, p)
  PROVE  IsLast(h, n + 1, IF h[n + 1].path = None THEN p ELSE h[n + 1].path)
<1>1. CASE h[n + 1].path = None
  <2>1. CASE p = None
    BY <1>1, <2>1 DEF IsLast
  <2>2. CASE p # None
    BY <1>1, <2>2 DEF IsLast
  <2>. QED BY <2>1, <2>2
<1>2. CASE h[n + 1].path # None
  <2>1. h[n + 1].path = h[n + 1].path /\ \A j \in (n + 1) + 1 .. n + 1 : h[j].path = None
    OBVIOUS
  <2>. QED BY <1>2, <2>1 DEF IsLast
<1>. QED BY <1>1, <1>2

\* A handler follows the globals path and the via data of its message.
LEMMA HandleFields ==
  ASSUME Types, NEW s \in WState, NEW m \in Message
  PROVE  /\ Handle(s, m) \in WState
         /\ Handle(s, m).cfgPath = IF m.path = None THEN s.cfgPath ELSE m.path
         /\ Handle(s, m).globals = IF m.path = None \/ m.path = s.cfgPath
                                   THEN s.globals ELSE globalsFile[m.path]
         /\ Handle(s, m).viaData = (s.viaData \/ m.kind = "globals")
<1>. DEFINE t == loadGlobals(s, m.path)
<1>1. /\ t \in WState
      /\ t.cfgPath = IF m.path = None THEN s.cfgPath ELSE m.path
      /\ t.globals = IF m.path = None \/ m.path = s.cfgPath
                     THEN s.globals ELSE globalsFile[m.path]
      /\ t.viaData = s.viaData
  BY DEF loadGlobals, WState, Message, Types
<1>2. CASE m.kind = "design"
  <2>1. Handle(s, m) = resetDb(t)
    BY <1>2 DEF Handle
  <2>2. resetDb(t) = [t EXCEPT !.broken = t.broken \/ t.loaded, !.loaded = TRUE, !.prepared = ~ doPA]
    BY DEF resetDb
  <2>3. /\ resetDb(t) \in WState /\ resetDb(t).cfgPath = t.cfgPath
        /\ resetDb(t).globals = t.globals /\ resetDb(t).viaData = t.viaData
    <3>1. doPA \in BOOLEAN
      BY DEF Types
    <3>2. t \in WState
      BY <1>1
    <3>. HIDE DEF t
    <3>3. ASSUME NEW b1 \in BOOLEAN, NEW b2 \in BOOLEAN, NEW u,
                 u = [t EXCEPT !.broken = b1, !.loaded = TRUE, !.prepared = b2]
          PROVE  /\ u \in WState /\ u.cfgPath = t.cfgPath
                 /\ u.globals = t.globals /\ u.viaData = t.viaData
      BY ONLY <3>2, <3>3 DEF WState
    <3>4. PICK b1 \in BOOLEAN : b1 = (t.broken \/ t.loaded)
      OBVIOUS
    <3>5. PICK b2 \in BOOLEAN : b2 = ~ doPA
      OBVIOUS
    <3>6. resetDb(t) = [t EXCEPT !.broken = b1, !.loaded = TRUE, !.prepared = b2]
      BY ONLY <2>2, <3>4, <3>5
    <3>. QED BY ONLY <3>3, <3>6
  <2>4. s.viaData = (s.viaData \/ m.kind = "globals")
    <3>1. s.viaData \in BOOLEAN
      BY DEF WState
    <3>2. m.kind # "globals"
      BY <1>2
    <3>. QED BY ONLY <3>1, <3>2, Zenon
  <2>. HIDE DEF t
  <2>. QED BY ONLY <1>1, <2>1, <2>3, <2>4
<1>3. CASE m.kind = "updates"
  BY <1>1, <1>3 DEF Handle, updateDesign, WState
<1>4. CASE m.kind = "globals"
  BY <1>1, <1>4 DEF Handle, loadViaData, WState, Message
<1>5. CASE m.kind \in {"initPA", "updatePA", "grdrInit"}
  BY <1>5 DEF Handle, WState, Message
<1>. QED BY <1>2, <1>3, <1>4, <1>5 DEF Message, Kind

\* A handler keeps what a worker holds in step with its history ...
LEMMA HandleFollows ==
  ASSUME Types, NEW s \in WState, NEW m \in Message,
         NEW h \in Seq(Message), Follows(h, s)
  PROVE  Follows(Append(h, m), Handle(s, m))
<1>. DEFINE g == Append(h, m)
<1>1. Len(g) = Len(h) + 1 /\ Len(h) \in Nat /\ g[Len(h) + 1] = m
      /\ \A i \in 1 .. Len(h) : g[i] = h[i]
  OBVIOUS
<1>2. IsLast(g, Len(h), s.cfgPath)
  BY <1>1 DEF Follows, IsLast
<1>3. s.cfgPath \in Int
  BY DEF WState, Paths, None, DesignCfg
<1>4. IsLast(g, Len(h) + 1, Handle(s, m).cfgPath)
  <2>. HIDE DEF g
  <2>1. IsLast(g, Len(h) + 1, IF g[Len(h) + 1].path = None THEN s.cfgPath ELSE g[Len(h) + 1].path)
    BY <1>1, <1>2, <1>3, LastStep
  <2>. QED BY <1>1, <2>1, HandleFields
<1>5. ViaIn(g, Len(h) + 1) => Handle(s, m).viaData
  <2>. HIDE DEF g
  <2>1. SUFFICES ASSUME NEW i \in 1 .. Len(h) + 1, g[i].kind = "globals"
                 PROVE  Handle(s, m).viaData
    BY DEF ViaIn
  <2>2. CASE i = Len(h) + 1
    BY <1>1, <2>1, <2>2, HandleFields
  <2>3. CASE i \in 1 .. Len(h)
    <3>1. s.viaData
      BY <1>1, <2>1, <2>3 DEF ViaIn, Follows
    <3>. QED BY <3>1, HandleFields
  <2>. QED BY <1>1, <2>2, <2>3
<1>. QED BY <1>1, <1>4, <1>5 DEF Follows

\* ... and sound.
LEMMA HandleSound ==
  ASSUME Types, NEW s \in WState, Sound(s), NEW m \in Message, m.path <= path
  PROVE  Sound(Handle(s, m))
<1>. DEFINE t == Handle(s, m)
<1>1. /\ t \in WState
      /\ t.cfgPath = IF m.path = None THEN s.cfgPath ELSE m.path
      /\ t.globals = IF m.path = None \/ m.path = s.cfgPath
                     THEN s.globals ELSE globalsFile[m.path]
  BY HandleFields
<1>. SUFFICES Sound(t)
  BY DEF t
<1>. HIDE DEF t
<1>2. s.cfgPath <= path /\ (s.cfgPath >= 0 => s.globals = globalsFile[s.cfgPath])
  BY DEF Sound
<1>3. CASE m.path = None
  BY <1>1, <1>2, <1>3 DEF Sound
<1>4. CASE m.path # None
  BY <1>1, <1>2, <1>4 DEF Sound
<1>. QED BY <1>3, <1>4

\* What a broadcast leaves: the members follow the longer history.
LEMMA DeliverOK ==
  ASSUME Types, Behind, Followers, NEW m \in Message, m.path <= path,
         NEW again \in BOOLEAN, Deliver(m, again),
         UNCHANGED <<path, globalsFile, joiner, known>>
  PROVE  /\ saved' \in Seq(Message) /\ worker' \in [Worker -> WState]
         /\ members' \subseteq known'
         /\ Behind' /\ Followers'
         /\ m.path # None => IsLast(saved', Len(saved'), m.path)
         /\ m.kind = "globals" \/ ViaIn(saved, Len(saved)) => ViaIn(saved', Len(saved'))
<1>. DEFINE one == Append(saved, m)
            two == Append(one, m)
<1>1. PICK failed \in SUBSET members :
        /\ members' = members \ failed
        /\ worker' = [w \in Worker |->
             IF w \notin members \ failed THEN worker[w]
             ELSE IF again THEN Handle(Handle(worker[w], m), m)
             ELSE Handle(worker[w], m)]
  BY DEF Deliver
<1>2. /\ one \in Seq(Message) /\ two \in Seq(Message)
      /\ Len(one) = Len(saved) + 1 /\ Len(two) = Len(saved) + 2
      /\ one[Len(one)] = m /\ two[Len(two)] = m
      /\ \A i \in 1 .. Len(saved) : one[i] = saved[i] /\ two[i] = saved[i]
      /\ \A i \in 1 .. Len(two) : two[i] = m \/ (i \in 1 .. Len(saved) /\ two[i] = saved[i])
      /\ \A i \in 1 .. Len(one) : one[i] = m \/ (i \in 1 .. Len(saved) /\ one[i] = saved[i])
  BY DEF Types
<1>3. saved' = IF again THEN two ELSE one
  BY DEF Deliver, Types
<1>4. joiner'.worker = NoWorker
  BY DEF Deliver
<1>5. ASSUME NEW w \in Worker
      PROVE  worker[w] \in WState /\ Sound(worker[w])
  BY <1>5 DEF Types, Behind, Sound
<1>6. ASSUME NEW w \in Worker
      PROVE  /\ Handle(worker[w], m) \in WState /\ Sound(Handle(worker[w], m))
             /\ Handle(Handle(worker[w], m), m) \in WState
             /\ Sound(Handle(Handle(worker[w], m), m))
  BY <1>5, HandleFields, HandleSound
<1>7. ASSUME NEW w \in Worker
      PROVE  worker'[w] \in WState /\ Sound(worker'[w])
  BY <1>1, <1>5, <1>6
<1>8. worker' \in [Worker -> WState]
  BY <1>1, <1>5, <1>6
<1>9. saved' \in Seq(Message)
  BY <1>2, <1>3
<1>10. members' \subseteq known'
  BY <1>1 DEF Types
<1>11. \A i \in 1 .. Len(saved') : saved'[i].path <= path
  BY <1>2, <1>3 DEF Behind
<1>12. Behind'
  BY <1>7, <1>11 DEF Behind, Sound
<1>13. ASSUME NEW w \in members'
       PROVE  Follows(saved', worker'[w])
  <2>1. w \in members /\ w \in Worker /\ w \in members \ failed
    BY <1>1 DEF Types
  <2>2. Follows(saved, worker[w])
    BY <2>1 DEF Followers, Holds, Follows
  <2>3. Follows(one, Handle(worker[w], m))
    BY <1>5, <2>1, <2>2, HandleFollows DEF Types
  <2>4. Follows(two, Handle(Handle(worker[w], m), m))
    BY <1>2, <1>6, <2>1, <2>3, HandleFollows
  <2>. QED BY <1>1, <1>3, <2>1, <2>3, <2>4
<1>14. \A w \in Worker \ known' : worker'[w].cfgPath = None
  BY <1>1 DEF Followers, Types
<1>15. Followers'
  BY <1>4, <1>13, <1>14 DEF Followers, Follows, Holds
<1>16. m.path # None => IsLast(saved', Len(saved'), m.path)
  <2>1. Len(saved') \in 1 .. Len(saved') /\ saved'[Len(saved')] = m
        /\ \A j \in Len(saved') + 1 .. Len(saved') : saved'[j].path = None
    BY <1>2, <1>3 DEF Types
  <2>. QED BY <2>1 DEF IsLast
<1>17. m.kind = "globals" \/ ViaIn(saved, Len(saved)) => ViaIn(saved', Len(saved'))
  BY <1>2, <1>3 DEF ViaIn, Types
<1>. QED BY <1>8, <1>9, <1>10, <1>12, <1>15, <1>16, <1>17


\* A task that is posted is the last one.
LEMMA PostOK ==
  ASSUME NEW q \in Seq(Task), NEW t \in Task
  PROVE  /\ Append(q, t) \in Seq(Task)
         /\ Append(q, t) # <<>>
         /\ Append(q, t)[Len(Append(q, t))] = t
<1>1. Len(Append(q, t)) = Len(q) + 1 /\ Len(q) \in Nat /\ Append(q, t)[Len(q) + 1] = t
  OBVIOUS
<1>2. Append(q, t) # <<>>
  BY <1>1, Len(<<>>) = 0
<1>. QED BY <1>1, <1>2

\* What Tail leaves of the tasks.
LEMMA TailOK ==
  ASSUME NEW q \in Seq(Task), q # <<>>
  PROVE  /\ Tail(q) \in Seq(Task)
         /\ Tail(q) # <<>> => Tail(q)[Len(Tail(q))] = q[Len(q)]
         /\ Tail(q) = <<>> => q[Len(q)] = Head(q)
BY SMTT(30)

-----------------------------------------------------------------------------
(* The steps of the specification.                                         *)

Quiet == UNCHANGED <<saved, worker, members, known, joiner, path, globalsFile>>

\* A step that leaves the balancer, the workers and the globals alone.
LEMMA QuietOK ==
  ASSUME Behind, Followers, Quiet
  PROVE  Behind' /\ Followers'
BY DEF Behind, Followers, Holds, Quiet

\* sendJob, with or without a retry, is a broadcast.
LEMMA SendJobOK ==
  ASSUME Types, Behind, Followers, NEW m \in Message, m.path <= path, sendJob(m),
         UNCHANGED <<path, globalsFile, joiner, known>>
  PROVE  /\ saved' \in Seq(Message) /\ worker' \in [Worker -> WState]
         /\ members' \subseteq known'
         /\ Behind' /\ Followers'
         /\ m.path # None => IsLast(saved', Len(saved'), m.path)
         /\ m.kind = "globals" \/ ViaIn(saved, Len(saved)) => ViaIn(saved', Len(saved'))
<1>1. PICK again \in BOOLEAN : Deliver(m, again)
  BY DEF sendJob
<1>. QED BY <1>1, DeliverOK

\* Initially nothing has been sent.
LEMMA InitOK == Init => IInv
<1>. SUFFICES ASSUME Init PROVE IInv
  OBVIOUS
<1>. USE SizesAssumption
<1>1. Types
  BY DEF Init, Types, Early, EmptyWorker, WState, Actor, Paths, None, Task
<1>2. Control /\ Rounds
  BY DEF Init, Control, Rounds, Early, Routing, Actor, None
<1>3. Behind
  BY DEF Init, Behind, EmptyWorker, None
<1>4. Followers
  BY DEF Init, Followers, Holds, IsLast, ViaIn, EmptyWorker, None
<1>5. GlobalsSent /\ ViaSent
  BY DEF Init, GlobalsSent, ViaSent
<1>. QED BY <1>1, <1>2, <1>3, <1>4, <1>5 DEF IInv

\* main starts, and sendDesignDist in the background.
LEMMA StartMainOK ==
  ASSUME IInv, StartMain
  PROVE  IInv'
<1>. USE SizesAssumption DEF IInv
<1>1. Quiet
  BY DEF Quiet, StartMain, post, mainVars, cloudVars, joinVars, fileVars
<1>2. Types'
  <2>1. <<"design", "initPA">> \in Seq(Task) /\ Append(pool, "design") \in Seq(Task)
    BY DEF Types, Task
  <2>. QED BY <1>1, <2>1 DEF Quiet, Types, Early, Routing, StartMain, post, fileVars
<1>3. Control'
  <2>1. <<"design", "initPA">> # <<>> /\ Append(pool, "design") # <<>>
    BY PostOK, Len(<<"design", "initPA">>) = 2, Len(<<>>) = 0 DEF Types, Task
  <2>. QED BY <1>1, <2>1 DEF Types, Control, Early, Routing, Actor, StartMain, post
<1>4. Rounds'
  BY <1>1 DEF Types, Rounds, Early, Routing, Quiet, None, StartMain, post, mainVars
<1>5. Behind' /\ Followers'
  BY <1>1, QuietOK
<1>6. GlobalsSent'
  BY <1>1 DEF Types, GlobalsSent, Control, Routing, Rounds, Early, Quiet, hasUpdates, Actor, StartMain, post, mainVars, designVars
<1>7. ViaSent'
  BY <1>1 DEF Types, ViaSent, Control, Rounds, Early, Routing, Quiet, hasUpdates, StartMain, post, mainVars, designVars
<1>. QED BY <1>2, <1>3, <1>4, <1>5, <1>6, <1>7

\* initDesign.
LEMMA InitDesignOK ==
  ASSUME IInv, InitDesign
  PROVE  IInv'
<1>. USE SizesAssumption DEF IInv
<1>1. Quiet
  BY DEF Quiet, InitDesign, mainVars, cloudVars, joinVars, fileVars
<1>2. Types'
  BY <1>1 DEF Quiet, Types, Early, Routing, Task, InitDesign, mainVars, fileVars
<1>3. Control'
  BY <1>1 DEF Types, Control, Early, Routing, Actor, InitDesign, mainVars
<1>4. Rounds'
  BY <1>1 DEF Types, Rounds, Early, Routing, Quiet, None, InitDesign, mainVars
<1>5. Behind' /\ Followers'
  BY <1>1, QuietOK
<1>6. GlobalsSent'
  BY <1>1 DEF Types, GlobalsSent, Control, Routing, Rounds, Early, Quiet, hasUpdates, Actor, InitDesign, mainVars, designVars
<1>7. ViaSent'
  BY <1>1 DEF Types, ViaSent, Control, Rounds, Early, Routing, Quiet, hasUpdates, InitDesign, mainVars, designVars
<1>. QED BY <1>2, <1>3, <1>4, <1>5, <1>6, <1>7

\* main returns early.
LEMMA NoRoutableNetsOK ==
  ASSUME IInv, NoRoutableNets
  PROVE  IInv'
<1>. USE SizesAssumption DEF IInv
<1>1. Quiet
  BY DEF Quiet, NoRoutableNets, mainVars, cloudVars, joinVars, fileVars
<1>2. Types'
  BY <1>1 DEF Quiet, Types, Early, Routing, Task, NoRoutableNets, mainVars, fileVars
<1>3. Control'
  BY <1>1 DEF Types, Control, Early, Routing, Actor, NoRoutableNets, mainVars
<1>4. Rounds'
  BY <1>1 DEF Types, Rounds, Early, Routing, Quiet, None, NoRoutableNets, mainVars
<1>5. Behind' /\ Followers'
  BY <1>1, QuietOK
<1>6. GlobalsSent'
  BY <1>1 DEF Types, GlobalsSent, Control, Routing, Rounds, Early, Quiet, hasUpdates, Actor, NoRoutableNets, mainVars, designVars
<1>7. ViaSent'
  BY <1>1 DEF Types, ViaSent, Control, Rounds, Early, Routing, Quiet, hasUpdates, NoRoutableNets, mainVars, designVars
<1>. QED BY <1>2, <1>3, <1>4, <1>5, <1>6, <1>7

\* Track assignment: updates are added while main is not yet routing.
LEMMA AssignTrackOK ==
  ASSUME IInv, AssignTrack
  PROVE  IInv'
<1>. USE SizesAssumption DEF IInv
<1>1. Quiet
  BY DEF Quiet, AssignTrack, mainVars, cloudVars, joinVars, fileVars
<1>2. Types'
  BY <1>1 DEF Quiet, Types, Early, Routing, Task, AssignTrack, mainVars, fileVars
<1>3. Control'
  BY <1>1 DEF Types, Control, Early, Routing, Actor, AssignTrack, mainVars
<1>4. Rounds'
  BY <1>1 DEF Types, Rounds, Early, Routing, Quiet, None, AssignTrack, mainVars
<1>5. Behind' /\ Followers'
  BY <1>1, QuietOK
<1>6. GlobalsSent'
  BY <1>1 DEF Types, GlobalsSent, Control, Routing, Rounds, Early, Quiet, hasUpdates, Actor, AssignTrack, mainVars, designVars
<1>7. ViaSent'
  BY <1>1 DEF Types, ViaSent, Control, Rounds, Early, Routing, Quiet, hasUpdates, AssignTrack, mainVars, designVars
<1>. QED BY <1>2, <1>3, <1>4, <1>5, <1>6, <1>7

\* Sending the updates is the last task that is posted.
LEMMA EndTAOK ==
  ASSUME IInv, EndTA
  PROVE  IInv'
<1>. USE SizesAssumption DEF IInv
<1>1. Quiet
  BY DEF Quiet, EndTA, post, mainVars, cloudVars, joinVars, fileVars
<1>2. Types'
  BY <1>1 DEF Quiet, Types, Early, Routing, Task, EndTA, post, mainVars, fileVars
<1>3. Control'
  BY <1>1 DEF Types, Control, Early, Routing, Actor, EndTA, post, mainVars
<1>4. Rounds'
  BY <1>1 DEF Types, Rounds, Early, Routing, Quiet, None, EndTA, post, mainVars
<1>5. Behind' /\ Followers'
  BY <1>1, QuietOK
<1>6. GlobalsSent'
  BY <1>1 DEF Types, GlobalsSent, Control, Routing, Rounds, Early, Quiet, hasUpdates, Actor, EndTA, post, mainVars, designVars
<1>7. ViaSent'
  <2>1. Append(pool, "updates") # <<>>
        /\ Append(pool, "updates")[Len(Append(pool, "updates"))] = "updates"
    BY PostOK DEF Types, Task
  <2>. QED BY <1>1, <2>1 DEF Types, ViaSent, Rounds, Early, Quiet, EndTA, post
<1>. QED BY <1>2, <1>3, <1>4, <1>5, <1>6, <1>7

\* A batch that sends updates is not the first, or there are updates.
LEMMA SendUpdatesOK ==
  ASSUME IInv, SendUpdates
  PROVE  IInv'
<1>. USE SizesAssumption DEF IInv
<1>1. Quiet
  BY DEF Quiet, SendUpdates, joinPool, GlobalsOnly, mainVars, cloudVars, joinVars, fileVars
<1>2. Types'
  BY <1>1 DEF Quiet, Types, Early, Routing, Task, SendUpdates, joinPool, GlobalsOnly, mainVars, fileVars
<1>3. Control'
  BY <1>1 DEF Types, Control, Early, Routing, Actor, SendUpdates, joinPool, GlobalsOnly, mainVars
<1>4. Rounds'
  BY <1>1 DEF Types, Rounds, Early, Routing, Quiet, None, SendUpdates, joinPool, GlobalsOnly, mainVars
<1>5. Behind' /\ Followers'
  BY <1>1, QuietOK
<1>6. GlobalsSent'
  BY <1>1 DEF Types, GlobalsSent, Control, Routing, Rounds, Early, Quiet, hasUpdates, Actor, SendUpdates, joinPool, GlobalsOnly, mainVars, designVars
<1>7. ViaSent'
  BY <1>1 DEF Types, ViaSent, Control, Rounds, Early, Routing, Quiet, hasUpdates, SendUpdates, joinPool, GlobalsOnly, mainVars, designVars
<1>. QED BY <1>2, <1>3, <1>4, <1>5, <1>6, <1>7

\* Results of a batch change the design.
LEMMA EndWorkersBatchOK ==
  ASSUME IInv, EndWorkersBatch
  PROVE  IInv'
<1>. USE SizesAssumption DEF IInv
<1>1. Quiet
  BY DEF Quiet, EndWorkersBatch, mainVars, cloudVars, joinVars, fileVars
<1>2. Types'
  BY <1>1 DEF Quiet, Types, Early, Routing, Task, EndWorkersBatch, mainVars, fileVars
<1>3. Control'
  BY <1>1 DEF Types, Control, Early, Routing, Actor, EndWorkersBatch, mainVars
<1>4. Rounds'
  BY <1>1 DEF Types, Rounds, Early, Routing, Quiet, None, EndWorkersBatch, mainVars
<1>5. Behind' /\ Followers'
  BY <1>1, QuietOK
<1>6. GlobalsSent'
  BY <1>1 DEF Types, GlobalsSent, Control, Routing, Rounds, Early, Quiet, hasUpdates, Actor, EndWorkersBatch, mainVars, designVars
<1>7. ViaSent'
  BY <1>1 DEF Types, ViaSent, Control, Quiet, EndWorkersBatch
<1>. QED BY <1>2, <1>3, <1>4, <1>5, <1>6, <1>7

\* The end of a round.
LEMMA CheckConnectivityOK ==
  ASSUME IInv, CheckConnectivity
  PROVE  IInv'
<1>. USE SizesAssumption DEF IInv
<1>1. Quiet
  BY DEF Quiet, CheckConnectivity, mainVars, cloudVars, joinVars, fileVars
<1>2. Types'
  BY <1>1 DEF Quiet, Types, Early, Routing, Task, CheckConnectivity, mainVars, fileVars
<1>3. Control'
  BY <1>1 DEF Types, Control, Early, Routing, Actor, CheckConnectivity, mainVars
<1>4. Rounds'
  BY <1>1 DEF Types, Rounds, Early, Routing, Quiet, None, CheckConnectivity, mainVars
<1>5. Behind' /\ Followers'
  BY <1>1, QuietOK
<1>6. GlobalsSent'
  BY <1>1 DEF Types, GlobalsSent, Control, Routing, Rounds, Early, Quiet, hasUpdates, Actor, CheckConnectivity, mainVars, designVars
<1>7. ViaSent'
  BY <1>1 DEF Types, ViaSent, Control, Rounds, Early, Routing, Quiet, hasUpdates, CheckConnectivity, mainVars, designVars
<1>. QED BY <1>2, <1>3, <1>4, <1>5, <1>6, <1>7

\* Writing the updates, or finding none.
LEMMA WriteUpdatesOK ==
  ASSUME IInv, NEW a \in Actor, WriteUpdates(a)
  PROVE  IInv'
<1>. USE SizesAssumption DEF IInv
<1>1. Quiet
  BY DEF Quiet, WriteUpdates, Finish, Doing, Actor, mainVars, cloudVars, joinVars, fileVars
<1>2. Types'
  <2>1. CASE hasUpdates
    BY <1>1, <2>1 DEF Quiet, Types, WriteUpdates, mainVars
  <2>2. CASE ~ hasUpdates
    <3>1. pool' \in Seq(Task) /\ paThread' \in Seq(Task)
      BY <2>2, TailOK DEF WriteUpdates, Finish, Doing, Actor, Types
    <3>. QED BY <1>1, <2>2, <3>1 DEF Quiet, Types, Routing, WriteUpdates, Finish
  <2>. QED BY <2>1, <2>2
<1>3. Control'
  <2>1. CASE hasUpdates
    <3>1. /\ stage' = [stage EXCEPT ![a] = "written"] /\ Doing(a, "updates")
          /\ UNCHANGED <<doPA, pc, paThread, pool, version>>
      BY <2>1 DEF WriteUpdates, mainVars
    <3>2. \A b \in Actor : stage'[b] # "begin" => b = a \/ stage[b] # "begin"
      BY <3>1 DEF Types
    <3>. QED BY <3>1, <3>2 DEF Control, Doing, Actor
  <2>2. CASE ~ hasUpdates
    <3>1. Finish(a) /\ Doing(a, "updates") /\ stage[a] = "begin"
      BY <2>2 DEF WriteUpdates
    <3>2. \A b \in Actor : stage'[b] # "begin" => b # a /\ stage[b] # "begin"
      BY <3>1 DEF Types, Finish
    <3>3. CASE a = "main"
      BY <3>1, <3>2, <3>3 DEF Control, Finish, Doing, Actor, Routing
    <3>4. CASE a = "pool"
      BY <3>1, <3>2, <3>4 DEF Control, Finish, Doing, Actor
    <3>5. CASE a = "pa"
      BY <3>1, <3>2, <3>5 DEF Control, Finish, Doing, Actor
    <3>. QED BY <3>3, <3>4, <3>5 DEF Actor
  <2>. QED BY <2>1, <2>2
<1>4. Rounds'
  BY <1>1 DEF Types, Rounds, Early, Routing, Quiet, None, WriteUpdates, Finish, Doing, Actor, mainVars
<1>5. Behind' /\ Followers'
  BY <1>1, QuietOK
<1>6. GlobalsSent'
  BY <1>1 DEF Types, GlobalsSent, Control, Routing, Rounds, Early, Quiet, hasUpdates, Actor, WriteUpdates, Finish, Doing, Actor, mainVars, designVars
<1>7. ViaSent'
  <2>1. CASE hasUpdates
    BY <1>1, <2>1 DEF ViaSent, Quiet, WriteUpdates, mainVars, designVars, hasUpdates
  <2>2. CASE ~ hasUpdates /\ a = "pool"
    BY <1>1, <2>2, TailOK DEF Types, ViaSent, Quiet, WriteUpdates, Finish, Doing, hasUpdates, designVars
  <2>3. CASE ~ hasUpdates /\ a # "pool"
    BY <1>1, <2>3 DEF ViaSent, Quiet, WriteUpdates, Finish, Doing, Actor, hasUpdates, designVars
  <2>. QED BY <2>1, <2>2, <2>3
<1>. QED BY <1>2, <1>3, <1>4, <1>5, <1>6, <1>7

\* Clearing the updates after they were sent.
LEMMA ClearUpdatesOK ==
  ASSUME IInv, NEW a \in Actor, ClearUpdates(a)
  PROVE  IInv'
<1>. USE SizesAssumption DEF IInv
<1>1. Quiet
  BY DEF Quiet, ClearUpdates, Finish, clearUpdates, Alive, Actor, mainVars, cloudVars, joinVars, fileVars
<1>2. Types'
  <2>1. pool' \in Seq(Task) /\ paThread' \in Seq(Task)
    BY TailOK DEF ClearUpdates, Finish, Control, Actor, Types
  <2>. QED BY <1>1, <2>1 DEF Quiet, Types, Routing, ClearUpdates, Finish, fileVars
<1>3. Control'
  BY <1>1 DEF Types, Control, Early, Routing, Actor, ClearUpdates, Finish, clearUpdates, Alive, Actor, mainVars
<1>4. Rounds'
  BY <1>1 DEF Types, Rounds, Early, Routing, Control, Quiet, Actor, ClearUpdates, Finish, Alive
<1>5. Behind' /\ Followers'
  BY <1>1, QuietOK
<1>6. GlobalsSent'
  BY <1>1 DEF Types, GlobalsSent, Control, Routing, Rounds, Early, Quiet, hasUpdates, Actor, ClearUpdates, Finish, clearUpdates, Alive, Actor, mainVars, designVars
<1>7. ViaSent'
  BY <1>1 DEF Types, ViaSent, Control, Rounds, Early, Routing, Quiet, hasUpdates, ClearUpdates, Finish, clearUpdates, Alive, Actor, mainVars, designVars
<1>. QED BY <1>2, <1>3, <1>4, <1>5, <1>6, <1>7

\* sendDesignDist writes the one globals file that no round uses.
LEMMA WriteDesignOK ==
  ASSUME IInv, NEW a \in Actor, WriteDesign(a)
  PROVE  IInv'
<1>. USE SizesAssumption DEF IInv
<1>1. UNCHANGED <<mainVars, pool, designVars, cloudVars, joinVars>>
  BY DEF WriteDesign
<1>2. /\ writes' = writes + 1 /\ globalsFile' = [globalsFile EXCEPT ![DesignCfg] = writes + 1]
      /\ stage' = [stage EXCEPT ![a] = "written"] /\ Doing(a, "design")
  BY DEF WriteDesign, writeGlobals
<1>3. Types'
  BY <1>1, <1>2 DEF Types, mainVars, cloudVars, joinVars, Paths, DesignCfg
<1>4. Control' /\ Rounds'
  BY <1>1, <1>2 DEF Types, Control, Rounds, Doing, Actor, mainVars
<1>5. Behind'
  BY <1>1, <1>2 DEF Types, Behind, WState, Paths, None, DesignCfg, mainVars, cloudVars
<1>6. Followers'
  BY <1>1 DEF Followers, Holds, cloudVars, joinVars
<1>7. GlobalsSent' /\ ViaSent'
  BY <1>1, <1>2 DEF Types, GlobalsSent, ViaSent, Doing, Actor, hasUpdates, mainVars, designVars, cloudVars
<1>. QED BY <1>3, <1>4, <1>5, <1>6, <1>7

\* A round writes its globals to a path that nobody has read.
LEMMA SearchRepairOK ==
  ASSUME IInv, SearchRepair
  PROVE  IInv'
<1>. USE SizesAssumption DEF IInv
<1>1. /\ pc = "dr" /\ UNCHANGED <<doPA, paThread, iter, pool, stage, cloudVars, joinVars>>
      /\ \/ pc' = "batch" /\ version' = 0 /\ UNCHANGED updatesSz
         \/ pc' = "check" /\ version' = version /\ iter > 0
  BY DEF SearchRepair
<1>2. \/ /\ iter \in GlobalsAt /\ path' = iter /\ writes' = writes + 1
         /\ globalsFile' = [globalsFile EXCEPT ![iter] = writes + 1]
      \/ iter \notin GlobalsAt /\ UNCHANGED <<writes, globalsFile, path>>
  BY DEF SearchRepair, writeGlobals
<1>3. Types'
  <2>1. path' \in {None} \cup 0 .. Iterations - 1
    BY <1>2 DEF Types
  <2>2. writes' \in Nat /\ globalsFile' \in [Paths -> Nat]
    BY <1>2, SMTT(20) DEF Types, Paths
  <2>. QED BY <1>1, <2>1, <2>2 DEF Types, Routing, cloudVars, joinVars
<1>4. Control'
  BY <1>1 DEF Control, Routing, Types
<1>5. Rounds'
  BY <1>1, <1>2 DEF Rounds, Early, Routing, Types, None
<1>6. Behind'
  <2>1. path < path' \/ path = path'
    BY <1>1, <1>2 DEF Rounds
  <2>2. path \in Int /\ path' \in Int
    BY <1>2 DEF Types, None
  <2>3. ASSUME NEW q \in Paths, q <= path
        PROVE  globalsFile'[q] = globalsFile[q]
    <3>1. q # iter
      BY <1>1, <2>2, <2>3 DEF Rounds, Types, Paths, DesignCfg
    <3>. QED BY <1>2, <3>1 DEF Types
  <2>4. ASSUME NEW w \in Worker
        PROVE  /\ worker'[w].cfgPath <= path'
               /\ worker'[w].cfgPath >= 0 => worker'[w].globals = globalsFile'[worker'[w].cfgPath]
    <3>1. worker' = worker /\ worker[w].cfgPath \in {None} \cup Paths /\ worker[w].cfgPath \in Int
      BY <1>1 DEF Types, WState, Paths, None, DesignCfg, cloudVars
    <3>2. worker[w].cfgPath <= path
      BY DEF Behind
    <3>3. worker[w].cfgPath >= 0 => worker[w].globals = globalsFile[worker[w].cfgPath]
      BY DEF Behind
    <3>. QED BY <2>1, <2>2, <2>3, <3>1, <3>2, <3>3 DEF None
  <2>5. ASSUME NEW i \in 1 .. Len(saved')
        PROVE  saved'[i].path <= path'
    <3>1. saved' = saved /\ saved[i].path \in Int
      BY <1>1 DEF Types, Message, Paths, None, DesignCfg, cloudVars
    <3>2. saved[i].path <= path
      BY <3>1 DEF Behind
    <3>. QED BY <2>1, <2>2, <3>1, <3>2
  <2>. QED BY <2>4, <2>5 DEF Behind
<1>7. Followers'
  BY <1>1 DEF Followers, Holds, cloudVars, joinVars
<1>8. GlobalsSent'
  BY <1>1 DEF GlobalsSent
<1>9. ViaSent'
  BY <1>1 DEF ViaSent, Rounds, Types, hasUpdates, cloudVars
<1>. QED BY <1>3, <1>4, <1>5, <1>6, <1>7, <1>8, <1>9

\* An error ends the leader.
LEMMA ThrowOK ==
  ASSUME IInv, sendJobFails, Throw,
         UNCHANGED <<pool, stage, designVars, fileVars, joinVars>>
  PROVE  IInv'
<1>. USE DEF IInv
<1>1. Quiet /\ pc' = "failed" /\ UNCHANGED <<doPA, paThread, iter, version>>
  BY DEF Quiet, sendJobFails, Throw, fileVars, joinVars
<1>2. Types'
  BY <1>1 DEF Quiet, Types, fileVars
<1>3. Control' /\ Rounds'
  BY <1>1 DEF Control, Rounds, Early, Routing
<1>4. Behind' /\ Followers'
  BY <1>1, QuietOK
<1>5. GlobalsSent' /\ ViaSent'
  BY <1>1 DEF GlobalsSent, ViaSent
<1>. QED BY <1>2, <1>3, <1>4, <1>5

\* sendDesignDist and sendDesignUpdates broadcast.  Those of the background are
\* out of the way when the leader relies on the history.
LEMMA BroadcastOK ==
  ASSUME IInv, NEW a \in Actor, NEW task \in {"design", "updates"}, Broadcast(a, task)
  PROVE  IInv'
<1>. USE SizesAssumption DEF IInv
<1>. DEFINE m == MsgOf(a, task)
<1>1. CASE sendJobFails /\ Throw /\ UNCHANGED stage
  BY <1>1, ThrowOK DEF Broadcast
<1>2. CASE sendJob(m) /\ stage' = [stage EXCEPT ![a] = "sent"] /\ UNCHANGED mainVars
  <2>1. UNCHANGED <<mainVars, pool, designVars, fileVars, joinVars>> /\ Doing(a, task)
    BY <1>2 DEF Broadcast
  <2>2. m \in Message /\ m.path <= path
        /\ (a = "main" => m.path = path)
    <3>1. CASE task = "design"
      <4>1. a # "main"
        BY <2>1, <3>1 DEF Doing
      <4>2. DesignCfg <= path /\ DesignCfg \in {None} \cup Paths
        BY DEF Types, Paths, None, DesignCfg
      <4>3. m = Msg("design", DesignCfg, FALSE)
        BY <3>1 DEF MsgOf
      <4>. QED BY <4>1, <4>2, <4>3 DEF Msg, Message, Kind
    <3>2. CASE task = "updates" /\ a = "pool"
      BY <3>2 DEF MsgOf, Msg, Message, Kind, Types, Paths, None
    <3>3. CASE task = "updates" /\ a # "pool"
      <4>1. m = Msg("updates", path, FALSE) /\ path \in {None} \cup Paths /\ path \in Int
        BY <3>3 DEF MsgOf, Types, Paths, None
      <4>. QED BY <4>1 DEF Msg, Message, Kind
    <3>. QED BY <3>1, <3>2, <3>3
  <2>. HIDE DEF m
  <2>3. /\ saved' \in Seq(Message) /\ worker' \in [Worker -> WState]
        /\ members' \subseteq known'
        /\ Behind' /\ Followers'
        /\ m.path # None => IsLast(saved', Len(saved'), m.path)
        /\ ViaIn(saved, Len(saved)) => ViaIn(saved', Len(saved'))
    BY <1>2, <2>1, <2>2, SendJobOK DEF mainVars, fileVars, joinVars
  <2>4. Types'
    BY <1>2, <2>1, <2>3 DEF Types, mainVars, fileVars, joinVars
  <2>5. Control' /\ Rounds'
    <3>1. \A b \in Actor : stage'[b] # "begin" => b = a \/ stage[b] # "begin"
      BY <1>2 DEF Types
    <3>2. Control'
      BY <2>1, <3>1 DEF Control, Doing, Actor, mainVars
    <3>3. Rounds'
      BY <2>1 DEF Rounds, mainVars
    <3>. QED BY <3>2, <3>3
  <2>6. GlobalsSent'
    <3>1. CASE a = "main"
      BY <1>2, <2>1, <2>2, <2>3, <3>1, SMTT(30) DEF Types, GlobalsSent, Doing, Rounds, Routing, Actor, None, mainVars
    <3>2. CASE a # "main"
      <4>1. pc \notin {"send", "jobs"} /\ ~ (pc = "batch" /\ version > 0)
        BY <2>1, <3>2 DEF Doing, Control, Routing, Actor
      <4>. QED BY <2>1, <4>1 DEF GlobalsSent, mainVars
    <3>. QED BY <3>1, <3>2
  <2>7. ViaSent'
    BY <2>1, <2>3 DEF ViaSent, hasUpdates, mainVars, designVars
  <2>. QED BY <2>3, <2>4, <2>5, <2>6, <2>7
<1>. QED BY <1>1, <1>2 DEF Broadcast

\* INIT_PA and kGrdrInit; nobody looks at the result.
LEMMA BroadcastUncheckedOK ==
  ASSUME IInv, NEW a \in Actor, NEW kind \in {"initPA", "grdrInit"}, BroadcastUnchecked(a, kind)
  PROVE  IInv'
<1>. USE SizesAssumption DEF IInv
<1>. DEFINE m == Msg(kind, None, FALSE)
<1>1. /\ UNCHANGED <<designVars, fileVars, joinVars>> /\ UNCHANGED <<doPA, iter, version, path>>
      /\ Doing(a, kind) /\ Finish(a) /\ a # "main" /\ pc' = pc
  BY DEF BroadcastUnchecked, Finish, Doing
<1>2. m \in Message /\ m.path <= path
  BY DEF Msg, Message, Kind, Types, None
<1>3. /\ saved' \in Seq(Message) /\ worker' \in [Worker -> WState]
      /\ members' \subseteq known'
      /\ Behind' /\ Followers'
      /\ ViaIn(saved, Len(saved)) => ViaIn(saved', Len(saved'))
  <2>1. CASE sendJob(m)
    BY <1>1, <1>2, <2>1, SendJobOK DEF fileVars, joinVars
  <2>2. CASE sendJobFails
    <3>1. Quiet
      BY <1>1, <2>2 DEF Quiet, sendJobFails, fileVars, joinVars
    <3>. QED BY <3>1, QuietOK DEF Quiet, Types
  <2>. QED BY <2>1, <2>2 DEF BroadcastUnchecked
<1>4. pool' \in Seq(Task) /\ paThread' \in Seq(Task)
  BY <1>1, TailOK DEF Finish, Doing, Actor, Types
<1>5. Types'
  BY <1>1, <1>3, <1>4 DEF Types, Finish, fileVars, joinVars
<1>6. Control'
  BY <1>1, SMTT(30) DEF Types, Control, Finish, Doing, Actor
<1>7. Rounds'
  BY <1>1 DEF Rounds
<1>8. pc \notin {"send", "jobs"} /\ ~ (pc = "batch" /\ version > 0)
  BY <1>1 DEF Doing, Control, Routing, Actor
<1>9. GlobalsSent'
  BY <1>1, <1>8 DEF GlobalsSent
<1>10. ViaSent'
  <2>1. CASE a = "pool"
    BY <1>1, <1>3, <2>1, TailOK DEF Types, ViaSent, hasUpdates, Finish, Doing, designVars
  <2>2. CASE a = "pa"
    BY <1>1, <1>3, <2>2 DEF ViaSent, hasUpdates, Finish, designVars
  <2>. QED BY <1>1, <2>1, <2>2 DEF Actor
<1>. QED BY <1>3, <1>5, <1>6, <1>7, <1>9, <1>10

\* Pin access, after pa_thread has ended.
LEMMA PinAccessOK ==
  ASSUME IInv, PinAccess
  PROVE  IInv'
<1>. USE SizesAssumption DEF IInv
<1>. DEFINE m == Msg("updatePA", None, FALSE)
<1>1. CASE sendJobFails /\ Throw /\ UNCHANGED pool
  BY <1>1, ThrowOK DEF PinAccess
<1>2. CASE sendJob(m) /\ post("grdrInit") /\ pc' = "ta"
           /\ UNCHANGED <<doPA, paThread, iter, version, path>>
  <2>1. pc = "pa" /\ paThread = <<>> /\ UNCHANGED <<stage, designVars, fileVars, joinVars>>
    BY DEF PinAccess
  <2>2. m \in Message /\ m.path <= path
    BY DEF Msg, Message, Kind, Types, None
  <2>3. /\ saved' \in Seq(Message) /\ worker' \in [Worker -> WState]
        /\ members' \subseteq known'
        /\ Behind' /\ Followers'
    BY <1>2, <2>1, <2>2, SendJobOK DEF fileVars, joinVars
  <2>4. pool' \in Seq(Task) /\ pool' # <<>>
    BY <1>2, PostOK DEF post, Types, Task
  <2>5. Types'
    BY <1>2, <2>1, <2>3, <2>4 DEF Types, Early, fileVars, joinVars
  <2>6. Control' /\ Rounds'
    BY <1>2, <2>1, <2>4 DEF Types, Control, Rounds, Early, Routing
  <2>7. GlobalsSent' /\ ViaSent'
    BY <1>2 DEF GlobalsSent, ViaSent
  <2>. QED BY <2>3, <2>5, <2>6, <2>7
<1>. QED BY <1>1, <1>2 DEF PinAccess

\* Globals and via data go out before the first batch.
LEMMA SendGlobalsOK ==
  ASSUME IInv, SendGlobals
  PROVE  IInv'
<1>. USE SizesAssumption DEF IInv
<1>. DEFINE m == Msg("globals", path, TRUE)
<1>1. CASE sendJobFails /\ Throw
  BY <1>1, ThrowOK DEF SendGlobals
<1>2. CASE sendJob(m) /\ pc' = "jobs" /\ version' = version + 1
           /\ UNCHANGED <<doPA, paThread, iter, path>>
  <2>1. pc = "batch" /\ pool = <<>> /\ UNCHANGED <<pool, stage, designVars, fileVars, joinVars>>
    BY DEF SendGlobals, joinPool
  <2>2. m \in Message /\ m.path = path /\ path # None /\ m.path <= path /\ m.kind = "globals"
    BY <2>1 DEF Msg, Message, Kind, Types, Paths, None, Rounds, Routing
  <2>. HIDE DEF m
  <2>3. /\ saved' \in Seq(Message) /\ worker' \in [Worker -> WState]
        /\ members' \subseteq known'
        /\ Behind' /\ Followers'
        /\ IsLast(saved', Len(saved'), m.path)
        /\ ViaIn(saved', Len(saved'))
    BY <1>2, <2>1, <2>2, SendJobOK DEF fileVars, joinVars
  <2>4. Types'
    BY <1>2, <2>1, <2>3 DEF Types, Routing, fileVars, joinVars
  <2>5. Control' /\ Rounds'
    BY <1>2, <2>1 DEF Types, Control, Rounds, Early, Routing
  <2>6. GlobalsSent' /\ ViaSent'
    BY <1>2, <2>2, <2>3 DEF GlobalsSent, ViaSent
  <2>. QED BY <2>3, <2>4, <2>5, <2>6
<1>. QED BY <1>1, <1>2 DEF SendGlobals

\* A worker that is about to join has read nothing.
LEMMA StartJoinOK ==
  ASSUME IInv, NEW w \in Worker, StartJoin(w)
  PROVE  IInv'
<1>. USE SizesAssumption DEF IInv
<1>1. /\ UNCHANGED <<mainVars, pool, stage, designVars, fileVars, cloudVars>>
      /\ w \notin known /\ known' = known \cup {w} /\ joiner' = [worker |-> w, next |-> 1]
  BY DEF StartJoin
<1>2. Types'
  BY <1>1 DEF Types, mainVars, fileVars, cloudVars
<1>3. Control' /\ Rounds'
  BY <1>1 DEF Control, Rounds, mainVars
<1>4. Behind'
  BY <1>1 DEF Behind, mainVars, fileVars, cloudVars
<1>5. Followers'
  <2>1. \A v \in members' : Holds(v, Len(saved))'
    BY <1>1 DEF Followers, Holds, cloudVars
  <2>2. \A v \in Worker \ known' : worker'[v].cfgPath = None
    BY <1>1 DEF Followers, cloudVars
  <2>3. worker'[w].cfgPath = None
    BY <1>1 DEF Followers, cloudVars
  <2>4. Holds(w, 0)'
    BY <2>3 DEF Holds, IsLast, ViaIn
  <2>5. w \in known' \ members' /\ 1 \in 1 .. Len(saved') + 1
    BY <1>1 DEF Types, cloudVars
  <2>. QED BY <1>1, <2>1, <2>2, <2>4, <2>5 DEF Followers
<1>6. GlobalsSent' /\ ViaSent'
  BY <1>1 DEF GlobalsSent, ViaSent, hasUpdates, mainVars, designVars, cloudVars
<1>. QED BY <1>2, <1>3, <1>4, <1>5, <1>6

\* One more broadcast is replayed to the joining worker.
LEMMA ReplayBroadcastOK ==
  ASSUME IInv, ReplayBroadcast
  PROVE  IInv'
<1>. USE SizesAssumption DEF IInv
<1>. SUFFICES ASSUME NEW w, NEW n, w = joiner.worker, n = joiner.next
              PROVE  IInv'
  OBVIOUS
<1>. DEFINE m == saved[n]
<1>1. /\ UNCHANGED <<mainVars, pool, stage, designVars, fileVars, saved, members, known>>
      /\ w # NoWorker /\ n <= Len(saved)
      /\ worker' = [worker EXCEPT ![w] = Handle(worker[w], m)]
      /\ joiner' = [joiner EXCEPT !.next = n + 1]
  BY DEF ReplayBroadcast
<1>2. /\ w \in known \ members /\ w \in Worker /\ n \in 1 .. Len(saved)
      /\ Holds(w, n - 1) /\ n - 1 \in Nat
  <2>1. Len(saved) \in Nat
    BY DEF Types
  <2>2. w \in known \ members /\ n \in 1 .. Len(saved) + 1 /\ Holds(w, n - 1)
    BY <1>1 DEF Followers
  <2>3. n \in 1 .. Len(saved) /\ n - 1 \in Nat
    <3>. HIDE DEF IInv
    <3>1. n \in Int
      BY <2>1, <2>2
    <3>. QED BY <1>1, <2>1, <2>2, <3>1
  <2>4. w \in Worker
    BY <2>2 DEF Types
  <2>. QED BY <2>2, <2>3, <2>4
<1>3. m \in Message /\ m.path <= path
  <2>1. saved \in Seq(Message) /\ \A i \in 1 .. Len(saved) : saved[i].path <= path
    BY DEF Types, Behind
  <2>. HIDE DEF IInv
  <2>. QED BY <1>2, <2>1
<1>4. worker[w] \in WState /\ Sound(worker[w])
  BY <1>2 DEF Types, Behind, Sound
<1>5. Handle(worker[w], m) \in WState /\ Sound(Handle(worker[w], m))
  BY <1>3, <1>4, HandleFields, HandleSound
<1>6. /\ worker'[w] = Handle(worker[w], m)
      /\ \A v \in Worker \ {w} : worker'[v] = worker[v]
      /\ joiner'.worker = w /\ joiner'.next = n + 1
  BY <1>1, <1>2 DEF Types
<1>7. Types'
  <2>1. joiner' \in [worker : Worker \cup {NoWorker}, next : Nat]
    <3>1. n + 1 \in Nat
      BY <1>2
    <3>. QED BY <1>1, <3>1 DEF Types
  <2>2. worker' \in [Worker -> WState]
    BY <1>1, <1>2, <1>5 DEF Types
  <2>. QED BY <1>1, <2>1, <2>2 DEF Types, mainVars, fileVars
<1>8. Control' /\ Rounds'
  BY <1>1 DEF Control, Rounds, mainVars
<1>9. Behind'
  <2>1. Sound(worker'[w])
    BY <1>5, <1>6
  <2>2. \A v \in Worker \ {w} : Sound(worker[v])
    BY DEF Types, Behind, Sound
  <2>3. \A v \in Worker : Sound(worker'[v])
    BY <1>6, <2>1, <2>2, Zenon
  <2>. QED BY <1>1, <2>3 DEF Behind, Sound, mainVars, fileVars
<1>10. Followers'
  <2>1. \A v \in members' : Holds(v, Len(saved))'
    BY <1>1, <1>2, <1>6 DEF Followers, Holds, Types
  <2>2. \A v \in Worker \ known' : worker'[v].cfgPath = None
    BY <1>1, <1>2, <1>6 DEF Followers
  <2>3. IsLast(saved', n, worker'[w].cfgPath)
    <3>1. worker[w].cfgPath \in Int
      BY <1>4 DEF WState, Paths, None, DesignCfg
    <3>2. IsLast(saved, (n - 1) + 1, IF saved[(n - 1) + 1].path = None THEN worker[w].cfgPath
                                     ELSE saved[(n - 1) + 1].path)
      BY <1>2, <3>1, LastStep DEF Holds
    <3>3. (n - 1) + 1 = n
      BY <1>2
    <3>. QED BY <1>1, <1>3, <1>4, <1>6, <3>2, <3>3, HandleFields, SMTT(30)
  <2>4. ViaIn(saved', n) => worker'[w].viaData
    <3>1. SUFFICES ASSUME NEW i \in 1 .. n, saved[i].kind = "globals"
                   PROVE  worker'[w].viaData
      BY <1>1 DEF ViaIn
    <3>2. Handle(worker[w], m).viaData = (worker[w].viaData \/ m.kind = "globals")
      BY <1>3, <1>4, HandleFields
    <3>3. worker'[w].viaData = (worker[w].viaData \/ m.kind = "globals")
      BY <1>6, <3>2, Zenon
    <3>4. CASE i = n
      BY <3>1, <3>3, <3>4, Zenon
    <3>5. CASE i \in 1 .. n - 1
      <4>1. worker[w].viaData
        BY <1>2, <3>1, <3>5 DEF Holds, ViaIn
      <4>. QED BY <3>3, <4>1, Zenon
    <3>. QED BY <1>2, <3>4, <3>5
  <2>5. Len(saved') \in Nat /\ saved' = saved
    BY <1>1 DEF Types
  <2>6. joiner'.next - 1 = n /\ joiner'.next \in 1 .. Len(saved') + 1
    <3>. HIDE DEF IInv
    <3>. QED BY <1>2, <1>6, <2>5
  <2>7. w \in known' \ members'
    BY <1>1, <1>2
  <2>. QED BY <1>6, <2>1, <2>2, <2>3, <2>4, <2>6, <2>7 DEF Followers, Holds
<1>11. GlobalsSent' /\ ViaSent'
  BY <1>1 DEF GlobalsSent, ViaSent, hasUpdates, mainVars, designVars
<1>. QED BY <1>7, <1>8, <1>9, <1>10, <1>11

\* addWorker gives up, or the worker has the whole history and becomes a member.
LEMMA LeaveJoinOK ==
  ASSUME IInv, ReplayFails \/ EndJoin
  PROVE  IInv'
<1>. USE SizesAssumption DEF IInv
<1>1. /\ UNCHANGED <<mainVars, pool, stage, designVars, fileVars, saved, worker, known>>
      /\ joiner' = [worker |-> NoWorker, next |-> 1]
      /\ \/ members' = members
         \/ /\ members' = members \cup {joiner.worker}
            /\ joiner.worker # NoWorker /\ joiner.next > Len(saved)
  BY DEF ReplayFails, EndJoin
<1>2. CASE members' # members
  <2>1. joiner.worker \in known /\ Holds(joiner.worker, joiner.next - 1)
        /\ joiner.next - 1 = Len(saved)
    BY <1>1, <1>2 DEF Followers, Types
  <2>. QED BY <1>1, <1>2, <2>1 DEF Types, Control, Rounds, Behind, Followers, Holds, GlobalsSent,
         ViaSent, hasUpdates, mainVars, designVars, fileVars
<1>3. CASE members' = members
  BY <1>1, <1>3 DEF Types, Control, Rounds, Behind, Followers, Holds, GlobalsSent,
       ViaSent, hasUpdates, mainVars, designVars, fileVars
<1>. QED BY <1>2, <1>3

-----------------------------------------------------------------------------
\* The invariant is inductive.
LEMMA StepOK == IInv /\ [Next]_vars => IInv'
<1>. SUFFICES ASSUME IInv, [Next]_vars PROVE IInv'
  OBVIOUS
<1>1. CASE LeaderStep
  <2>1. CASE SendUpdatesStep
    BY <2>1, WriteUpdatesOK, BroadcastOK, ClearUpdatesOK DEF SendUpdatesStep, Actor
  <2>2. CASE StartMain \/ InitDesign \/ NoRoutableNets \/ PinAccess \/ AssignTrack \/ EndTA
    BY <2>2, StartMainOK, InitDesignOK, NoRoutableNetsOK, PinAccessOK, AssignTrackOK, EndTAOK
  <2>3. CASE SearchRepair \/ SendGlobals \/ SendUpdates \/ EndWorkersBatch \/ CheckConnectivity
    BY <2>3, SearchRepairOK, SendGlobalsOK, SendUpdatesOK, EndWorkersBatchOK, CheckConnectivityOK
  <2>. QED BY <1>1, <2>1, <2>2, <2>3 DEF LeaderStep
<1>2. CASE BackgroundStep
  BY <1>2, WriteDesignOK, WriteUpdatesOK, ClearUpdatesOK, BroadcastOK, BroadcastUncheckedOK
     DEF BackgroundStep, Actor
<1>3. CASE JoinStep
  BY <1>3, StartJoinOK, ReplayBroadcastOK, LeaveJoinOK DEF JoinStep
<1>4. CASE UNCHANGED vars
  BY <1>4 DEF IInv, Types, Control, Rounds, Behind, Followers, Holds, GlobalsSent, ViaSent,
       hasUpdates, vars, mainVars, designVars, fileVars, cloudVars, joinVars
<1>. QED BY <1>1, <1>2, <1>3, <1>4 DEF Next

\* A history that ends with the leader's path gives every member its globals,
\* and one with via data its via data.
LEMMA InvariantSuffices == IInv => GlobalsMatch /\ ViaDataArrives
<1>. SUFFICES ASSUME IInv, pc = "jobs", NEW w \in members
              PROVE  worker[w].globals = globalsFile[path] /\ worker[w].viaData
  BY DEF GlobalsMatch, ViaDataArrives
<1>. USE DEF IInv
<1>1. w \in Worker /\ Holds(w, Len(saved)) /\ IsLast(saved, Len(saved), path)
      /\ ViaIn(saved, Len(saved)) /\ path >= 0
  BY DEF Types, Followers, GlobalsSent, ViaSent, Rounds, Routing
<1>2. /\ Len(saved) \in Nat /\ worker[w].cfgPath \in Int /\ path \in Int
      /\ \A i \in 1 .. Len(saved) : saved[i].path \in Int
  BY <1>1 DEF Types, WState, Message, Paths, None, DesignCfg
<1>3. worker[w].cfgPath = path
  BY <1>1, <1>2, LastUnique DEF Holds
<1>. QED BY <1>1, <1>3 DEF Behind, Holds

\* Whenever jobs are out every worker that can get one has the globals that
\* searchRepair wrote last, for any number of workers, rounds, updates, retries
\* and failures, and whenever workers join.
THEOREM GlobalsAreCurrent == Spec => []GlobalsMatch
<1>1. IInv => GlobalsMatch
  BY InvariantSuffices
<1>. QED BY InitOK, StepOK, <1>1, PTL DEF Spec

\* Whenever jobs are out every worker that can get one has the via data, which
\* are sent only when the first batch of a round finds no updates.
THEOREM ViaDataAreThere == Spec => []ViaDataArrives
<1>1. IInv => ViaDataArrives
  BY InvariantSuffices
<1>. QED BY InitOK, StepOK, <1>1, PTL DEF Spec

-----------------------------------------------------------------------------
(* No worker is sent a broadcast before what its handler needs.  As long   *)
(* as no call of sendJob goes wrong, the order of the balancer's history   *)
(* is fixed: the broadcasts that set a worker up come first, each once,    *)
(* although three threads of the leader send them.  This is the inductive  *)
(* invariant of that.                                                      *)

\* The number of broadcasts that set a worker up.
SetupLen == IF doPA THEN 4 ELSE 1

\* The kinds of the i-th broadcast.
KindsAt(i) ==
  IF i > SetupLen THEN {"updates", "globals"}
  ELSE {CASE i = 1 -> "design" [] i = 2 -> "initPA" [] i = 3 -> "updatePA" [] OTHER -> "grdrInit"}

Ordered(h) == \A i \in 1 .. Len(h) : h[i].kind \in KindsAt(i)

\* State s is that of a worker that has handled the first n broadcasts.
Ready(s, n) ==
  /\ s.broken = FALSE
  /\ n = 0 => s.loaded = FALSE
  /\ n > 0 => s.loaded = TRUE
  /\ doPA /\ n >= 2 => s.paReady = TRUE
  /\ n >= SetupLen => s.prepared = TRUE

WorkersReady ==
  /\ Ordered(saved)
  /\ \A w \in Worker : worker[w].broken = FALSE
  /\ \A w \in members : Ready(worker[w], Len(saved))
  /\ \A w \in Worker \ known : Ready(worker[w], 0)
  /\ joiner.worker # NoWorker => Ready(worker[joiner.worker], joiner.next - 1)

\* What the pool does first.
Setup == IF doPA THEN "grdrInit" ELSE "design"
AtSetup == pool # <<>> /\ Head(pool) = Setup

SentBy(a) == IF stage[a] = "sent" THEN 1 ELSE 0

\* main has not started the pool.
PoolUnused == {"start", "initDesign", "pa", "failed"}

\* What the pool and pa_thread have left ...
Tasks ==
  /\ pool \in {<<>>, <<Setup>>, <<Setup, "updates">>, <<"updates">>}
  /\ pc \in Early => pool \in {<<>>, <<Setup>>}
  /\ pc = "start" \/ (doPA /\ pc \in PoolUnused) => pool = <<>>
  /\ ~ doPA => pc \notin {"pa", "failed"}
  /\ paThread \in {<<>>, <<"design", "initPA">>, <<"initPA">>}
  /\ ~ doPA \/ pc \notin {"initDesign", "pa", "failed"} => paThread = <<>>
  /\ stage["pa"] # "begin" => paThread = <<"design", "initPA">>
  /\ doPA /\ stage["pool"] # "begin" => pool = <<"updates">>

\* ... tells how many broadcasts have been saved.
Progress ==
  /\ pc = "start" => Len(saved) = 0
  /\ doPA =>
       /\ paThread = <<"design", "initPA">> => Len(saved) = SentBy("pa")
       /\ paThread = <<"initPA">> => Len(saved) = 1
       /\ pc \in {"initDesign", "pa"} /\ paThread = <<>> => Len(saved) = 2
       /\ pc \notin PoolUnused => IF AtSetup THEN Len(saved) = 3 ELSE Len(saved) >= 4
  /\ ~ doPA /\ pc # "start" =>
       IF AtSetup THEN Len(saved) = SentBy("pool") ELSE Len(saved) >= 1

HandlersInv == faults \in Nat /\ (faults = 0 => WorkersReady /\ Tasks /\ Progress)

-----------------------------------------------------------------------------
(* Handlers.                                                               *)

\* A handler that gets the next broadcast finds what it needs.
LEMMA HandleReady ==
  ASSUME Types, NEW s \in WState, NEW m \in Message, NEW n \in Nat, Ready(s, n),
         m.kind \in KindsAt(n + 1)
  PROVE  Ready(Handle(s, m), n + 1)
<1>. DEFINE t == loadGlobals(s, m.path)
<1>0. /\ t \in WState /\ t.loaded = s.loaded /\ t.paReady = s.paReady
      /\ t.prepared = s.prepared /\ t.broken = s.broken
  BY DEF loadGlobals, WState, Message, Types
<1>1. CASE n = 0
  <2>1. m.kind = "design" BY <1>1 DEF KindsAt, SetupLen
  <2>2. Handle(s, m) = resetDb(t) BY <2>1 DEF Handle
  <2>3. t.broken = FALSE /\ t.loaded = FALSE BY <1>0, <1>1 DEF Ready
  <2>4. /\ resetDb(t).broken = FALSE /\ resetDb(t).loaded = TRUE
        /\ doPA = FALSE => resetDb(t).prepared = TRUE
    BY <1>0, <2>3 DEF resetDb, WState
  <2>5. doPA \in BOOLEAN BY DEF Types
  <2>. HIDE DEF t
  <2>. QED BY <1>1, <2>2, <2>4, <2>5 DEF Ready, SetupLen
<1>2. CASE n = 1 /\ doPA
  <2>1. m.kind = "initPA" BY <1>2 DEF KindsAt, SetupLen
  <2>2. s.loaded = TRUE /\ s.broken = FALSE BY <1>2 DEF Ready
  <2>3. /\ Handle(s, m).paReady = TRUE /\ Handle(s, m).broken = FALSE
        /\ Handle(s, m).loaded = TRUE
    BY <2>1, <2>2 DEF Handle, WState
  <2>. QED BY <1>2, <2>3 DEF Ready, SetupLen
<1>3. CASE n = 2 /\ doPA
  <2>1. m.kind = "updatePA" BY <1>3 DEF KindsAt, SetupLen
  <2>2. s.loaded = TRUE /\ s.paReady = TRUE /\ s.broken = FALSE BY <1>3 DEF Ready
  <2>3. /\ Handle(s, m).paReady = TRUE /\ Handle(s, m).broken = FALSE
        /\ Handle(s, m).loaded = TRUE
    BY <2>1, <2>2 DEF Handle, WState
  <2>. QED BY <1>3, <2>3 DEF Ready, SetupLen
<1>4. CASE n = 3 /\ doPA
  <2>1. m.kind = "grdrInit" BY <1>4 DEF KindsAt, SetupLen
  <2>2. s.loaded = TRUE /\ s.paReady = TRUE /\ s.broken = FALSE BY <1>4 DEF Ready
  <2>3. /\ Handle(s, m).paReady = TRUE /\ Handle(s, m).broken = FALSE
        /\ Handle(s, m).loaded = TRUE /\ Handle(s, m).prepared = TRUE
    BY <2>1, <2>2 DEF Handle, WState
  <2>. QED BY <1>4, <2>3 DEF Ready, SetupLen
<1>5. CASE n >= SetupLen
  <2>0. n > 0 BY <1>5 DEF SetupLen
  <2>1. m.kind \in {"updates", "globals"} BY <1>5 DEF KindsAt, SetupLen
  <2>2. /\ t.loaded = TRUE /\ t.prepared = TRUE /\ t.broken = FALSE
        /\ doPA => t.paReady = TRUE
    BY <1>0, <1>5, <2>0 DEF Ready, SetupLen
  <2>3. CASE m.kind = "updates"
    <3>1. Handle(s, m) = updateDesign(t) BY <2>3 DEF Handle
    <3>2. /\ updateDesign(t).loaded = TRUE /\ updateDesign(t).prepared = TRUE
          /\ updateDesign(t).broken = FALSE /\ updateDesign(t).paReady = t.paReady
      BY <1>0, <2>2 DEF updateDesign, WState
    <3>. HIDE DEF t
    <3>. QED BY <2>0, <2>2, <3>1, <3>2 DEF Ready
  <2>4. CASE m.kind = "globals"
    <3>1. Handle(s, m) = loadViaData(t, m.via) BY <2>4 DEF Handle
    <3>2. /\ loadViaData(t, m.via).loaded = TRUE /\ loadViaData(t, m.via).prepared = TRUE
          /\ loadViaData(t, m.via).broken = FALSE /\ loadViaData(t, m.via).paReady = t.paReady
      BY <1>0, <2>2 DEF loadViaData, WState
    <3>. HIDE DEF t
    <3>. QED BY <2>0, <2>2, <3>1, <3>2 DEF Ready
  <2>. QED BY <2>1, <2>3, <2>4
<1>6. doPA \/ ~ doPA BY DEF Types
<1>. QED BY <1>1, <1>2, <1>3, <1>4, <1>5, <1>6 DEF SetupLen

-----------------------------------------------------------------------------
(* Broadcasts and late workers.                                            *)

\* A broadcast whose turn it is keeps the order of the history and finds every
\* member ready for it.
LEMMA DeliverReady ==
  ASSUME Types, WorkersReady, NEW m \in Message, m.kind \in KindsAt(Len(saved) + 1),
         Deliver(m, FALSE), UNCHANGED <<doPA, joiner, known>>
  PROVE  WorkersReady' /\ Len(saved') = Len(saved) + 1
<1>1. PICK failed \in SUBSET members :
        /\ members' = members \ failed
        /\ worker' = [w \in Worker |->
             IF w \notin members \ failed THEN worker[w] ELSE Handle(worker[w], m)]
  BY DEF Deliver
<1>2. saved' = Append(saved, m) BY DEF Deliver
<1>3. /\ Len(saved) \in Nat /\ Len(saved') = Len(saved) + 1
      /\ saved'[Len(saved) + 1] = m /\ \A i \in 1 .. Len(saved) : saved'[i] = saved[i]
  BY <1>2 DEF Types
<1>4. \A i : KindsAt(i)' = KindsAt(i) BY DEF KindsAt, SetupLen
<1>5. Ordered(saved)'
  <2>. SUFFICES ASSUME NEW i \in 1 .. Len(saved) + 1 PROVE saved'[i].kind \in KindsAt(i)
    BY <1>3, <1>4 DEF Ordered
  <2>1. i = Len(saved) + 1 \/ i \in 1 .. Len(saved) BY <1>3
  <2>. QED BY <1>3, <2>1 DEF WorkersReady, Ordered
<1>6. ASSUME NEW w \in members
      PROVE  Ready(Handle(worker[w], m), Len(saved) + 1)
  <2>1. w \in Worker /\ worker[w] \in WState BY <1>6 DEF Types
  <2>2. Ready(worker[w], Len(saved)) BY DEF WorkersReady
  <2>. QED BY <1>3, <2>1, <2>2, HandleReady
<1>7. \A s, n : Ready(s, n) => /\ s.broken = FALSE
                               /\ n = 0 => s.loaded = FALSE
                               /\ n > 0 => s.loaded = TRUE
                               /\ doPA' /\ n >= 2 => s.paReady = TRUE
                               /\ n >= SetupLen' => s.prepared = TRUE
  BY DEF Ready, SetupLen
<1>8. ASSUME NEW w \in Worker PROVE worker'[w].broken = FALSE
  BY <1>1, <1>6, <1>7 DEF WorkersReady
<1>9. ASSUME NEW w \in members' PROVE Ready(worker[w], Len(saved))'
  <2>1. w \in members \ failed /\ w \in Worker BY <1>1 DEF Types
  <2>2. worker'[w] = Handle(worker[w], m) BY <1>1, <2>1
  <2>. QED BY <1>3, <1>6, <1>7, <2>1, <2>2 DEF Ready
<1>10. ASSUME NEW w \in Worker \ known' PROVE Ready(worker[w], 0)'
  <2>1. w \notin members /\ w \in Worker \ known BY DEF Types
  <2>2. worker'[w] = worker[w] /\ Ready(worker[w], 0) BY <1>1, <2>1 DEF WorkersReady
  <2>. QED BY <1>7, <2>2 DEF Ready
<1>11. joiner'.worker = NoWorker BY DEF Deliver
<1>. QED BY <1>3, <1>5, <1>8, <1>9, <1>10, <1>11 DEF WorkersReady

\* A step that leaves workers, history and queue alone keeps them ready.
LEMMA ReadyFrame ==
  ASSUME WorkersReady, UNCHANGED <<doPA, saved, worker, members, known, joiner>>
  PROVE  WorkersReady'
BY DEF WorkersReady, Ordered, KindsAt, SetupLen, Ready

\* A worker that joins late handles the same broadcasts in the same order.
LEMMA ReplayReady ==
  ASSUME IInv, WorkersReady, ReplayBroadcast
  PROVE  WorkersReady'
<1>. DEFINE w == joiner.worker
            k == joiner.next
            m == saved[k]
<1>1. /\ w # NoWorker /\ k <= Len(saved) /\ worker' = [worker EXCEPT ![w] = Handle(@, m)]
      /\ joiner' = [joiner EXCEPT !.next = @ + 1]
      /\ UNCHANGED <<doPA, saved, members, known>>
  BY DEF ReplayBroadcast, mainVars
<1>2. w \in known \ members /\ w \in Worker /\ k \in 1 .. Len(saved) + 1
  BY <1>1 DEF IInv, Followers, Types
<1>3. Len(saved) \in Nat /\ k \in Nat /\ k \in 1 .. Len(saved) /\ k - 1 \in Nat /\ (k - 1) + 1 = k
  BY <1>1, <1>2, SMTT(20) DEF IInv, Types
<1>4. m \in Message /\ m.kind \in KindsAt(k)
  BY <1>3 DEF WorkersReady, Ordered, IInv, Types
<1>5. worker[w] \in WState /\ Ready(worker[w], k - 1)
  BY <1>1, <1>2 DEF WorkersReady, IInv, Types
<1>6. Ready(Handle(worker[w], m), k)
  <2>. HIDE DEF w, k, m
  <2>. QED BY <1>3, <1>4, <1>5, HandleReady DEF IInv
<1>7. /\ joiner'.worker = w /\ joiner'.next - 1 = k /\ worker'[w] = Handle(worker[w], m)
      /\ \A v \in Worker : v # w => worker'[v] = worker[v]
  BY <1>1, <1>2, <1>3 DEF IInv, Types
<1>. HIDE DEF w, k, m
<1>8. Ready(worker[joiner.worker], joiner.next - 1)'
  BY <1>1, <1>6, <1>7 DEF Ready, SetupLen
<1>9. Ordered(saved)' BY <1>1 DEF WorkersReady, Ordered, KindsAt, SetupLen
<1>10. \A v \in Worker : worker'[v].broken = FALSE
  <2>1. Handle(worker[w], m).broken = FALSE BY <1>6 DEF Ready
  <2>. QED BY <1>7, <2>1 DEF WorkersReady
<1>11. \A v \in members' : Ready(worker[v], Len(saved))'
  <2>1. \A v \in members : v # w /\ v \in Worker BY <1>2 DEF IInv, Types
  <2>. QED BY <1>1, <1>7, <2>1 DEF WorkersReady, Ready, SetupLen
<1>12. \A v \in Worker \ known' : Ready(worker[v], 0)'
  <2>1. \A v \in Worker \ known : v # w BY <1>2
  <2>. QED BY <1>1, <1>7, <2>1 DEF WorkersReady, Ready, SetupLen
<1>. QED BY <1>8, <1>9, <1>10, <1>11, <1>12 DEF WorkersReady

\* The other steps of addWorker.
LEMMA JoinReady ==
  ASSUME IInv, WorkersReady, ReplayFails \/ EndJoin \/ \E w \in Worker : StartJoin(w)
  PROVE  WorkersReady'
<1>0. UNCHANGED <<doPA, saved, worker>>
  BY DEF ReplayFails, EndJoin, StartJoin, mainVars, cloudVars
<1>a. Ordered(saved)' BY <1>0 DEF WorkersReady, Ordered, KindsAt, SetupLen
<1>b. \A v \in Worker : worker'[v].broken = FALSE BY <1>0 DEF WorkersReady
<1>c. \A v, n : Ready(worker[v], n) => Ready(worker[v], n)' BY <1>0 DEF Ready, SetupLen
<1>1. CASE ReplayFails
  <2>1. joiner'.worker = NoWorker /\ UNCHANGED <<members, known>> BY <1>1 DEF ReplayFails
  <2>. QED BY <1>0, <1>a, <1>b, <2>1 DEF WorkersReady, Ready, SetupLen
<1>2. CASE EndJoin
  <2>1. /\ joiner'.worker = NoWorker /\ members' = members \cup {joiner.worker} /\ UNCHANGED known
        /\ joiner.worker # NoWorker /\ joiner.next > Len(saved)
    BY <1>2 DEF EndJoin
  <2>2. joiner.next \in 1 .. Len(saved) + 1 /\ Len(saved) \in Nat
    BY <2>1 DEF IInv, Followers, Types
  <2>3. joiner.next - 1 = Len(saved) BY <2>1, <2>2
  <2>4. Ready(worker[joiner.worker], Len(saved)) BY <2>1, <2>3 DEF WorkersReady
  <2>5. \A v \in members' : Ready(worker[v], Len(saved)) BY <2>1, <2>4 DEF WorkersReady
  <2>6. \A v \in Worker \ known' : Ready(worker[v], 0)' BY <1>0, <2>1 DEF WorkersReady, Ready, SetupLen
  <2>7. \A v \in members' : Ready(worker[v], Len(saved))' BY <1>0, <2>5 DEF Ready, SetupLen
  <2>. QED BY <1>a, <1>b, <2>1, <2>6, <2>7 DEF WorkersReady
<1>3. ASSUME NEW w \in Worker, StartJoin(w) PROVE WorkersReady'
  <2>1. /\ joiner' = [worker |-> w, next |-> 1] /\ w \notin known /\ known' = known \cup {w}
        /\ UNCHANGED members
    BY <1>3 DEF StartJoin, cloudVars
  <2>2. Ready(worker[w], 0) BY <2>1 DEF WorkersReady
  <2>3. joiner'.worker = w /\ joiner'.next - 1 = 0 BY <2>1
  <2>4. Ready(worker[joiner.worker], joiner.next - 1)' BY <1>0, <2>2, <2>3 DEF Ready, SetupLen
  <2>5. \A v \in members' : Ready(worker[v], Len(saved))'
    BY <1>0, <2>1 DEF WorkersReady, Ready, SetupLen
  <2>6. \A v \in Worker \ known' : Ready(worker[v], 0)'
    BY <1>0, <2>1 DEF WorkersReady, Ready, SetupLen
  <2>. QED BY <1>a, <1>b, <2>4, <2>5, <2>6 DEF WorkersReady
<1>. QED BY <1>1, <1>2, <1>3

-----------------------------------------------------------------------------
(* The tasks of the pool and of pa_thread.                                 *)

\* Queues of at most two tasks.
LEMMA Tuples ==
  ASSUME NEW s \in Task, NEW t \in Task
  PROVE  /\ Append(<<>>, s) = <<s>> /\ Append(<<s>>, t) = <<s, t>>
         /\ Tail(<<s>>) = <<>> /\ Tail(<<s, t>>) = <<t>>
         /\ Head(<<s>>) = s /\ Head(<<s, t>>) = s
         /\ <<s>> # <<>> /\ <<s, t>> # <<>>
         /\ <<s>> = <<t>> <=> s = t
         /\ \A u \in Task : <<s, t>> # <<u>>
<1>1. Append(<<>>, s) = <<s>> OBVIOUS
<1>2. Append(<<s>>, t) = <<s, t>>
  <2>1. <<s>> \in Seq(Task) /\ <<s, t>> \in Seq(Task) OBVIOUS
  <2>2. Append(<<s>>, t) \in Seq(Task) /\ Len(Append(<<s>>, t)) = 2 BY <2>1
  <2>3. Append(<<s>>, t)[1] = s /\ Append(<<s>>, t)[2] = t BY <2>1
  <2>4. \A i \in 1 .. 2 : Append(<<s>>, t)[i] = <<s, t>>[i] BY <2>3
  <2>. QED BY <2>1, <2>2, <2>4, SeqEqual
<1>3. Tail(<<s>>) = <<>> OBVIOUS
<1>4. Tail(<<s, t>>) = <<t>> OBVIOUS
<1>5. Head(<<s>>) = s /\ Head(<<s, t>>) = s OBVIOUS
<1>6. /\ Len(<<>>) = 0 /\ Len(<<s>>) = 1 /\ Len(<<s, t>>) = 2
      /\ \A u \in Task : Len(<<u>>) = 1
  OBVIOUS
<1>7. <<s>> # <<>> /\ <<s, t>> # <<>> BY <1>6
<1>8. <<s>> = <<t>> <=> s = t OBVIOUS
<1>9. \A u \in Task : <<s, t>> # <<u>> BY <1>6
<1>. QED BY <1>1, <1>2, <1>3, <1>4, <1>5, <1>7, <1>8, <1>9

\* The queues of this program.
PoolFacts ==
  /\ Append(<<>>, Setup) = <<Setup>> /\ Append(<<>>, "updates") = <<"updates">>
  /\ Append(<<Setup>>, "updates") = <<Setup, "updates">>
  /\ Tail(<<Setup>>) = <<>> /\ Tail(<<"updates">>) = <<>>
  /\ Tail(<<Setup, "updates">>) = <<"updates">>
  /\ Head(<<Setup>>) = Setup /\ Head(<<"updates">>) = "updates" /\ Head(<<Setup, "updates">>) = Setup
  /\ <<Setup>> # <<>> /\ <<"updates">> # <<>> /\ <<Setup, "updates">> # <<>>
  /\ <<Setup>> # <<"updates">> /\ <<Setup, "updates">> # <<"updates">>
  /\ <<Setup, "updates">> # <<Setup>>

PaFacts ==
  /\ Tail(<<"design", "initPA">>) = <<"initPA">> /\ Tail(<<"initPA">>) = <<>>
  /\ Head(<<"design", "initPA">>) = "design" /\ Head(<<"initPA">>) = "initPA"
  /\ <<"design", "initPA">> # <<>> /\ <<"initPA">> # <<>>
  /\ <<"design", "initPA">> # <<"initPA">>

LEMMA QueueFacts == PoolFacts /\ PaFacts
<1>1. Setup \in Task /\ "updates" \in Task /\ "design" \in Task /\ "initPA" \in Task
      /\ Setup # "updates"
  BY DEF Setup, Task
<1>2. PoolFacts
  <2>. HIDE DEF Setup
  <2>. QED BY <1>1, Tuples DEF PoolFacts
<1>3. PaFacts BY <1>1, Tuples DEF PaFacts
<1>. QED BY <1>2, <1>3

\* What a step must keep of the queues, apart from the workers.
Queues == Tasks /\ Progress

\* main starts pa_thread, or posts sendDesignDist to the pool.
LEMMA StartMainTasks ==
  ASSUME IInv, Queues, StartMain
  PROVE  Queues'
<1>. USE QueueFacts DEF PoolFacts, PaFacts
<1>1. /\ pc = "start" /\ pc' = "initDesign" /\ UNCHANGED <<doPA, stage, saved>>
      /\ IF doPA THEN paThread' = <<"design", "initPA">> /\ pool' = pool
                 ELSE pool' = Append(pool, "design") /\ paThread' = paThread
  BY DEF StartMain, post, cloudVars
<1>2. /\ pool = <<>> /\ paThread = <<>> /\ Len(saved) = 0 /\ stage["pool"] = "begin"
      /\ stage["pa"] = "begin" /\ doPA \in BOOLEAN
  <2>1. pool = <<>> /\ paThread = <<>> BY <1>1 DEF Queues, Tasks
  <2>2. Len(saved) = 0 BY <1>1 DEF Queues, Progress
  <2>3. stage["pool"] = "begin" /\ stage["pa"] = "begin" BY <2>1 DEF IInv, Control
  <2>. QED BY <2>1, <2>2, <2>3 DEF IInv, Types
<1>3. Setup' = Setup BY <1>1 DEF Setup
<1>4. CASE doPA
  <2>1. paThread' = <<"design", "initPA">> /\ pool' = <<>> /\ SentBy("pa")' = 0
    BY <1>1, <1>2, <1>4 DEF SentBy
  <2>2. Tasks' BY <1>1, <1>2, <1>3, <1>4, <2>1 DEF Tasks, PoolUnused, Early
  <2>3. Progress' BY <1>1, <1>2, <1>4, <2>1 DEF Progress, PoolUnused
  <2>. QED BY <2>2, <2>3 DEF Queues
<1>5. CASE ~ doPA
  <2>1. pool' = <<Setup>> BY <1>1, <1>2, <1>5 DEF Setup
  <2>2. AtSetup' BY <1>3, <2>1 DEF AtSetup
  <2>. QED BY <1>1, <1>2, <1>3, <1>5, <2>1, <2>2 DEF Queues, Tasks, Progress, PoolUnused, Early, SentBy
<1>. QED BY <1>2, <1>4, <1>5

\* main goes on without sending anything.
LEMMA MainTasks ==
  ASSUME IInv, Queues, UNCHANGED <<doPA, paThread, pool, stage, saved>>,
         \/ pc = "initDesign" /\ pc' = IF doPA THEN "pa" ELSE "ta"
         \/ pc = "initDesign" /\ pc' = IF doPA THEN "failed" ELSE "done"
         \/ pc' = pc
         \/ /\ pc \in {"dr", "batch", "send", "jobs", "check"}
            /\ pc' \in {"dr", "batch", "send", "jobs", "check", "done"}
  PROVE  Queues'
<1>. USE QueueFacts DEF PoolFacts, PaFacts
<1>0. Setup' = Setup /\ doPA \in BOOLEAN /\ AtSetup' = AtSetup BY DEF Setup, IInv, Types, AtSetup
<1>1. Tasks'
  BY <1>0 DEF Queues, Tasks, PoolUnused, Early
<1>2. Progress'
  BY <1>0 DEF Queues, Progress, PoolUnused, SentBy
<1>. QED BY <1>1, <1>2 DEF Queues

\* Sending the updates of track assignment is posted.
LEMMA EndTATasks ==
  ASSUME IInv, Queues, EndTA
  PROVE  Queues'
<1>. USE QueueFacts DEF PoolFacts, PaFacts
<1>1. /\ pc = "ta" /\ pc' = "dr" /\ UNCHANGED <<doPA, paThread, stage, saved>>
      /\ pool' = Append(pool, "updates")
  BY DEF EndTA, post, cloudVars
<1>0. Setup' = Setup /\ doPA \in BOOLEAN BY <1>1 DEF Setup, IInv, Types
<1>2. pool \in {<<>>, <<Setup>>} BY <1>1 DEF Queues, Tasks, Early
<1>3. pool' \in {<<"updates">>, <<Setup, "updates">>} /\ AtSetup' = AtSetup
  BY <1>0, <1>1, <1>2 DEF AtSetup
<1>4. stage["pool"] # "begin" => pool # <<>> BY DEF IInv, Control
<1>5. Tasks' BY <1>0, <1>1, <1>2, <1>3, <1>4 DEF Queues, Tasks, PoolUnused, Early
<1>6. Progress' BY <1>0, <1>1, <1>3 DEF Queues, Progress, PoolUnused, SentBy
<1>. QED BY <1>5, <1>6 DEF Queues

\* What a thread is executing when it has something to do.
LEMMA DoingTasks ==
  ASSUME IInv, Queues, NEW task \in Task
  PROVE  /\ Doing("pa", task) => /\ doPA /\ pc \in {"initDesign", "pa", "failed"}
                                 /\ task = "design" => paThread = <<"design", "initPA">>
                                 /\ task # "design" => task = "initPA" /\ paThread = <<"initPA">>
                                 /\ stage["pa"] # "begin" => task = "design"
         /\ Doing("pool", task) => /\ pc # "start" /\ (doPA => pc \notin PoolUnused)
                                   /\ task \in {Setup, "updates"}
                                   /\ task = "updates" => pool = <<"updates">> /\ ~ AtSetup
                                   /\ task # "updates" => AtSetup /\ Tail(pool) \in {<<>>, <<"updates">>}
<1>. USE QueueFacts DEF PoolFacts, PaFacts
<1>1. /\ pool \in {<<>>, <<Setup>>, <<Setup, "updates">>, <<"updates">>}
      /\ paThread \in {<<>>, <<"design", "initPA">>, <<"initPA">>}
      /\ Setup # "updates"
  BY DEF Queues, Tasks, Setup
<1>2. ASSUME Doing("pa", task)
      PROVE  /\ doPA /\ pc \in {"initDesign", "pa", "failed"}
             /\ task = "design" => paThread = <<"design", "initPA">>
             /\ task # "design" => task = "initPA" /\ paThread = <<"initPA">>
             /\ stage["pa"] # "begin" => task = "design"
  BY <1>1, <1>2 DEF Queues, Tasks, Doing
<1>3. ASSUME Doing("pool", task)
      PROVE  /\ pc # "start" /\ (doPA => pc \notin PoolUnused)
             /\ task \in {Setup, "updates"}
             /\ task = "updates" => pool = <<"updates">> /\ ~ AtSetup
             /\ task # "updates" => AtSetup /\ Tail(pool) \in {<<>>, <<"updates">>}
  <2>1. pool # <<>> /\ Head(pool) = task BY <1>3 DEF Doing
  <2>2. pc # "start" /\ (doPA => pc \notin PoolUnused) BY <2>1 DEF Queues, Tasks
  <2>3. pool = <<"updates">> \/ pool \in {<<Setup>>, <<Setup, "updates">>} BY <1>1, <2>1
  <2>4. CASE pool = <<"updates">> BY <1>1, <2>1, <2>2, <2>4 DEF AtSetup
  <2>5. CASE pool \in {<<Setup>>, <<Setup, "updates">>}
    <3>1. Head(pool) = Setup /\ Tail(pool) \in {<<>>, <<"updates">>} BY <2>5
    <3>. QED BY <1>1, <2>1, <2>2, <3>1 DEF AtSetup
  <2>. QED BY <2>3, <2>4, <2>5
<1>. QED BY <1>2, <1>3

\* A thread goes on to its next stage with its task.
LEMMA StageTasks ==
  ASSUME IInv, Queues, NEW a \in Actor, NEW task \in Task, Doing(a, task), task # "initPA",
         task # "grdrInit", UNCHANGED <<doPA, pc, paThread, pool>>,
         \/ stage[a] # "sent" /\ stage' = [stage EXCEPT ![a] = "written"] /\ saved' = saved
         \/ /\ stage[a] = "written" /\ stage' = [stage EXCEPT ![a] = "sent"]
            /\ Len(saved) \in Nat /\ Len(saved') = Len(saved) + 1
  PROVE  Queues'
<1>. USE QueueFacts DEF PoolFacts, PaFacts
<1>0. /\ Setup' = Setup /\ doPA \in BOOLEAN /\ AtSetup' = AtSetup /\ Len(saved) \in Nat
      /\ stage \in [Actor -> {"begin", "written", "sent"}]
  BY DEF Setup, AtSetup, IInv, Types
<1>1. CASE a = "main"
  <2>1. /\ stage'["pa"] = stage["pa"] /\ stage'["pool"] = stage["pool"] /\ pc = "send" /\ pool = <<>>
        /\ Len(saved') >= Len(saved) /\ Len(saved') \in Nat /\ paThread = <<>>
    BY <1>0, <1>1 DEF Actor, Doing, IInv, Control, Routing
  <2>2. ~ AtSetup BY <2>1 DEF AtSetup
  <2>3. Tasks' BY <1>0, <2>1 DEF Queues, Tasks, PoolUnused, Early
  <2>4. Progress' BY <1>0, <2>1, <2>2 DEF Queues, Progress, PoolUnused
  <2>. QED BY <2>3, <2>4 DEF Queues
<1>2. CASE a = "pool"
  <2>1. /\ stage'["pa"] = stage["pa"] /\ pc # "start" /\ (doPA => pc \notin PoolUnused)
        /\ task = "updates" => pool = <<"updates">> /\ ~ AtSetup
        /\ task # "updates" => AtSetup /\ task = Setup
    BY <1>0, <1>2, DoingTasks DEF Actor
  <2>2. doPA => task = "updates" /\ paThread = <<>> BY <2>1 DEF Setup, Queues, Tasks, PoolUnused
  <2>3. Tasks' BY <1>0, <2>1, <2>2 DEF Queues, Tasks, PoolUnused, Early
  <2>4. Len(saved') = Len(saved) \/ Len(saved') = Len(saved) + 1 BY <1>0
  <2>5. CASE doPA
    <3>1. pc \notin PoolUnused /\ ~ AtSetup /\ Len(saved) >= 4
      BY <2>1, <2>2, <2>5 DEF Queues, Progress
    <3>2. Len(saved') >= 4 BY <1>0, <2>4, <3>1
    <3>3. Progress' BY <1>0, <2>2, <2>5, <3>1, <3>2 DEF Progress, PoolUnused
    <3>. QED BY <2>3, <3>3 DEF Queues
  <2>6. CASE ~ doPA
    <3>1. CASE AtSetup
      <4>1. Len(saved) = SentBy("pool") BY <2>1, <2>6, <3>1 DEF Queues, Progress
      <4>2. Len(saved') = SentBy("pool")' BY <1>0, <1>2, <4>1 DEF SentBy
      <4>. QED BY <1>0, <2>1, <2>3, <2>6, <3>1, <4>2 DEF Queues, Progress
    <3>2. CASE ~ AtSetup
      BY <1>0, <2>1, <2>3, <2>4, <2>6, <3>2 DEF Queues, Progress
    <3>. QED BY <3>1, <3>2
  <2>. QED BY <1>0, <2>3, <2>5, <2>6 DEF Queues
<1>3. CASE a = "pa"
  <2>1. /\ stage'["pool"] = stage["pool"] /\ doPA /\ paThread = <<"design", "initPA">>
        /\ pc \in {"initDesign", "pa", "failed"}
    BY <1>0, <1>3, DoingTasks DEF Actor, Task
  <2>2. Len(saved) = SentBy("pa") BY <2>1 DEF Queues, Progress
  <2>3. Len(saved') = SentBy("pa")' BY <1>0, <1>3, <2>2 DEF SentBy
  <2>4. Tasks' BY <1>0, <2>1 DEF Queues, Tasks, PoolUnused, Early
  <2>5. Progress' BY <1>0, <2>1, <2>3 DEF Queues, Progress, PoolUnused
  <2>. QED BY <2>4, <2>5 DEF Queues
<1>. QED BY <1>1, <1>2, <1>3 DEF Actor

\* A thread ends its task.
LEMMA FinishTasks ==
  ASSUME IInv, Queues, Alive, NEW a \in Actor, NEW task \in Task, Doing(a, task), Finish(a),
         \/ task = "updates" /\ saved' = saved
         \/ stage[a] = "sent" /\ saved' = saved
         \/ task \in {"initPA", "grdrInit"} /\ Len(saved') = Len(saved) + 1
  PROVE  Queues'
<1>. USE QueueFacts DEF PoolFacts, PaFacts
<1>1. /\ doPA' = doPA /\ stage' = [stage EXCEPT ![a] = "begin"]
      /\ pc' = IF a = "main" THEN "jobs" ELSE pc
      /\ pool' = IF a = "pool" THEN Tail(pool) ELSE pool
      /\ paThread' = IF a = "pa" THEN Tail(paThread) ELSE paThread
  BY DEF Finish
<1>0. /\ Setup' = Setup /\ Setup # "updates" /\ doPA \in BOOLEAN /\ Len(saved) \in Nat
      /\ stage \in [Actor -> {"begin", "written", "sent"}] /\ pc # "failed"
  BY <1>1 DEF Setup, IInv, Types, Alive
<1>2. CASE a = "main"
  <2>1. /\ pc = "send" /\ pc' = "jobs" /\ saved' = saved /\ pool = <<>> /\ paThread = <<>>
        /\ UNCHANGED <<pool, paThread>> /\ stage'["pool"] = stage["pool"] /\ stage'["pa"] = stage["pa"]
    BY <1>0, <1>1, <1>2 DEF Actor, Doing, IInv, Control, Routing
  <2>2. ~ AtSetup /\ ~ AtSetup' BY <2>1 DEF AtSetup
  <2>3. Tasks' BY <1>0, <1>1, <2>1 DEF Queues, Tasks, PoolUnused, Early
  <2>4. Progress' BY <1>0, <1>1, <2>1, <2>2 DEF Queues, Progress, PoolUnused
  <2>. QED BY <2>3, <2>4 DEF Queues
<1>3. CASE a = "pool"
  <2>1. /\ pc' = pc /\ pool' = Tail(pool) /\ paThread' = paThread /\ stage'["pa"] = stage["pa"]
        /\ stage'["pool"] = "begin"
    BY <1>0, <1>1, <1>3 DEF Actor
  <2>2. /\ pc # "start" /\ (doPA => pc \notin PoolUnused)
        /\ task \in {Setup, "updates"}
        /\ task = "updates" => pool = <<"updates">> /\ ~ AtSetup
        /\ task # "updates" => AtSetup /\ Tail(pool) \in {<<>>, <<"updates">>}
    BY <1>3, DoingTasks
  <2>3. pool' \in {<<>>, <<"updates">>} BY <2>1, <2>2
  <2>4. ~ AtSetup' BY <1>0, <2>3 DEF AtSetup
  <2>5. pc \in Early => pool' = <<>>
    <3>1. ASSUME pc \in Early PROVE pool' = <<>>
      <4>1. pool \in {<<>>, <<Setup>>} BY <3>1 DEF Queues, Tasks
      <4>2. pool # <<>> BY <1>3 DEF Doing
      <4>. QED BY <2>1, <4>1, <4>2
    <3>. QED BY <3>1
  <2>6. doPA => paThread = <<>> BY <2>2 DEF Queues, Tasks, PoolUnused
  <2>7. Tasks' BY <1>0, <1>1, <2>1, <2>2, <2>3, <2>5, <2>6 DEF Queues, Tasks, PoolUnused, Early
  <2>8. CASE doPA
    <3>1. task = "updates" \/ (task = "grdrInit" /\ AtSetup)
      BY <2>2, <2>8 DEF Setup
    <3>2. CASE task = "updates"
      <4>1. Len(saved) >= 4 BY <2>2, <2>8, <3>2 DEF Queues, Progress
      <4>2. Len(saved') >= 4 BY <4>1, <3>2, <1>0
      <4>. QED BY <1>1, <2>1, <2>2, <2>4, <2>6, <2>7, <2>8, <4>2 DEF Queues, Progress, PoolUnused
    <3>3. CASE task = "grdrInit" /\ AtSetup
      <4>1. Len(saved) = 3 BY <2>2, <2>8, <3>3 DEF Queues, Progress
      <4>2. stage["pool"] = "begin" BY <2>8, <3>3, <1>0 DEF Queues, Tasks, AtSetup
      <4>3. Len(saved') = 4 BY <1>3, <3>3, <4>1, <4>2
      <4>4. Len(saved') >= 4 BY <4>3
      <4>5. Progress' BY <1>1, <2>1, <2>2, <2>4, <2>6, <2>8, <4>4 DEF Progress, PoolUnused
      <4>. QED BY <2>7, <4>5 DEF Queues
    <3>. QED BY <3>1, <3>2, <3>3
  <2>9. CASE ~ doPA
    <3>1. task = "updates" \/ (task = "design" /\ AtSetup) BY <2>2, <2>9 DEF Setup
    <3>2. Len(saved) >= 1 /\ saved' = saved
      <4>1. CASE task = "updates" BY <2>2, <2>9, <4>1 DEF Queues, Progress
      <4>2. CASE task = "design" /\ AtSetup
        <5>1. stage["pool"] = "sent" /\ saved' = saved BY <1>3, <4>2
        <5>2. Len(saved) = 1 BY <2>2, <2>9, <4>2, <5>1 DEF Queues, Progress, SentBy
        <5>. QED BY <5>1, <5>2
      <4>. QED BY <3>1, <4>1, <4>2
    <3>. QED BY <1>1, <2>1, <2>2, <2>4, <2>7, <2>9, <3>2 DEF Queues, Progress
  <2>. QED BY <1>0, <2>8, <2>9
<1>4. CASE a = "pa"
  <2>1. /\ pc' = pc /\ pool' = pool /\ paThread' = Tail(paThread) /\ stage'["pa"] = "begin"
        /\ stage'["pool"] = stage["pool"] /\ AtSetup' = AtSetup
    BY <1>0, <1>1, <1>4 DEF Actor, AtSetup
  <2>2. /\ doPA /\ pc \in {"initDesign", "pa"}
        /\ task = "design" => paThread = <<"design", "initPA">>
        /\ task # "design" => task = "initPA" /\ paThread = <<"initPA">>
        /\ stage["pa"] # "begin" => task = "design"
    BY <1>0, <1>4, DoingTasks
  <2>3. CASE task = "design"
    <3>1. stage["pa"] = "sent" /\ saved' = saved BY <1>4, <2>3
    <3>2. Len(saved) = 1 BY <2>2, <2>3, <3>1 DEF Queues, Progress, SentBy
    <3>3. paThread' = <<"initPA">> BY <2>1, <2>2, <2>3
    <3>4. Tasks' BY <1>0, <1>1, <2>1, <2>2, <3>3 DEF Queues, Tasks, PoolUnused, Early
    <3>5. Progress' BY <1>1, <2>1, <2>2, <3>1, <3>2, <3>3 DEF Progress, PoolUnused
    <3>. QED BY <3>4, <3>5 DEF Queues
  <2>4. CASE task # "design"
    <3>1. task = "initPA" /\ stage["pa"] = "begin" /\ Len(saved') = Len(saved) + 1
      BY <1>4, <2>2, <2>4
    <3>2. Len(saved) = 1 BY <2>2, <2>4 DEF Queues, Progress
    <3>3. paThread' = <<>> BY <2>1, <2>2, <2>4
    <3>4. Tasks' BY <1>0, <1>1, <2>1, <2>2, <3>3 DEF Queues, Tasks, PoolUnused, Early
    <3>5. Progress' BY <1>1, <2>1, <2>2, <3>1, <3>2, <3>3 DEF Progress, PoolUnused
    <3>. QED BY <3>4, <3>5 DEF Queues
  <2>. QED BY <2>3, <2>4
<1>. QED BY <1>2, <1>3, <1>4 DEF Actor

-----------------------------------------------------------------------------
(* The steps of the specification, as long as no call of sendJob goes      *)
(* wrong.                                                                  *)

Smooth == faults = 0 /\ faults' = 0

\* sendJob then broadcasts once.
LEMMA SmoothSend ==
  ASSUME Smooth
  PROVE  ~ sendJobFails /\ \A m : sendJob(m) => Deliver(m, FALSE)
<1>1. faults' # faults + 1 BY DEF Smooth
<1>. QED BY <1>1, Zenon DEF sendJob, sendJobFails

\* Whoever is about to send has its turn.
LEMMA TurnOK ==
  ASSUME IInv, Queues, Alive, NEW a \in Actor, NEW task \in Task, Doing(a, task),
         task \in {"design", "updates"} => stage[a] = "written"
  PROVE  task \in KindsAt(Len(saved) + 1)
<1>. USE QueueFacts DEF PoolFacts, PaFacts
<1>0. /\ doPA \in BOOLEAN /\ Len(saved) \in Nat /\ pc # "failed"
  BY DEF IInv, Types, Alive
<1>1. CASE a = "main"
  <2>1. pc = "send" /\ task = "updates" /\ pool = <<>>
    BY <1>1 DEF Doing, IInv, Control
  <2>2. ~ AtSetup BY <2>1 DEF AtSetup
  <2>3. Len(saved) >= SetupLen BY <1>0, <2>1, <2>2 DEF Queues, Progress, PoolUnused, SetupLen
  <2>. QED BY <1>0, <2>1, <2>3 DEF KindsAt, SetupLen
<1>2. CASE a = "pool"
  <2>1. /\ pc # "start" /\ (doPA => pc \notin PoolUnused)
        /\ task \in {Setup, "updates"}
        /\ task = "updates" => ~ AtSetup
        /\ task # "updates" => AtSetup
    BY <1>2, DoingTasks
  <2>2. CASE task = "updates"
    <3>1. Len(saved) >= SetupLen BY <1>0, <2>1, <2>2 DEF Queues, Progress, SetupLen
    <3>. QED BY <1>0, <2>2, <3>1 DEF KindsAt, SetupLen
  <2>3. CASE task # "updates" /\ doPA
    <3>1. task = "grdrInit" /\ Len(saved) = 3 BY <2>1, <2>3 DEF Setup, Queues, Progress
    <3>. QED BY <2>3, <3>1 DEF KindsAt, SetupLen
  <2>4. CASE task # "updates" /\ ~ doPA
    <3>1. task = "design" BY <2>1, <2>4 DEF Setup
    <3>2. Len(saved) = 0 BY <1>2, <2>1, <2>4, <3>1 DEF Queues, Progress, SentBy
    <3>. QED BY <2>4, <3>1, <3>2 DEF KindsAt, SetupLen
  <2>. QED BY <1>0, <2>2, <2>3, <2>4
<1>3. CASE a = "pa"
  <2>1. /\ doPA
        /\ task = "design" => paThread = <<"design", "initPA">>
        /\ task # "design" => task = "initPA" /\ paThread = <<"initPA">>
    BY <1>3, DoingTasks
  <2>2. CASE task = "design"
    <3>1. Len(saved) = 0 BY <1>3, <2>1, <2>2 DEF Queues, Progress, SentBy
    <3>. QED BY <2>1, <2>2, <3>1 DEF KindsAt, SetupLen
  <2>3. CASE task # "design"
    <3>1. Len(saved) = 1 BY <2>1, <2>3 DEF Queues, Progress
    <3>. QED BY <2>1, <2>3, <3>1 DEF KindsAt, SetupLen
  <2>. QED BY <2>2, <2>3
<1>. QED BY <1>1, <1>2, <1>3 DEF Actor

\* sendDesignDist and sendDesignUpdates broadcast.
LEMMA BroadcastReady ==
  ASSUME IInv, WorkersReady, Queues, Smooth, NEW a \in Actor, NEW task \in {"design", "updates"},
         Broadcast(a, task)
  PROVE  WorkersReady' /\ Queues'
<1>. DEFINE m == MsgOf(a, task)
<1>1. /\ Alive /\ Doing(a, task) /\ stage[a] = "written" /\ Deliver(m, FALSE)
      /\ stage' = [stage EXCEPT ![a] = "sent"]
      /\ UNCHANGED <<mainVars, pool, designVars, fileVars, joinVars>>
  BY SmoothSend DEF Broadcast
<1>2. task \in Task /\ m \in Message /\ m.kind = task
  BY DEF MsgOf, Msg, Message, Kind, Task, IInv, Types, Paths
<1>3. task \in KindsAt(Len(saved) + 1) BY <1>1, <1>2, TurnOK
<1>4. UNCHANGED <<doPA, pc, paThread, pool, known, joiner>> BY <1>1 DEF mainVars, joinVars
<1>. HIDE DEF m
<1>5. WorkersReady' /\ Len(saved') = Len(saved) + 1
  BY <1>1, <1>2, <1>3, <1>4, DeliverReady DEF IInv
<1>6. Len(saved) \in Nat BY DEF IInv, Types
<1>7. Queues' BY <1>1, <1>2, <1>4, <1>5, <1>6, StageTasks
<1>. QED BY <1>5, <1>7

\* INIT_PA and kGrdrInit.
LEMMA BroadcastUncheckedReady ==
  ASSUME IInv, WorkersReady, Queues, Smooth, NEW a \in Actor, NEW kind \in {"initPA", "grdrInit"},
         BroadcastUnchecked(a, kind)
  PROVE  WorkersReady' /\ Queues'
<1>. DEFINE m == Msg(kind, None, FALSE)
<1>1. /\ Alive /\ Doing(a, kind) /\ Deliver(m, FALSE) /\ Finish(a)
      /\ UNCHANGED <<designVars, fileVars, joinVars>>
  BY SmoothSend DEF BroadcastUnchecked
<1>2. kind \in Task /\ m \in Message /\ m.kind = kind
  BY DEF Msg, Message, Kind, Task
<1>3. kind \in KindsAt(Len(saved) + 1) BY <1>1, <1>2, TurnOK
<1>4. UNCHANGED <<doPA, known, joiner>> BY <1>1 DEF Finish, joinVars
<1>. HIDE DEF m
<1>5. WorkersReady' /\ Len(saved') = Len(saved) + 1
  BY <1>1, <1>2, <1>3, <1>4, DeliverReady DEF IInv
<1>6. Queues' BY <1>1, <1>2, <1>5, FinishTasks
<1>. QED BY <1>5, <1>6

\* The results of pin access.
LEMMA PinAccessReady ==
  ASSUME IInv, WorkersReady, Queues, Smooth, PinAccess
  PROVE  WorkersReady' /\ Queues'
<1>. USE QueueFacts DEF PoolFacts, PaFacts
<1>. DEFINE m == Msg("updatePA", None, FALSE)
<1>1. /\ pc = "pa" /\ paThread = <<>> /\ Deliver(m, FALSE) /\ pool' = Append(pool, "grdrInit")
      /\ pc' = "ta" /\ UNCHANGED <<doPA, paThread, stage, known, joiner>>
  BY SmoothSend DEF PinAccess, post, joinVars
<1>2. doPA /\ pool = <<>> BY <1>1 DEF Queues, Tasks, PoolUnused, IInv, Types
<1>3. Len(saved) = 2 BY <1>1, <1>2 DEF Queues, Progress
<1>4. m \in Message /\ m.kind = "updatePA" BY DEF Msg, Message, Kind
<1>5. "updatePA" \in KindsAt(Len(saved) + 1) BY <1>2, <1>3 DEF KindsAt, SetupLen
<1>. HIDE DEF m
<1>6. WorkersReady' /\ Len(saved') = 3
  <2>1. WorkersReady' /\ Len(saved') = Len(saved) + 1
    BY <1>1, <1>4, <1>5, DeliverReady DEF IInv
  <2>. QED BY <1>3, <2>1
<1>7. Setup' = "grdrInit" /\ Setup = "grdrInit" BY <1>1, <1>2 DEF Setup
<1>8. pool' = <<Setup>> /\ AtSetup' BY <1>1, <1>2, <1>7 DEF AtSetup
<1>9. stage["pa"] = "begin" /\ stage["pool"] = "begin" BY <1>1, <1>2 DEF IInv, Control
<1>10. Tasks' BY <1>1, <1>2, <1>7, <1>8, <1>9 DEF Tasks, PoolUnused, Early
<1>11. Progress' BY <1>1, <1>2, <1>6, <1>8 DEF Progress, PoolUnused
<1>. QED BY <1>6, <1>10, <1>11 DEF Queues

\* Globals and via data of a round.
LEMMA SendGlobalsReady ==
  ASSUME IInv, WorkersReady, Queues, Smooth, SendGlobals
  PROVE  WorkersReady' /\ Queues'
<1>. USE QueueFacts DEF PoolFacts, PaFacts
<1>. DEFINE m == Msg("globals", path, TRUE)
<1>1. /\ pc = "batch" /\ pool = <<>> /\ Deliver(m, FALSE) /\ pc' = "jobs"
      /\ UNCHANGED <<doPA, paThread, pool, stage, known, joiner>>
  BY SmoothSend DEF SendGlobals, joinPool, joinVars
<1>2. /\ doPA \in BOOLEAN /\ Len(saved) \in Nat /\ ~ AtSetup /\ ~ AtSetup' /\ paThread = <<>>
  BY <1>1 DEF AtSetup, IInv, Types, Control, Routing
<1>3. Len(saved) >= SetupLen BY <1>1, <1>2 DEF Queues, Progress, PoolUnused, SetupLen
<1>4. m \in Message /\ m.kind = "globals"
  BY DEF Msg, Message, Kind, IInv, Types, Paths
<1>5. "globals" \in KindsAt(Len(saved) + 1) BY <1>2, <1>3 DEF KindsAt, SetupLen
<1>. HIDE DEF m
<1>6. WorkersReady' /\ Len(saved') = Len(saved) + 1
  BY <1>1, <1>4, <1>5, DeliverReady DEF IInv
<1>7. Setup' = Setup /\ Len(saved') >= SetupLen BY <1>1, <1>2, <1>3, <1>6 DEF Setup, SetupLen
<1>8. Tasks' BY <1>1, <1>2, <1>7 DEF Queues, Tasks, PoolUnused, Early
<1>9. Progress' BY <1>1, <1>2, <1>7 DEF Progress, PoolUnused, SetupLen
<1>. QED BY <1>6, <1>8, <1>9 DEF Queues

\* The steps that send nothing.
LEMMA QuietReady ==
  ASSUME IInv, WorkersReady, Queues, NEW a \in Actor,
         \/ StartMain \/ InitDesign \/ NoRoutableNets \/ AssignTrack \/ EndTA \/ SearchRepair
         \/ SendUpdates \/ EndWorkersBatch \/ CheckConnectivity
         \/ WriteDesign(a) \/ WriteUpdates(a) \/ ClearUpdates(a)
  PROVE  WorkersReady' /\ Queues'
<1>1. UNCHANGED <<doPA, saved, worker, members, known, joiner>>
  <2>1. CASE StartMain \/ InitDesign \/ NoRoutableNets \/ AssignTrack \/ EndTA \/ SearchRepair
    BY <2>1 DEF StartMain, InitDesign, NoRoutableNets, AssignTrack, EndTA, SearchRepair,
         mainVars, cloudVars, joinVars
  <2>2. CASE SendUpdates \/ EndWorkersBatch \/ CheckConnectivity
    BY <2>2 DEF SendUpdates, EndWorkersBatch, CheckConnectivity, cloudVars, joinVars
  <2>3. CASE WriteDesign(a) \/ WriteUpdates(a) \/ ClearUpdates(a)
    BY <2>3 DEF WriteDesign, WriteUpdates, ClearUpdates, Finish, mainVars, cloudVars, joinVars
  <2>. QED BY <2>1, <2>2, <2>3
<1>2. WorkersReady' BY <1>1, ReadyFrame
<1>3. Queues'
  <2>1. CASE StartMain BY <2>1, StartMainTasks
  <2>2. CASE EndTA BY <2>2, EndTATasks
  <2>3. CASE InitDesign BY <1>1, <2>3, MainTasks DEF InitDesign
  <2>4. CASE NoRoutableNets BY <1>1, <2>4, MainTasks DEF NoRoutableNets
  <2>5. CASE AssignTrack BY <1>1, <2>5, MainTasks DEF AssignTrack, mainVars
  <2>6. CASE SearchRepair BY <1>1, <2>6, MainTasks DEF SearchRepair
  <2>7. CASE SendUpdates BY <1>1, <2>7, MainTasks DEF SendUpdates
  <2>8. CASE EndWorkersBatch BY <1>1, <2>8, MainTasks DEF EndWorkersBatch
  <2>9. CASE CheckConnectivity BY <1>1, <2>9, MainTasks DEF CheckConnectivity
  <2>10. CASE WriteDesign(a)
    <3>1. /\ Doing(a, "design") /\ stage[a] # "sent" /\ stage' = [stage EXCEPT ![a] = "written"]
          /\ UNCHANGED <<pc, paThread, pool>>
      BY <2>10 DEF WriteDesign, mainVars
    <3>2. "design" \in Task BY DEF Task
    <3>. QED BY <1>1, <3>1, <3>2, StageTasks
  <2>11. CASE WriteUpdates(a)
    <3>1. /\ Alive /\ Doing(a, "updates") /\ stage[a] # "sent"
          /\ \/ stage' = [stage EXCEPT ![a] = "written"] /\ UNCHANGED <<pc, paThread, pool>>
             \/ Finish(a)
      BY <2>11 DEF WriteUpdates, mainVars
    <3>2. "updates" \in Task BY DEF Task
    <3>3. CASE Finish(a) BY <1>1, <3>1, <3>2, <3>3, FinishTasks
    <3>4. CASE stage' = [stage EXCEPT ![a] = "written"] /\ UNCHANGED <<pc, paThread, pool>>
      BY <1>1, <3>1, <3>2, <3>4, StageTasks
    <3>. QED BY <3>1, <3>3, <3>4
  <2>12. CASE ClearUpdates(a)
    <3>1. Alive /\ stage[a] = "sent" /\ Finish(a) BY <2>12 DEF ClearUpdates
    <3>2. \E task \in Task : Doing(a, task)
      <4>1. CASE a = "main"
        <5>1. pc = "send" BY <3>1, <4>1 DEF IInv, Control, Alive
        <5>2. Doing(a, "updates") BY <4>1, <5>1 DEF Doing
        <5>. QED BY <5>2 DEF Task
      <4>2. CASE a = "pool"
        <5>1. pool # <<>> /\ pool \in Seq(Task) BY <3>1, <4>2 DEF IInv, Control, Types
        <5>2. Head(pool) \in Task BY <5>1
        <5>. QED BY <4>2, <5>1, <5>2 DEF Doing
      <4>3. CASE a = "pa"
        <5>1. paThread # <<>> /\ paThread \in Seq(Task) BY <3>1, <4>3 DEF IInv, Control, Types
        <5>2. Head(paThread) \in Task BY <5>1
        <5>. QED BY <4>3, <5>1, <5>2 DEF Doing
      <4>. QED BY <4>1, <4>2, <4>3 DEF Actor
    <3>. QED BY <1>1, <3>1, <3>2, FinishTasks
  <2>. QED BY <2>1, <2>2, <2>3, <2>4, <2>5, <2>6, <2>7, <2>8, <2>9, <2>10, <2>11, <2>12
<1>. QED BY <1>2, <1>3

\* A worker joins.
LEMMA JoinStepReady ==
  ASSUME IInv, WorkersReady, Queues, JoinStep
  PROVE  WorkersReady' /\ Queues'
<1>1. WorkersReady' BY ReplayReady, JoinReady DEF JoinStep
<1>2. UNCHANGED <<doPA, pc, paThread, pool, stage, saved>>
  BY DEF JoinStep, StartJoin, ReplayBroadcast, ReplayFails, EndJoin, mainVars, cloudVars
<1>3. Queues' BY <1>2, MainTasks
<1>. QED BY <1>1, <1>3

\* A fault is never forgotten.
LEMMA FaultsCount == ASSUME [Next]_vars PROVE faults' = faults \/ faults' = faults + 1
<1>1. CASE LeaderStep
  <2>1. CASE SendUpdatesStep
    BY <2>1, Zenon DEF SendUpdatesStep, WriteUpdates, Broadcast, ClearUpdates, sendJob, sendJobFails, cloudVars
  <2>2. CASE StartMain \/ InitDesign \/ NoRoutableNets \/ PinAccess \/ AssignTrack \/ EndTA
    BY <2>2, Zenon DEF StartMain, InitDesign, NoRoutableNets, PinAccess, AssignTrack, EndTA,
         sendJob, sendJobFails, cloudVars
  <2>3. CASE SearchRepair \/ SendGlobals \/ SendUpdates \/ EndWorkersBatch \/ CheckConnectivity
    BY <2>3, Zenon DEF SearchRepair, SendGlobals, SendUpdates, EndWorkersBatch, CheckConnectivity,
         sendJob, sendJobFails, cloudVars
  <2>. QED BY <1>1, <2>1, <2>2, <2>3 DEF LeaderStep
<1>2. CASE BackgroundStep
  BY <1>2, Zenon DEF BackgroundStep, WriteDesign, WriteUpdates, ClearUpdates, Broadcast, BroadcastUnchecked,
       sendJob, sendJobFails, cloudVars
<1>3. CASE JoinStep
  BY <1>3 DEF JoinStep, StartJoin, ReplayBroadcast, ReplayFails, EndJoin, cloudVars
<1>4. CASE UNCHANGED vars BY <1>4 DEF vars, cloudVars
<1>. QED BY <1>1, <1>2, <1>3, <1>4 DEF Next

-----------------------------------------------------------------------------
\* Initially no worker has anything and main has not started.
LEMMA HandlersInit == Init => HandlersInv
<1>. SUFFICES ASSUME Init PROVE HandlersInv
  OBVIOUS
<1>1. WorkersReady
  <2>1. Len(saved) = 0 /\ Len(saved) \in Nat BY DEF Init
  <2>2. \A w \in Worker : worker[w] = EmptyWorker BY DEF Init
  <2>3. doPA \in BOOLEAN /\ Ready(EmptyWorker, 0) BY DEF Init, Ready, EmptyWorker, SetupLen
  <2>4. EmptyWorker.broken = FALSE BY DEF EmptyWorker
  <2>5. members \subseteq Worker BY SizesAssumption DEF Init
  <2>6. joiner.worker = NoWorker BY DEF Init
  <2>7. Ordered(saved) BY <2>1 DEF Ordered
  <2>. QED BY <2>1, <2>2, <2>3, <2>4, <2>5, <2>6, <2>7 DEF WorkersReady
<1>2. Tasks BY DEF Init, Tasks, Actor, Early
<1>3. Progress BY DEF Init, Progress, PoolUnused
<1>. QED BY <1>1, <1>2, <1>3 DEF Init, HandlersInv

\* The invariant is inductive.
LEMMA HandlersNext == IInv /\ HandlersInv /\ [Next]_vars => HandlersInv'
<1>. SUFFICES ASSUME IInv, HandlersInv, [Next]_vars PROVE HandlersInv'
  OBVIOUS
<1>1. faults \in Nat /\ (faults' = faults \/ faults' = faults + 1)
  BY FaultsCount DEF HandlersInv
<1>2. faults' \in Nat /\ (faults' = 0 => faults = 0) BY <1>1
<1>. SUFFICES ASSUME faults' = 0 PROVE WorkersReady' /\ Queues'
  BY <1>2 DEF HandlersInv, Queues
<1>3. Smooth /\ WorkersReady /\ Queues BY <1>2 DEF Smooth, HandlersInv, Queues
<1>4. CASE LeaderStep
  <2>1. CASE SendUpdatesStep
    BY <1>3, <2>1, QuietReady, BroadcastReady DEF SendUpdatesStep, Actor
  <2>2. CASE PinAccess BY <1>3, <2>2, PinAccessReady
  <2>3. CASE SendGlobals BY <1>3, <2>3, SendGlobalsReady
  <2>4. CASE StartMain \/ InitDesign \/ NoRoutableNets \/ AssignTrack \/ EndTA \/ SearchRepair
             \/ SendUpdates \/ EndWorkersBatch \/ CheckConnectivity
    <3>1. "main" \in Actor BY DEF Actor
    <3>. QED BY <1>3, <2>4, <3>1, QuietReady
  <2>. QED BY <1>4, <2>1, <2>2, <2>3, <2>4 DEF LeaderStep
<1>5. CASE BackgroundStep
  BY <1>3, <1>5, QuietReady, BroadcastReady, BroadcastUncheckedReady DEF BackgroundStep, Actor
<1>6. CASE JoinStep BY <1>3, <1>6, JoinStepReady
<1>7. CASE UNCHANGED vars
  <2>1. UNCHANGED <<doPA, pc, paThread, pool, stage, saved, worker, members, known, joiner>>
    BY <1>7 DEF vars, mainVars, cloudVars, joinVars
  <2>. QED BY <1>3, <2>1, ReadyFrame, MainTasks
<1>. QED BY <1>4, <1>5, <1>6, <1>7 DEF Next

\* As long as no call of sendJob goes wrong, no worker gets a design when it has
\* one, or updates, pin access results or kGrdrInit before what they need,
\* although main, pa_thread and the pool of the leader send side by side; for
\* any number of workers and rounds, and whenever workers fail or join.
THEOREM HandlersAlwaysReady == Spec => []HandlersReady
<1>1. IInv /\ HandlersInv => HandlersReady
  <2>. SUFFICES ASSUME HandlersInv, faults = 0, NEW w \in Worker PROVE ~ worker[w].broken
    BY DEF HandlersReady
  <2>1. worker[w].broken = FALSE BY DEF HandlersInv, WorkersReady
  <2>. QED BY <2>1
<1>2. Init => IInv /\ HandlersInv BY InitOK, HandlersInit
<1>3. IInv /\ HandlersInv /\ [Next]_vars => (IInv /\ HandlersInv)' BY StepOK, HandlersNext
<1>. QED BY <1>1, <1>2, <1>3, PTL DEF Spec
=============================================================================
