---------------------------- MODULE SceneProofs ----------------------------
(***************************************************************************)
(* Facts about the operators of OsgScene and OsgBackend, for any number of *)
(* objects, layers and records.  The first part says what the loops of the *)
(* code do and which fields an operation leaves alone.  The second part is *)
(* about SceneInv, the invariant of a scene between two reloads: every     *)
(* operation keeps it, and what else the operation does to the objects.    *)
(***************************************************************************)
EXTENDS OpenRoad3DWindow, SequenceTheorems, FiniteSetTheorems, TLAPS

-----------------------------------------------------------------------------
(* Sequences.                                                              *)

\* q has x at most once.
Once(q, x) == \A i, j \in 1 .. Len(q) : q[i] = x /\ q[j] = x => i = j

\* The loop of Keep over the sequence c[1], with the set c[2].
KeepStep(c, kept, x) == IF x \in c[2] THEN Append(kept, x) ELSE kept

KeepHolds(c, i, kept) ==
  /\ kept \in Seq(Range(c[1]) \cap c[2])
  /\ \A j \in 1 .. i : c[1][j] \in c[2] => \E a \in 1 .. Len(kept) : kept[a] = c[1][j]
  /\ \A a \in 1 .. Len(kept) : \E j \in 1 .. i : kept[a] = c[1][j]
  /\ \A x : Once(c[1], x) => Once(kept, x)

KeepLoop == INSTANCE Loops WITH Step <- KeepStep, Holds <- KeepHolds

\* Keep gives those elements of q that are in S, and none more often than q.
LEMMA KeepIs ==
  ASSUME NEW D, NEW q \in Seq(D), NEW S
  PROVE  /\ Keep(q, S) \in Seq(D) /\ Keep(q, S) \in Seq(S)
         /\ Range(Keep(q, S)) = Range(q) \cap S
         /\ \A x : Once(q, x) => Once(Keep(q, S), x)
<1>. DEFINE c == <<q, S>>
            k == Keep(q, S)
<1>1. KeepHolds(c, 0, <<>>)
  BY DEF KeepHolds, Once
<1>2. ASSUME NEW b, NEW i \in 1 .. Len(q), KeepHolds(c, i - 1, b)
      PROVE  KeepHolds(c, i, KeepStep(c, b, q[i]))
  <2>1. q[i] \in Range(q) /\ DOMAIN q = 1 .. Len(q)
    BY DEF Range
  <2>2. CASE q[i] \in S
    <3>. DEFINE e == Append(b, q[i])
    <3>0. b \in Seq(Range(q) \cap S)
      BY <1>2 DEF KeepHolds
    <3>1. /\ e \in Seq(Range(q) \cap S) /\ Len(e) = Len(b) + 1 /\ e[Len(b) + 1] = q[i]
          /\ \A a \in 1 .. Len(b) : e[a] = b[a]
      BY <3>0, <2>1, <2>2
    <3>2. ASSUME NEW j \in 1 .. i, q[j] \in S PROVE \E a \in 1 .. Len(e) : e[a] = q[j]
      <4>1. CASE j = i BY <4>1, <3>0, <3>1
      <4>2. CASE j # i
        <5>1. PICK a \in 1 .. Len(b) : b[a] = q[j]
          BY <1>2, <3>2, <4>2 DEF KeepHolds
        <5>. QED BY <5>1, <3>0, <3>1
      <4>. QED BY <4>1, <4>2
    <3>3. ASSUME NEW a \in 1 .. Len(e) PROVE \E j \in 1 .. i : e[a] = q[j]
      <4>1. CASE a = Len(b) + 1 BY <4>1, <3>1
      <4>2. CASE a \in 1 .. Len(b)
        <5>1. PICK j \in 1 .. i - 1 : b[a] = q[j]
          BY <1>2, <4>2 DEF KeepHolds
        <5>. QED BY <5>1, <3>1, <4>2
      <4>. QED BY <4>1, <4>2, <3>0, <3>1
    <3>4. ASSUME NEW x, Once(q, x) PROVE Once(e, x)
      <4>1. Once(b, x) /\ Len(b) \in Nat
        BY <1>2, <3>4, <3>0 DEF KeepHolds
      <4>2. x = q[i] => \A a \in 1 .. Len(b) : e[a] # x
        <5>. SUFFICES ASSUME x = q[i], NEW a \in 1 .. Len(b), b[a] = x PROVE FALSE
          BY <3>1
        <5>1. PICK j \in 1 .. i - 1 : b[a] = q[j]
          BY <1>2 DEF KeepHolds
        <5>2. j \in 1 .. Len(q) /\ j # i /\ q[j] = x
          BY <5>1
        <5>. QED BY <3>4, <5>2 DEF Once
      <4>. HIDE DEF e
      <4>. QED BY <4>1, <4>2, <3>1 DEF Once
    <3>5. KeepStep(c, b, q[i]) = e
      BY <2>2 DEF KeepStep
    <3>. HIDE DEF e
    <3>. QED BY <3>1, <3>2, <3>3, <3>4, <3>5 DEF KeepHolds
  <2>3. CASE q[i] \notin S
    <3>1. KeepStep(c, b, q[i]) = b
      BY <2>3 DEF KeepStep
    <3>2. ASSUME NEW a \in 1 .. Len(b) PROVE \E j \in 1 .. i : b[a] = q[j]
      <4>1. PICK j \in 1 .. i - 1 : b[a] = q[j]
        BY <1>2 DEF KeepHolds
      <4>. QED BY <4>1
    <3>3. ASSUME NEW j \in 1 .. i, q[j] \in S PROVE \E a \in 1 .. Len(b) : b[a] = q[j]
      BY <1>2, <2>3, <3>3 DEF KeepHolds
    <3>4. b \in Seq(Range(q) \cap S) /\ \A x : Once(q, x) => Once(b, x)
      BY <1>2 DEF KeepHolds
    <3>. QED BY <3>1, <3>2, <3>3, <3>4 DEF KeepHolds
  <2>. QED BY <2>2, <2>3
<1>3. KeepHolds(c, Len(q), KeepLoop!Loop(c, <<>>, q))
  <2>. HIDE DEF c
  <2>1. \A b : \A i \in 1 .. Len(q) : KeepHolds(c, i - 1, b) => KeepHolds(c, i, KeepStep(c, b, q[i]))
    BY <1>2
  <2>. QED BY <1>1, <2>1, KeepLoop!LoopKeeps
<1>4. k = KeepLoop!Loop(c, <<>>, q)
  BY DEF Keep, KeepStep, KeepLoop!Loop, FoldLeft, KeepLoop!FoldLeft, MapThenFoldSet,
         KeepLoop!MapThenFoldSet, Max, KeepLoop!Max
<1>. HIDE DEF k
<1>5. /\ k \in Seq(Range(q) \cap S)
      /\ \A j \in 1 .. Len(q) : q[j] \in S => \E a \in 1 .. Len(k) : k[a] = q[j]
      /\ \A a \in 1 .. Len(k) : \E j \in 1 .. Len(q) : k[a] = q[j]
      /\ \A x : Once(q, x) => Once(k, x)
  BY <1>3, <1>4 DEF KeepHolds
<1>6. Range(q) \subseteq D
  BY DEF Range
<1>7. Range(k) = Range(q) \cap S
  <2>1. DOMAIN k = 1 .. Len(k) /\ DOMAIN q = 1 .. Len(q) /\ \A a \in 1 .. Len(k) : k[a] \in S
    BY <1>5
  <2>2. ASSUME NEW a \in 1 .. Len(k) PROVE k[a] \in Range(q) \cap S
    BY <1>5, <2>1 DEF Range
  <2>3. ASSUME NEW j \in 1 .. Len(q), q[j] \in S PROVE q[j] \in Range(k)
    BY <1>5, <2>1, <2>3 DEF Range
  <2>4. Range(k) \subseteq Range(q) \cap S
    BY <2>1, <2>2 DEF Range
  <2>5. Range(q) \cap S \subseteq Range(k)
    BY <2>1, <2>3 DEF Range
  <2>. QED BY <2>4, <2>5
<1>8. k \in Seq(D) /\ k \in Seq(S)
  BY <1>5, <1>6
<1>. QED BY <1>5, <1>7, <1>8 DEF k

\* SetToSeq lists a finite set.
LEMMA SetToSeqIs ==
  ASSUME NEW S, IsFiniteSet(S)
  PROVE  /\ SetToSeq(S) \in Seq(S)
         /\ Range(SetToSeq(S)) = S
<1>. DEFINE n == Cardinality(S)
            f == SetToSeq(S)
<1>1. n \in Nat /\ ExistsBijection(1 .. n, S)
  BY FS_CardinalityType
<1>2. \E g \in [1 .. n -> S] : IsInjective(g)
  BY <1>1 DEF ExistsBijection, Bijection, Injection
<1>3. f \in [1 .. n -> S] /\ IsInjective(f)
  BY <1>2 DEF SetToSeq
<1>. HIDE DEF f
<1>4. Range(f) \in SUBSET S
  BY <1>3 DEF Range
<1>5. f \in Bijection(1 .. n, Range(f))
  BY <1>3 DEF Bijection, Injection, Surjection, Range
<1>6. Cardinality(Range(f)) = n
  <2>1. ExistsBijection(1 .. n, Range(f))
    BY <1>5 DEF ExistsBijection
  <2>. HIDE DEF n
  <2>. QED BY <1>1, <2>1, FS_CountingElements
<1>7. Range(f) = S
  BY <1>4, <1>6, FS_Subset
<1>8. f \in Seq(S)
  BY <1>1, <1>3
<1>. QED BY <1>7, <1>8 DEF f

-----------------------------------------------------------------------------
(* What an operation leaves alone.                                         *)

SceneFields == {"layers", "objs", "ghosts", "batches", "batchOf", "index", "spatial", "hidden",
                "loaded", "glowing", "previous", "selected"}

IsScene(s) == DOMAIN s = SceneFields

\* t is a scene with the highlight and the spatial index of s.
SameGlow(s, t) == /\ IsScene(t) /\ t.glowing = s.glowing /\ t.previous = s.previous
                  /\ t.spatial = s.spatial

\* The batches are rebuilt and nothing else changes.
LEMMA RebuildFrame ==
  ASSUME NEW s, IsScene(s), NEW K, NEW mem
  PROVE  SameGlow(s, rebuildBatches(s, K, mem))
BY DEF rebuildBatches, IsScene, SceneFields, SameGlow

LEMMA AddNodeFrame ==
  ASSUME NEW s, IsScene(s), NEW rec
  PROVE  SameGlow(s, AddNode(s, rec))
BY DEF AddNode, IsScene, SceneFields, SameGlow

LEMMA SetObjectFrame ==
  ASSUME NEW s, IsScene(s), NEW o, NEW visible, NEW mem
  PROVE  SameGlow(s, setObjectVisible(s, o, visible, mem))
<1>1. CASE o \in DOMAIN s.batchOf
  <2>. DEFINE t == [s EXCEPT !.hidden = IF visible THEN @ \ {o} ELSE @ \cup {o},
                             !.objs = Without(@, {o}),
                             !.loaded = IF o \in DOMAIN s.objs THEN @ \ {o} ELSE @]
  <2>1. IsScene(t) /\ SameGlow(s, t)
    BY DEF IsScene, SceneFields, SameGlow
  <2>2. setObjectVisible(s, o, visible, mem) = rebuildBatches(t, {s.batchOf[o]}, mem)
    BY <1>1 DEF setObjectVisible, rebuildBatch
  <2>. HIDE DEF t
  <2>. QED BY <2>1, <2>2, RebuildFrame DEF SameGlow
<1>2. CASE o \notin DOMAIN s.batchOf
  BY <1>2 DEF setObjectVisible, IsScene, SceneFields, SameGlow
<1>. QED BY <1>1, <1>2

LEMMA SetLayerFrame ==
  ASSUME NEW s, IsScene(s), NEW l, NEW visible, NEW mem
  PROVE  SameGlow(s, setLayerVisible(s, l, visible, mem))
<1>1. CASE l \notin DOMAIN s.layers
  BY <1>1 DEF setLayerVisible, SameGlow
<1>2. CASE l \in DOMAIN s.layers
  <2>. DEFINE own == {o \in DOMAIN s.objs \ DOMAIN s.batchOf : s.objs[o].layer = l}
              t == [s EXCEPT !.layers[l] = visible,
                             !.hidden = IF visible THEN @ \ own ELSE @ \cup own,
                             !.objs = [o \in DOMAIN @ |->
                                         IF o \in own THEN [@[o] EXCEPT !.shown = visible]
                                         ELSE @[o]]]
              u == [t EXCEPT !.batches = [k \in DOMAIN @ |->
                                            IF k \in Prefixed[l] THEN [@[k] EXCEPT !.mask = visible]
                                            ELSE @[k]]]
  <2>1. SameGlow(s, t)
    BY DEF IsScene, SceneFields, SameGlow
  <2>2. setLayerVisible(s, l, visible, mem) =
          IF visible THEN rebuildBatches(u, Prefixed[l], mem) ELSE u
    BY <1>2 DEF setLayerVisible
  <2>3. SameGlow(t, u)
    <3>. HIDE DEF t
    <3>. QED BY <2>1 DEF IsScene, SceneFields, SameGlow
  <2>. HIDE DEF t, u
  <2>4. SameGlow(u, rebuildBatches(u, Prefixed[l], mem))
    BY <2>3, RebuildFrame DEF SameGlow
  <2>. QED BY <2>1, <2>2, <2>3, <2>4 DEF SameGlow
<1>. QED BY <1>1, <1>2

LEMMA UpdateLayerFrame ==
  ASSUME NEW s, IsScene(s), NEW l, NEW visible, NEW mem
  PROVE  SameGlow(s, updateLayer(s, l, visible, mem))
<1>. DEFINE t == [s EXCEPT !.layers = With(@, l, visible)]
<1>1. SameGlow(s, t)
  BY DEF IsScene, SceneFields, SameGlow
<1>2. updateLayer(s, l, visible, mem) = setLayerVisible(t, l, visible, mem)
  BY DEF updateLayer
<1>. HIDE DEF t
<1>. QED BY <1>1, <1>2, SetLayerFrame DEF SameGlow

LEMMA BuildFrame ==
  ASSUME NEW s, IsScene(s), NEW recs
  PROVE  SameGlow(s, buildBatches(s, recs))
BY DEF buildBatches, IsScene, SceneFields, SameGlow

LEMMA LoadFrame ==
  ASSUME NEW s, IsScene(s), NEW o, NEW mem, NEW all
  PROVE  SameGlow(s, LoadObject(s, o, mem, all))
<1>. DEFINE a == AddNode(s, mem[s.index[o]])
<1>1. SameGlow(s, a)
  BY AddNodeFrame
<1>2. \A t, v : SameGlow(s, t) => SameGlow(s, [t EXCEPT !.loaded = v])
  BY DEF IsScene, SceneFields, SameGlow
<1>3. SameGlow(s, s)
  BY DEF SameGlow
<1>4. \/ LoadObject(s, o, mem, all) = s
      \/ \E v : LoadObject(s, o, mem, all) = [s EXCEPT !.loaded = v]
      \/ \E v : LoadObject(s, o, mem, all) = [a EXCEPT !.loaded = v]
  BY DEF LoadObject
<1>. HIDE DEF a
<1>. QED BY <1>1, <1>2, <1>3, <1>4

\* The loop of LoadObjects from the scene c[1], over the objects of c[2].
LoadStep(c, t, o) == IF o \in c[2] THEN LoadObject(t, o, c[3], c[4]) ELSE t

LoadQuiet(c, i, t) == SameGlow(c[1], t)

LoadLoop == INSTANCE Loops WITH Step <- LoadStep, Holds <- LoadQuiet

LEMMA LoadAllFrame ==
  ASSUME NEW s, IsScene(s), NEW S, NEW mem, NEW all
  PROVE  SameGlow(s, LoadObjects(s, S, mem, all))
<1>. DEFINE c == <<s, S, mem, all>>
<1>1. LoadQuiet(c, 0, s)
  BY DEF LoadQuiet, SameGlow
<1>2. ASSUME NEW b, NEW i, NEW o, LoadQuiet(c, i - 1, b) PROVE LoadQuiet(c, i, LoadStep(c, b, o))
  <2>1. SameGlow(s, b) /\ SameGlow(b, LoadObject(b, o, mem, all))
    BY <1>2, LoadFrame DEF LoadQuiet, SameGlow
  <2>. QED BY <2>1 DEF LoadQuiet, LoadStep, SameGlow
<1>3. LoadObjects(s, S, mem, all) = LoadLoop!Loop(c, s, Nearest)
  BY DEF LoadObjects, LoadStep, LoadLoop!Loop, FoldLeft, LoadLoop!FoldLeft, MapThenFoldSet,
         LoadLoop!MapThenFoldSet, Max, LoadLoop!Max
<1>4. Nearest \in Seq(Objects)
  BY SceneAssumption
<1>5. LoadQuiet(c, Len(Nearest), LoadLoop!Loop(c, s, Nearest))
  <2>. HIDE DEF c
  <2>. QED BY <1>1, <1>2, <1>4, LoadLoop!LoopKeeps
<1>. QED BY <1>3, <1>5 DEF LoadQuiet

LEMMA EnsureFrame ==
  ASSUME NEW s, IsScene(s), NEW total, NEW view, NEW mem
  PROVE  SameGlow(s, ensureObjectsInFrustum(s, total, view, mem))
<1>1. \A keep : SameGlow(s, Unload(s, keep))
  BY DEF Unload, IsScene, SceneFields, SameGlow
<1>2. ASSUME NEW keep, NEW S PROVE SameGlow(s, LoadObjects(Unload(s, keep), S, mem, FALSE))
  <2>1. PICK t : t = Unload(s, keep) /\ SameGlow(s, t)
    BY <1>1
  <2>2. IsScene(t)
    BY <2>1 DEF SameGlow
  <2>3. SameGlow(t, LoadObjects(t, S, mem, FALSE))
    BY <2>2, LoadAllFrame
  <2>. QED BY <2>1, <2>3 DEF SameGlow
<1>3. \A S : SameGlow(s, LoadObjects(s, S, mem, TRUE))
  BY LoadAllFrame
<1>4. SameGlow(s, s)
  BY DEF SameGlow
<1>. QED BY <1>2, <1>3, <1>4 DEF ensureObjectsInFrustum

LEMMA LoadSnapshotFrame ==
  ASSUME NEW s, NEW recs, NEW layers, NEW view, NEW mem
  PROVE  LET t == loadSnapshot(s, recs, layers, view, mem)
         IN  /\ IsScene(t) /\ t.glowing = {} /\ t.previous = None
             /\ t.spatial = IF recs = <<>> THEN s.spatial ELSE [i \in 1 .. Len(recs) |-> recs[i].id]
<1>. DEFINE fresh == [clear(s) EXCEPT
                        !.layers = layers,
                        !.loaded = {},
                        !.index = [o \in Ids(recs) |-> Slot(recs, o)],
                        !.spatial = IF recs = <<>> THEN @ ELSE [i \in 1 .. Len(recs) |-> recs[i].id]]
            full == ensureObjectsInFrustum(fresh, Len(recs), view, mem)
<1>1. /\ IsScene(fresh) /\ fresh.glowing = {} /\ fresh.previous = None
      /\ fresh.spatial = IF recs = <<>> THEN s.spatial ELSE [i \in 1 .. Len(recs) |-> recs[i].id]
  BY DEF clear, EmptyScene, IsScene, SceneFields
<1>2. loadSnapshot(s, recs, layers, view, mem) = buildBatches(full, recs)
  BY DEF loadSnapshot
<1>. HIDE DEF fresh
<1>3. SameGlow(fresh, full)
  BY <1>1, EnsureFrame
<1>. HIDE DEF full
<1>4. SameGlow(full, buildBatches(full, recs))
  BY <1>3, BuildFrame DEF SameGlow
<1>. QED BY <1>1, <1>2, <1>3, <1>4 DEF SameGlow

LEMMA UpsertFrame ==
  ASSUME NEW s, IsScene(s), NEW rec, NEW p, NEW mem
  PROVE  SameGlow(s, upsertObject(s, rec, p, mem))
<1>. DEFINE t == [s EXCEPT !.objs = Without(@, {rec.id})]
            k == s.batchOf[rec.id]
            places == {i \in DOMAIN s.batches[k].records : mem[s.batches[k].records[i]].id = rec.id}
            first == CHOOSE i \in places : \A j \in places : i <= j
            moved == IF rec.id \in DOMAIN s.batchOf /\ k \in DOMAIN s.batches /\ places /= {}
                     THEN [t EXCEPT !.batches[k].records[first] = p]
                     ELSE t
<1>1. SameGlow(s, t)
  BY DEF IsScene, SceneFields, SameGlow
<1>2. upsertObject(s, rec, p, mem) = IF rec.id \notin Batched THEN AddNode(t, rec)
                                     ELSE IF rec.id \in DOMAIN s.index
                                     THEN [moved EXCEPT !.index[rec.id] = p]
                                     ELSE moved
  BY DEF upsertObject
<1>. HIDE DEF t, k, first, places
<1>3. SameGlow(t, moved)
  BY <1>1 DEF IsScene, SceneFields, SameGlow
<1>. HIDE DEF moved
<1>4. SameGlow(moved, [moved EXCEPT !.index[rec.id] = p])
  BY <1>3 DEF IsScene, SceneFields, SameGlow
<1>5. SameGlow(t, AddNode(t, rec))
  BY <1>1, AddNodeFrame DEF SameGlow
<1>. QED BY <1>1, <1>2, <1>3, <1>4, <1>5 DEF SameGlow

LEMMA FreedFrame ==
  ASSUME NEW s, IsScene(s), NEW P
  PROVE  SameGlow(s, Freed(s, P))
BY DEF Freed, IsScene, SceneFields, SameGlow

\* The loop of upsertObjects from the scene c[1], for the records c[2]; c[3]
\* is the memory.
UpsertStep(c, t, j) == upsertObject(t, c[2][j], -j, c[3])

UpsertQuiet(c, i, t) == SameGlow(c[1], t)

UpsertLoop == INSTANCE Loops WITH Step <- UpsertStep, Holds <- UpsertQuiet

LEMMA UpsertAllFrame ==
  ASSUME NEW s, IsScene(s), NEW D, NEW updates \in Seq(D), NEW mem
  PROVE  SameGlow(s, upsertObjects(s, updates, mem))
<1>. DEFINE live == [p \in Int |-> IF -p \in DOMAIN updates THEN updates[-p] ELSE mem[p]]
            places == [j \in 1 .. Len(updates) |-> j]
            affected == {s.batchOf[o] : o \in Ids(updates) \cap DOMAIN s.batchOf}
            done == FoldLeft(LAMBDA t, j : upsertObject(t, updates[j], -j, live), s, places)
<1>1. upsertObjects(s, updates, mem) = Freed(rebuildBatches(done, affected, live), Int \ Nat)
  BY DEF upsertObjects
<1>. HIDE DEF live, affected
<1>. DEFINE c == <<s, updates, live>>
<1>2. done = UpsertLoop!Loop(c, s, places)
  BY DEF UpsertStep, UpsertLoop!Loop, FoldLeft, UpsertLoop!FoldLeft, MapThenFoldSet,
         UpsertLoop!MapThenFoldSet, Max, UpsertLoop!Max
<1>3. UpsertQuiet(c, 0, s)
  BY DEF UpsertQuiet, SameGlow
<1>4. ASSUME NEW b, NEW i, NEW j, UpsertQuiet(c, i - 1, b) PROVE UpsertQuiet(c, i, UpsertStep(c, b, j))
  <2>1. SameGlow(s, b) /\ SameGlow(b, upsertObject(b, updates[j], -j, live))
    BY <1>4, UpsertFrame DEF UpsertQuiet, SameGlow
  <2>. QED BY <2>1 DEF UpsertQuiet, UpsertStep, SameGlow
<1>5. places \in Seq(Nat)
  OBVIOUS
<1>6. SameGlow(s, done)
  <2>1. UpsertQuiet(c, Len(places), UpsertLoop!Loop(c, s, places))
    <3>. HIDE DEF c, places
    <3>. QED BY <1>3, <1>4, <1>5, UpsertLoop!LoopKeeps
  <2>. QED BY <1>2, <2>1 DEF UpsertQuiet
<1>. HIDE DEF done
<1>7. SameGlow(done, rebuildBatches(done, affected, live))
  BY <1>6, RebuildFrame DEF SameGlow
<1>8. \A t : IsScene(t) => SameGlow(t, Freed(t, Int \ Nat))
  BY FreedFrame
<1>. QED BY <1>1, <1>6, <1>7, <1>8 DEF SameGlow

LEMMA RemoveFrame ==
  ASSUME NEW s, IsScene(s), NEW ids, NEW mem
  PROVE  LET t == removeObjectsById(s, ids, mem)
         IN  /\ IsScene(t)
             /\ t.glowing \subseteq s.glowing
             /\ t.previous \in {None, s.previous}
             /\ t.spatial = s.spatial
<1>. DEFINE out(k) == {i \in DOMAIN s.batches[k].records : mem[s.batches[k].records[i]].id \in ids}
            affected == {k \in DOMAIN s.batches : out(k) /= {}}
            t == [s EXCEPT !.batchOf = Without(@, ids),
                           !.batches = [k \in DOMAIN @ |->
                                          [@[k] EXCEPT !.records = Without(@, out(k))]]]
            u == rebuildBatches(t, affected, mem)
            known == ids \cap DOMAIN s.objs
<1>1. SameGlow(s, t)
  BY DEF IsScene, SceneFields, SameGlow
<1>2. removeObjectsById(s, ids, mem) =
        [u EXCEPT !.objs = Without(@, known), !.glowing = @ \ known,
                  !.previous = IF @ \in known THEN None ELSE @]
  BY DEF removeObjectsById
<1>. HIDE DEF t, affected, known
<1>3. SameGlow(s, u)
  BY <1>1, RebuildFrame DEF SameGlow
<1>. HIDE DEF u
<1>. QED BY <1>2, <1>3 DEF IsScene, SceneFields, SameGlow

LEMMA DeselectFrame ==
  ASSUME NEW s, IsScene(s), NEW mem
  PROVE  LET t == Deselected(s, mem)
         IN  IsScene(t) /\ t.glowing = {} /\ t.previous = None /\ t.spatial = s.spatial
<1>. DEFINE t == [s EXCEPT !.glowing = {}, !.previous = None]
            u == [t EXCEPT !.hidden = @ \ {s.previous}]
<1>1. /\ IsScene(t) /\ t.glowing = {} /\ t.previous = None /\ SameGlow(t, u)
      /\ t.spatial = s.spatial
  BY DEF IsScene, SceneFields, SameGlow
<1>2. Deselected(s, mem) = IF s.previous \in DOMAIN s.batchOf
                           THEN rebuildBatches(u, {s.batchOf[s.previous]}, mem) ELSE t
  BY DEF Deselected, rebuildBatch
<1>. HIDE DEF t, u
<1>3. \A k : SameGlow(u, rebuildBatches(u, {k}, mem))
  BY <1>1, RebuildFrame DEF SameGlow
<1>. QED BY <1>1, <1>2, <1>3 DEF SameGlow

LEMMA SelectFrame ==
  ASSUME NEW s, IsScene(s), NEW o, NEW mem
  PROVE  LET t == setSelectedObject(s, o, mem)
         IN  /\ IsScene(t) /\ t.glowing \subseteq {o} /\ t.previous \in {None, o}
             /\ t.spatial = s.spatial
<1>. DEFINE t == Deselected(s, mem)
            u == [t EXCEPT !.hidden = @ \cup {o}]
            v == rebuildBatches(u, {t.batchOf[o]}, mem)
            Glow(w) == [w EXCEPT !.previous = o, !.selected = o, !.glowing = {o}]
<1>1. IsScene(t) /\ t.glowing = {} /\ t.previous = None /\ t.spatial = s.spatial
  BY DeselectFrame
<1>2. setSelectedObject(s, o, mem) =
        IF o = None THEN [t EXCEPT !.selected = None]
        ELSE IF o \in DOMAIN t.batchOf THEN Glow(v)
        ELSE IF o \in DOMAIN t.objs /\ t.objs[o].node THEN Glow(t)
        ELSE t
  BY DEF setSelectedObject, rebuildBatch
<1>. HIDE DEF t
<1>3. IsScene(u) /\ u.spatial = s.spatial
  BY <1>1 DEF IsScene, SceneFields
<1>. HIDE DEF u
<1>4. IsScene(v) /\ v.spatial = s.spatial
  BY <1>3, RebuildFrame DEF SameGlow
<1>. HIDE DEF v
<1>5. \A w : IsScene(w) => /\ IsScene(Glow(w)) /\ Glow(w).glowing = {o} /\ Glow(w).previous = o
                           /\ Glow(w).spatial = w.spatial
  BY DEF IsScene, SceneFields
<1>6. LET w == [t EXCEPT !.selected = None]
      IN  IsScene(w) /\ w.glowing = {} /\ w.previous = None /\ w.spatial = s.spatial
  BY <1>1 DEF IsScene, SceneFields
<1>. HIDE DEF Glow
<1>. QED BY <1>1, <1>2, <1>4, <1>5, <1>6, ZenonT(30)

-----------------------------------------------------------------------------
(* The operations of the backend.                                          *)

BackendFields == {"recs", "capacity", "layers", "ptrs", "selected", "scene"}

IsBackend(b) == DOMAIN b = BackendFields /\ IsScene(b.scene)

\* Nothing but what is selected has a highlight.
Marked(b) == /\ IsBackend(b)
             /\ b.scene.glowing \subseteq {b.selected}
             /\ b.scene.previous \in {None, b.selected}

SameRecords(b, c) == c.recs = b.recs /\ c.ptrs = b.ptrs /\ c.capacity = b.capacity

\* From b to c only the scene changed, and not its highlight.
Redrawn(b, c) == /\ IsBackend(c) /\ SameGlow(b.scene, c.scene) /\ SameRecords(b, c)
                 /\ c.layers = b.layers /\ c.selected = b.selected

LEMMA RedrawnMarked ==
  ASSUME NEW b, NEW c, Marked(b), Redrawn(b, c)
  PROVE  Marked(c)
BY DEF Marked, Redrawn, SameGlow

LEMMA RedrawnTwice ==
  ASSUME NEW b, NEW c, NEW d, Redrawn(b, c), Redrawn(c, d)
  PROVE  Redrawn(b, d)
BY DEF Redrawn, SameGlow, SameRecords

LEMMA SetVisibleBackend ==
  ASSUME NEW b, IsBackend(b), NEW o, NEW visible, NEW g
  PROVE  Redrawn(b, setVisible(b, o, visible, g))
<1>. DEFINE t == setObjectVisible(b.scene, o, visible, Memory(b.recs, g))
<1>1. SameGlow(b.scene, t)
  BY SetObjectFrame DEF IsBackend
<1>2. setVisible(b, o, visible, g) = [b EXCEPT !.scene = t]
  BY DEF setVisible
<1>. HIDE DEF t
<1>. QED BY <1>1, <1>2 DEF Redrawn, IsBackend, BackendFields, SameGlow, SameRecords

LEMMA RenderBackend ==
  ASSUME NEW b, IsBackend(b), NEW view, NEW g
  PROVE  Redrawn(b, renderFrame(b, view, g))
<1>. DEFINE t == ensureObjectsInFrustum(b.scene, Len(b.recs), view, Memory(b.recs, g))
<1>1. SameGlow(b.scene, t)
  BY EnsureFrame DEF IsBackend
<1>2. renderFrame(b, view, g) = [b EXCEPT !.scene = t]
  BY DEF renderFrame
<1>. HIDE DEF t
<1>. QED BY <1>1, <1>2 DEF Redrawn, IsBackend, BackendFields, SameGlow, SameRecords

LEMMA SelectBackend ==
  ASSUME NEW b, IsBackend(b), NEW o, NEW g
  PROVE  LET c == updateSelection(b, o, g)
         IN  /\ Marked(c) /\ SameRecords(b, c) /\ c.layers = b.layers /\ c.selected = o
             /\ c.scene = setSelectedObject(b.scene, o, Memory(b.recs, g))
             /\ c.scene.spatial = b.scene.spatial
<1>. DEFINE t == setSelectedObject(b.scene, o, Memory(b.recs, g))
<1>1. /\ IsScene(t) /\ t.glowing \subseteq {o} /\ t.previous \in {None, o}
      /\ t.spatial = b.scene.spatial
  BY SelectFrame DEF IsBackend
<1>2. updateSelection(b, o, g) = [b EXCEPT !.selected = o, !.scene = t]
  BY DEF updateSelection
<1>. HIDE DEF t
<1>3. LET c == updateSelection(b, o, g)
      IN  /\ DOMAIN c = BackendFields /\ c.scene = t /\ c.selected = o /\ c.layers = b.layers
          /\ c.recs = b.recs /\ c.ptrs = b.ptrs /\ c.capacity = b.capacity
  BY <1>2 DEF IsBackend, BackendFields
<1>. QED BY <1>1, <1>3 DEF Marked, IsBackend, SameRecords, t

\* loadScene before the camera is fitted.
Loaded(b, recs, layers, view, mem) ==
  [b EXCEPT !.recs = recs,
            !.capacity = Reserved(b, recs),
            !.layers = layers,
            !.ptrs = [o \in Ids(recs) |-> Slot(recs, o)],
            !.scene = loadSnapshot(@, recs, layers, view, mem)]

\* The slot of every object.
Slots(recs) == [o \in Ids(recs) |-> Slot(recs, o)]

\* The scene of loadScene in place of s.
LoadedScene(s, recs, layers, view, fitted, mem) ==
  ensureObjectsInFrustum(setSelectedObject(loadSnapshot(s, recs, layers, view, mem), None, mem),
                         Len(recs), fitted, mem)

\* What the spatial index holds after loadScene.
Spread(recs, old) == IF recs = <<>> THEN old ELSE [i \in 1 .. Len(recs) |-> recs[i].id]

\* The backend c is b after the records recs were loaded.
Reopened(b, c, recs, layers, view, fitted, g) ==
  /\ Marked(c) /\ c.recs = recs /\ c.layers = layers /\ c.selected = None
  /\ c.ptrs = Slots(recs) /\ c.capacity = Reserved(b, recs)
  /\ c.scene.spatial = Spread(recs, b.scene.spatial)
  /\ c.scene = LoadedScene(b.scene, recs, layers, view, fitted, Memory(recs, g))

LEMMA LoadBackend ==
  ASSUME NEW b, IsBackend(b), NEW recs, NEW layers, NEW view, NEW fitted, NEW g
  PROVE  Reopened(b, loadScene(b, recs, layers, view, fitted, g), recs, layers, view, fitted, g)
<1>. DEFINE mem == Memory(recs, g)
            d == Loaded(b, recs, layers, view, mem)
            e == updateSelection(d, None, g)
            t == ensureObjectsInFrustum(e.scene, Len(recs), fitted, mem)
            ids == Spread(recs, b.scene.spatial)
<1>1. loadScene(b, recs, layers, view, fitted, g) = [e EXCEPT !.scene = t]
  BY DEF loadScene, Loaded, clearSelection
<1>2. /\ IsBackend(d) /\ d.recs = recs /\ d.layers = layers
      /\ d.ptrs = Slots(recs) /\ d.capacity = Reserved(b, recs)
      /\ d.scene = loadSnapshot(b.scene, recs, layers, view, mem)
      /\ d.scene.spatial = ids
  <2>1. LET x == loadSnapshot(b.scene, recs, layers, view, mem) IN IsScene(x) /\ x.spatial = ids
    BY LoadSnapshotFrame DEF Spread
  <2>. HIDE DEF ids
  <2>. QED BY <2>1 DEF IsBackend, BackendFields, Loaded, Slots
<1>. HIDE DEF d, ids
<1>3. /\ Marked(e) /\ SameRecords(d, e) /\ e.layers = layers /\ e.selected = None
      /\ e.scene = setSelectedObject(d.scene, None, Memory(d.recs, g))
      /\ e.scene.spatial = ids
  BY <1>2, SelectBackend
<1>. HIDE DEF e
<1>4. SameGlow(e.scene, t)
  BY <1>3, EnsureFrame DEF Marked, IsBackend
<1>5. t = LoadedScene(b.scene, recs, layers, view, fitted, mem)
  BY <1>2, <1>3 DEF LoadedScene
<1>. HIDE DEF t
<1>6. LET c == [e EXCEPT !.scene = t]
      IN  Redrawn(e, c) /\ c.scene = t
  BY <1>3, <1>4 DEF Redrawn, Marked, IsBackend, BackendFields, SameGlow, SameRecords
<1>7. LET c == [e EXCEPT !.scene = t]
      IN  /\ Marked(c) /\ SameRecords(e, c) /\ c.layers = layers /\ c.selected = None
          /\ c.scene.spatial = ids
  BY <1>3, <1>4, <1>6, RedrawnMarked DEF Redrawn, SameGlow
<1>. HIDE DEF mem
<1>. QED BY <1>1, <1>2, <1>3, <1>5, <1>6, <1>7 DEF SameRecords, mem, ids, Reopened

\* The backend c is b after the layer l was switched.
Switched(b, c, l, visible, g) ==
  /\ Marked(c) /\ SameRecords(b, c) /\ c.selected = b.selected
  /\ c.layers = [k \in DOMAIN b.layers |-> IF k = l THEN visible ELSE b.layers[k]]
  /\ c.scene = updateLayer(b.scene, l, visible, Memory(b.recs, g))
  /\ c.scene.spatial = b.scene.spatial

LEMMA LayerBackend ==
  ASSUME NEW b, Marked(b), NEW l, NEW visible, NEW g
  PROVE  Switched(b, updateLayerState(b, l, visible, g), l, visible, g)
<1>. DEFINE t == updateLayer(b.scene, l, visible, Memory(b.recs, g))
            c == updateLayerState(b, l, visible, g)
<1>1. SameGlow(b.scene, t)
  BY UpdateLayerFrame DEF Marked, IsBackend
<1>2. c = [b EXCEPT !.layers = [k \in DOMAIN @ |-> IF k = l THEN visible ELSE @[k]],
                    !.scene = t]
  BY DEF updateLayerState
<1>. HIDE DEF t
<1>3. /\ DOMAIN c = BackendFields /\ SameRecords(b, c) /\ c.selected = b.selected
      /\ c.layers = [k \in DOMAIN b.layers |-> IF k = l THEN visible ELSE b.layers[k]]
      /\ c.scene = t
  BY <1>2 DEF Marked, IsBackend, BackendFields, SameRecords
<1>. HIDE DEF c
<1>4. Marked(c)
  BY <1>1, <1>3 DEF Marked, IsBackend, SameGlow
<1>5. Switched(b, c, l, visible, g)
  BY <1>1, <1>3, <1>4 DEF t, SameGlow, Switched
<1>. QED BY <1>5 DEF c

\* The backend c is b after the objects ids were removed.
Thinned(b, c, ids) ==
  /\ Marked(c) /\ c.ptrs = b.ptrs /\ c.capacity = b.capacity
  /\ c.scene.spatial = b.scene.spatial
  /\ c.selected = IF b.selected \in ids THEN None ELSE b.selected
  /\ c.recs = IF ids = {} THEN b.recs
              ELSE Keep(b.recs, {r \in Range(b.recs) : r.id \notin ids})

LEMMA RemoveBackend ==
  ASSUME NEW b, Marked(b), NEW ids, NEW g
  PROVE  Thinned(b, removeObjects(b, ids, g), ids)
<1>. DEFINE recs == Keep(b.recs, {r \in Range(b.recs) : r.id \notin ids})
            t == removeObjectsById(b.scene, ids, Memory(recs, g))
            c == [b EXCEPT !.recs = recs, !.scene = t]
<1>1. removeObjects(b, ids, g) = IF ids = {} THEN b
                                 ELSE IF b.selected \in ids THEN updateSelection(c, None, g)
                                 ELSE c
  BY DEF removeObjects, clearSelection
<1>2. /\ IsScene(t) /\ t.glowing \subseteq b.scene.glowing
      /\ t.previous \in {None, b.scene.previous} /\ t.spatial = b.scene.spatial
  BY RemoveFrame DEF Marked, IsBackend
<1>. HIDE DEF recs, t
<1>3. /\ DOMAIN c = BackendFields /\ c.recs = recs /\ c.scene = t /\ c.ptrs = b.ptrs
      /\ c.selected = b.selected /\ c.capacity = b.capacity
  BY DEF Marked, IsBackend, BackendFields
<1>. HIDE DEF c
<1>4. Marked(c) /\ IsBackend(c)
  BY <1>2, <1>3 DEF Marked, IsBackend
<1>5. LET d == updateSelection(c, None, g)
      IN  Marked(d) /\ SameRecords(c, d) /\ d.selected = None /\ d.scene.spatial = c.scene.spatial
  BY <1>4, SelectBackend
<1>. QED BY <1>1, <1>2, <1>3, <1>4, <1>5 DEF SameRecords, recs, Thinned

-----------------------------------------------------------------------------
(* Records by id.                                                          *)

\* The records of a snapshot.
IsSnapshot(recs) == recs \in Seq(ObjectRecord) /\ DistinctIds(recs)

LEMMA IdsAre ==
  ASSUME NEW D, NEW recs \in Seq(D), NEW o
  PROVE  o \in Ids(recs) <=> \E i \in 1 .. Len(recs) : recs[i].id = o
<1>. DOMAIN recs = 1 .. Len(recs)
  OBVIOUS
<1>. QED BY DEF Ids, Range

\* The slot of an id is the last place that has it, and for a name the only.
LEMMA SlotIs ==
  ASSUME NEW D, NEW recs \in Seq(D)
  PROVE  /\ \A o \in Ids(recs) : /\ Slot(recs, o) \in 1 .. Len(recs) /\ recs[Slot(recs, o)].id = o
                                 /\ \A j \in 1 .. Len(recs) : recs[j].id = o => j <= Slot(recs, o)
         /\ \A i \in 1 .. Len(recs) : recs[i].id \in Ids(recs)
         /\ DistinctIds(recs) => \A i \in 1 .. Len(recs) :
                                   recs[i].id # Nameless => Slot(recs, recs[i].id) = i
<1>. DEFINE n == Len(recs)
<1>0. n \in Nat
  OBVIOUS
<1>1. ASSUME NEW o \in Ids(recs)
      PROVE  /\ Slot(recs, o) \in 1 .. n /\ recs[Slot(recs, o)].id = o
             /\ \A j \in 1 .. n : recs[j].id = o => j <= Slot(recs, o)
  <2>. DEFINE T == {n - i : i \in {j \in 1 .. n : recs[j].id = o}}
  <2>1. T # {} /\ T \subseteq Nat
    BY IdsAre
  <2>2. PICK m \in T : \A x \in T : m <= x
    <3>. HIDE DEF T
    <3>. QED BY <2>1, KeepLoop!Least
  <2>3. PICK i \in 1 .. n : m = n - i /\ recs[i].id = o
    BY <2>2
  <2>4. \A j \in 1 .. n : recs[j].id = o => n - i <= n - j
    BY <2>2, <2>3
  <2>5. \A j \in 1 .. n : recs[j].id = o => j <= i
    <3>. HIDE DEF n
    <3>. QED BY <1>0, <2>4
  <2>. QED BY <2>3, <2>5 DEF Slot
<1>2. \A i \in 1 .. n : recs[i].id \in Ids(recs)
  BY IdsAre
<1>3. ASSUME DistinctIds(recs), NEW i \in 1 .. n, recs[i].id # Nameless
      PROVE  Slot(recs, recs[i].id) = i
  BY <1>1, <1>2, <1>3 DEF DistinctIds
<1>. QED BY <1>1, <1>2, <1>3

LEMMA SlotUnique ==
  ASSUME NEW D, NEW recs \in Seq(D), NEW i \in 1 .. Len(recs), NEW o, recs[i].id = o,
         \A j \in 1 .. Len(recs) : recs[j].id = o => j <= i
  PROVE  o \in Ids(recs) /\ Slot(recs, o) = i
<1>1. o \in Ids(recs)
  BY IdsAre
<1>2. Slot(recs, o) \in 1 .. Len(recs) /\ Slot(recs, o) <= i /\ i <= Slot(recs, o)
  BY <1>1, SlotIs
<1>. QED BY <1>1, <1>2

LEMMA SnapshotIds ==
  ASSUME NEW recs, IsSnapshot(recs)
  PROVE  /\ Ids(recs) \subseteq Objects
         /\ \A i \in 1 .. Len(recs) : recs[i] \in ObjectRecord /\ recs[i].id \in Objects
<1>1. \A i \in 1 .. Len(recs) : recs[i] \in ObjectRecord /\ recs[i].id \in Objects
  <2>1. \A i \in 1 .. Len(recs) : recs[i] \in ObjectRecord
    BY DEF IsSnapshot
  <2>2. \A x \in ObjectRecord : x.id \in Objects
    BY DEF ObjectRecord
  <2>. QED BY <2>1, <2>2
<1>2. Ids(recs) \subseteq Objects
  BY <1>1, IdsAre DEF IsSnapshot
<1>. QED BY <1>1, <1>2

\* Keep leaves a snapshot one.
LEMMA KeepSnapshot ==
  ASSUME NEW recs, IsSnapshot(recs), NEW S
  PROVE  IsSnapshot(Keep(recs, S)) /\ Range(Keep(recs, S)) = Range(recs) \cap S
<1>. DEFINE k == Keep(recs, S)
<1>1. recs \in Seq(ObjectRecord) /\ DistinctIds(recs)
  BY DEF IsSnapshot
<1>2. k \in Seq(ObjectRecord) /\ Range(k) = Range(recs) \cap S /\ \A x : Once(recs, x) => Once(k, x)
  BY <1>1, KeepIs
<1>. HIDE DEF k
<1>3. DOMAIN k = 1 .. Len(k) /\ DOMAIN recs = 1 .. Len(recs)
  BY <1>1, <1>2
<1>4. \A a \in 1 .. Len(k) : \E i \in 1 .. Len(recs) : k[a] = recs[i]
  BY <1>2, <1>3 DEF Range
<1>5. ASSUME NEW a \in 1 .. Len(k), NEW b \in 1 .. Len(k), k[a].id = k[b].id, k[a].id # Nameless
      PROVE  a = b
  <2>1. PICK i \in 1 .. Len(recs) : k[a] = recs[i]
    BY <1>4
  <2>2. PICK j \in 1 .. Len(recs) : k[b] = recs[j]
    BY <1>4
  <2>3. i = j
    BY <1>1, <1>5, <2>1, <2>2 DEF DistinctIds
  <2>4. Once(recs, recs[i])
    BY <1>1, <1>5, <2>1 DEF Once, DistinctIds
  <2>. QED BY <1>2, <2>1, <2>2, <2>3, <2>4 DEF Once
<1>6. DistinctIds(k)
  BY <1>5 DEF DistinctIds
<1>. QED BY <1>2, <1>6 DEF IsSnapshot, k

\* The index has the slot of every object.
Finds(ptrs, recs) == \A o \in Ids(recs) : o \in DOMAIN ptrs /\ ptrs[o] = Slot(recs, o)

\* The backend and the two lists of updateObjects.
IsBatch(u) == DOMAIN u = {"backend", "fullUpdates", "visibilityOnlyUpdates"}

\* The backend c is b with the record r.
StoresOne(b, c, r) ==
  /\ IsSnapshot(c.recs)
  /\ Ids(c.recs) = Ids(b.recs) \cup {r.id}
  /\ \A x \in Range(c.recs) : \/ x = r
                              \/ x \in Range(b.recs) /\ (x.id # r.id \/ x.id = Nameless)
  /\ Len(c.recs) >= Len(b.recs)
  /\ c.capacity \in Nat /\ c.capacity >= b.capacity
  /\ Finds(b.ptrs, b.recs) => Finds(c.ptrs, c.recs) \/ Len(c.recs) > b.capacity

\* One record is stored under its id, and the others stay where they are.
\* The index stays right unless the vector has outgrown its memory.
LEMMA StoreIs ==
  ASSUME NEW u, DOMAIN u.backend = BackendFields, IsSnapshot(u.backend.recs),
         u.backend.capacity \in Nat, NEW r \in ObjectRecord
  PROVE  StoresOne(u.backend, Store(u, r).backend, r)
<1>. DEFINE b == u.backend
            recs == b.recs
            n == Len(recs)
            fresh == r.id \notin Ids(recs)
            i == IF fresh THEN n + 1 ELSE Slot(recs, r.id)
            grows == fresh /\ n = b.capacity
            hides == VisibilityOnly(recs, r)
            new == [j \in 1 .. n \cup {i} |-> IF j = i THEN r ELSE recs[j]]
            c == Store(u, r).backend
<1>1. /\ recs \in Seq(ObjectRecord) /\ n \in Nat /\ DOMAIN recs = 1 .. n
      /\ \A j \in 1 .. n : recs[j] \in ObjectRecord
  BY DEF IsSnapshot
<1>2. /\ \A o \in Ids(recs) : /\ Slot(recs, o) \in 1 .. n /\ recs[Slot(recs, o)].id = o
                              /\ \A j \in 1 .. n : recs[j].id = o => j <= Slot(recs, o)
      /\ \A j \in 1 .. n : recs[j].id \in Ids(recs)
  BY SlotIs DEF IsSnapshot
<1>3. /\ c.recs = new
      /\ c.capacity = IF grows THEN 2 * b.capacity ELSE b.capacity
      /\ ~grows => c.ptrs = IF hides THEN b.ptrs ELSE With(b.ptrs, r.id, i)
  BY DEF Store, BackendFields
<1>. HIDE DEF c
<1>4. /\ i \in 1 .. n + 1 /\ (i \in 1 .. n => recs[i].id = r.id) /\ (fresh <=> i = n + 1)
      /\ \A j \in 1 .. n : recs[j].id = r.id => j <= i
  BY <1>1, <1>2
<1>. HIDE DEF i
<1>5. PICK m \in Nat : m = (IF i = n + 1 THEN n + 1 ELSE n) /\ 1 .. n \cup {i} = 1 .. m
  BY <1>1, <1>4
<1>6. new \in Seq(ObjectRecord) /\ Len(new) = m /\ i \in 1 .. m /\ new[i] = r
      /\ \A j \in 1 .. m : j # i => j \in 1 .. n /\ new[j] = recs[j]
  <2>1. new \in [1 .. m -> ObjectRecord]
    BY <1>1, <1>5
  <2>2. new \in Seq(ObjectRecord) /\ Len(new) = m
    <3>. HIDE DEF new, n
    <3>. QED BY <2>1
  <2>3. i \in 1 .. m /\ new[i] = r
    BY <1>5
  <2>4. \A j \in 1 .. m : j # i => j \in 1 .. n /\ new[j] = recs[j]
    BY <1>1, <1>4, <1>5
  <2>. QED BY <2>2, <2>3, <2>4
<1>. HIDE DEF new
<1>7. DOMAIN new = 1 .. m
  BY <1>6
<1>8. DistinctIds(new)
  <2>1. DistinctIds(recs)
    BY DEF IsSnapshot
  <2>2. \A j \in 1 .. m : new[j].id = r.id => j = i \/ r.id = Nameless
    <3>. SUFFICES ASSUME NEW j \in 1 .. m, new[j].id = r.id, j # i, r.id # Nameless PROVE FALSE
      OBVIOUS
    <3>1. j \in 1 .. n /\ recs[j].id = r.id
      BY <1>6
    <3>2. r.id \in Ids(recs)
      BY <1>2, <3>1
    <3>3. i \in 1 .. n /\ recs[i].id = r.id
      BY <1>1, <1>4, <3>2
    <3>. QED BY <2>1, <3>1, <3>3 DEF DistinctIds
  <2>. QED BY <1>6, <2>1, <2>2 DEF DistinctIds
<1>9. ASSUME NEW x \in Range(new)
      PROVE  x = r \/ (x \in Range(recs) /\ (x.id # r.id \/ x.id = Nameless))
  <2>1. PICK j \in 1 .. m : x = new[j]
    BY <1>7 DEF Range
  <2>2. CASE j = i BY <1>6, <2>1, <2>2
  <2>3. CASE j # i
    <3>1. x \in Range(recs)
      BY <1>1, <1>6, <2>1, <2>3 DEF Range
    <3>2. x.id = r.id => x.id = Nameless
      BY <1>6, <1>8, <2>1, <2>3 DEF DistinctIds
    <3>. QED BY <3>1, <3>2
  <2>. QED BY <2>2, <2>3
<1>10. Ids(new) = Ids(recs) \cup {r.id}
  <2>1. \A o : o \in Ids(new) <=> \E j \in 1 .. m : new[j].id = o
    BY <1>6, IdsAre
  <2>2. \A o : o \in Ids(recs) <=> \E j \in 1 .. n : recs[j].id = o
    BY <1>1, IdsAre
  <2>3. ASSUME NEW o \in Ids(recs) PROVE o \in Ids(new)
    <3>1. PICK j \in 1 .. n : recs[j].id = o
      BY <2>2
    <3>2. j \in 1 .. m /\ (j = i => r.id = o) /\ (j # i => new[j].id = o)
      BY <1>1, <1>4, <1>5, <1>6, <3>1
    <3>. QED BY <1>6, <2>1, <3>2
  <2>4. ASSUME NEW o \in Ids(new) PROVE o \in Ids(recs) \cup {r.id}
    BY <1>6, <2>1, <2>2
  <2>5. r.id \in Ids(new)
    BY <1>6, <2>1
  <2>. QED BY <2>3, <2>4, <2>5
<1>11. m >= n /\ (grows => m > b.capacity) /\ c.capacity \in Nat /\ c.capacity >= b.capacity
  BY <1>1, <1>3, <1>4, <1>5
<1>12. ASSUME Finds(b.ptrs, recs), ~grows PROVE Finds(c.ptrs, new)
  <2>1. ASSUME NEW o \in Ids(new), o # r.id
        PROVE  o \in Ids(recs) /\ Slot(new, o) = Slot(recs, o)
    <3>1. o \in Ids(recs)
      BY <1>10, <2>1
    <3>2. /\ Slot(recs, o) \in 1 .. n /\ recs[Slot(recs, o)].id = o
          /\ \A j \in 1 .. n : recs[j].id = o => j <= Slot(recs, o)
      BY <1>2, <3>1
    <3>3. Slot(recs, o) \in 1 .. m /\ new[Slot(recs, o)].id = o
      BY <1>1, <1>4, <1>5, <1>6, <2>1, <3>2
    <3>4. \A j \in 1 .. m : new[j].id = o => j <= Slot(recs, o)
      BY <1>6, <2>1, <3>2
    <3>. QED BY <1>6, <3>1, <3>3, <3>4, SlotUnique
  <2>2. Slot(new, r.id) = i
    <3>1. \A j \in 1 .. m : new[j].id = r.id => j <= i
      BY <1>4, <1>5, <1>6
    <3>. QED BY <1>6, <3>1, SlotUnique
  <2>3. CASE hides
    <3>1. r.id \in Ids(recs) /\ Slot(recs, r.id) = i
      BY <2>3 DEF VisibilityOnly, i
    <3>2. \A o \in Ids(new) : o \in Ids(recs) /\ Slot(new, o) = Slot(recs, o)
      BY <2>1, <2>2, <3>1
    <3>. QED BY <1>3, <1>12, <2>3, <3>2 DEF Finds
  <2>4. CASE ~hides
    <3>1. c.ptrs = With(b.ptrs, r.id, i)
      BY <1>3, <1>12, <2>4
    <3>2. /\ DOMAIN c.ptrs = DOMAIN b.ptrs \cup {r.id}
          /\ c.ptrs[r.id] = i
          /\ \A o \in DOMAIN b.ptrs : o # r.id => c.ptrs[o] = b.ptrs[o]
      BY <3>1 DEF With
    <3>3. ASSUME NEW o \in Ids(new)
          PROVE  o \in DOMAIN c.ptrs /\ c.ptrs[o] = Slot(new, o)
      <4>1. CASE o = r.id BY <2>2, <3>2, <4>1
      <4>2. CASE o # r.id BY <1>12, <2>1, <3>2, <4>2 DEF Finds
      <4>. QED BY <4>1, <4>2
    <3>. QED BY <3>3 DEF Finds
  <2>. QED BY <2>3, <2>4
<1>13. IsSnapshot(new)
  BY <1>6, <1>8 DEF IsSnapshot
<1>14. StoresOne(b, c, r)
  <2>. HIDE DEF b, recs, n, fresh, grows, hides
  <2>. QED BY <1>3, <1>6, <1>9, <1>10, <1>11, <1>12, <1>13 DEF StoresOne, recs, n
<1>. QED BY <1>14 DEF c

\* The loop of updateObjects over the records c[2], for the backend c[1].
StoreStep(c, x, r) == Store(x, r)

StoreHolds(c, i, u) ==
  LET x == u.backend
  IN  /\ IsBatch(u) /\ DOMAIN x = BackendFields
      /\ u.fullUpdates \in Seq(ObjectRecord) /\ u.visibilityOnlyUpdates \in Seq(ObjectRecord)
      /\ x.scene = c[1].scene /\ x.layers = c[1].layers /\ x.selected = c[1].selected
      /\ IsSnapshot(x.recs)
      /\ Len(x.recs) >= Len(c[1].recs)
      /\ x.capacity \in Nat /\ x.capacity >= c[1].capacity
      /\ \A o : o \in Ids(x.recs) <=> (o \in Ids(c[1].recs) \/ \E j \in 1 .. i : c[2][j].id = o)
      /\ \A y \in Range(x.recs) :
           \/ y.id = Nameless
           \/ \E j \in 1 .. i : y = c[2][j]
           \/ y \in Range(c[1].recs) /\ \A j \in 1 .. i : c[2][j].id # y.id
      /\ Finds(c[1].ptrs, c[1].recs) => Finds(x.ptrs, x.recs) \/ Len(x.recs) > c[1].capacity

StoreBase(b) == [backend |-> b, fullUpdates |-> <<>>, visibilityOnlyUpdates |-> <<>>]

Stored(b, updates) == FoldLeft(Store, StoreBase(b), updates)

StoreLoop == INSTANCE Loops WITH Step <- StoreStep, Holds <- StoreHolds

\* The updates are stored, and what they do not name stays.
LEMMA StoreAll ==
  ASSUME NEW b, DOMAIN b = BackendFields, IsSnapshot(b.recs), b.capacity \in Nat,
         NEW updates, IsSnapshot(updates)
  PROVE  StoreHolds(<<b, updates>>, Len(updates), Stored(b, updates))
<1>. DEFINE c == <<b, updates>>
<1>1. StoreHolds(c, 0, StoreBase(b))
  <2>1. StoreBase(b).backend = b /\ IsBatch(StoreBase(b)) /\ StoreBase(b).fullUpdates = <<>>
        /\ StoreBase(b).visibilityOnlyUpdates = <<>>
    BY DEF StoreBase, IsBatch
  <2>2. Len(b.recs) \in Nat
    BY DEF IsSnapshot
  <2>. QED BY <2>1, <2>2 DEF StoreHolds
<1>2. ASSUME NEW u, NEW i \in 1 .. Len(updates), StoreHolds(c, i - 1, u)
      PROVE  StoreHolds(c, i, StoreStep(c, u, updates[i]))
  <2>. DEFINE r == updates[i]
              x == u.backend
              v == Store(u, r)
              y == v.backend
  <2>1. /\ IsBatch(u) /\ DOMAIN x = BackendFields /\ IsSnapshot(x.recs) /\ r \in ObjectRecord
        /\ u.fullUpdates \in Seq(ObjectRecord) /\ u.visibilityOnlyUpdates \in Seq(ObjectRecord)
        /\ x.scene = b.scene /\ x.layers = b.layers /\ x.selected = b.selected
        /\ Len(x.recs) >= Len(b.recs) /\ x.capacity \in Nat /\ x.capacity >= b.capacity
        /\ \A o : o \in Ids(x.recs) <=> (o \in Ids(b.recs) \/ \E j \in 1 .. i - 1 : updates[j].id = o)
        /\ \A z \in Range(x.recs) :
             \/ z.id = Nameless
             \/ \E j \in 1 .. i - 1 : z = updates[j]
             \/ z \in Range(b.recs) /\ \A j \in 1 .. i - 1 : updates[j].id # z.id
        /\ Finds(b.ptrs, b.recs) => Finds(x.ptrs, x.recs) \/ Len(x.recs) > b.capacity
    BY <1>2, SnapshotIds DEF StoreHolds
  <2>. HIDE DEF r
  <2>2. /\ IsSnapshot(y.recs) /\ Ids(y.recs) = Ids(x.recs) \cup {r.id}
        /\ \A z \in Range(y.recs) : z = r \/ (z \in Range(x.recs) /\ (z.id # r.id \/ z.id = Nameless))
        /\ Len(y.recs) >= Len(x.recs) /\ y.capacity \in Nat /\ y.capacity >= x.capacity
        /\ Finds(x.ptrs, x.recs) => Finds(y.ptrs, y.recs) \/ Len(y.recs) > x.capacity
    <3>1. StoresOne(u.backend, Store(u, r).backend, r)
      BY <2>1, StoreIs
    <3>. QED BY <3>1 DEF StoresOne
  <2>3. /\ DOMAIN y = BackendFields /\ y.scene = b.scene /\ y.layers = b.layers
        /\ y.selected = b.selected
    BY <2>1 DEF Store, BackendFields
  <2>3a. /\ IsBatch(v) /\ v.fullUpdates \in Seq(ObjectRecord)
         /\ v.visibilityOnlyUpdates \in Seq(ObjectRecord)
    BY <2>1 DEF Store, IsBatch
  <2>. HIDE DEF v
  <2>4. \A j : j \in 1 .. i <=> (j \in 1 .. i - 1 \/ j = i)
    BY DEF IsSnapshot
  <2>5. \A o : o \in Ids(y.recs) <=> (o \in Ids(b.recs) \/ \E j \in 1 .. i : updates[j].id = o)
    BY <2>1, <2>2, <2>4 DEF r
  <2>6. ASSUME NEW z \in Range(y.recs)
        PROVE  \/ z.id = Nameless
               \/ \E j \in 1 .. i : z = updates[j]
               \/ z \in Range(b.recs) /\ \A j \in 1 .. i : updates[j].id # z.id
    BY <2>1, <2>2, <2>4 DEF r
  <2>7. Len(b.recs) \in Nat /\ Len(x.recs) \in Nat /\ Len(y.recs) \in Nat
    BY <2>1, <2>2 DEF IsSnapshot
  <2>8. /\ Len(y.recs) >= Len(b.recs) /\ y.capacity >= b.capacity
        /\ Finds(b.ptrs, b.recs) => Finds(y.ptrs, y.recs) \/ Len(y.recs) > b.capacity
    <3>1. Len(y.recs) > x.capacity => Len(y.recs) > b.capacity
      BY <2>1, <2>7
    <3>2. Len(x.recs) > b.capacity => Len(y.recs) > b.capacity
      BY <2>2, <2>7
    <3>3. Len(y.recs) >= Len(b.recs) /\ y.capacity >= b.capacity
      BY <2>1, <2>2, <2>7
    <3>. HIDE DEF x, y
    <3>. QED BY <2>1, <2>2, <3>1, <3>2, <3>3
  <2>9. StoreStep(c, u, updates[i]) = v
    BY DEF StoreStep, v, r
  <2>. QED BY <2>2, <2>3, <2>3a, <2>5, <2>6, <2>8, <2>9 DEF StoreHolds
<1>3. Stored(b, updates) = StoreLoop!Loop(c, StoreBase(b), updates)
  BY DEF Stored, StoreStep, StoreLoop!Loop, FoldLeft, StoreLoop!FoldLeft, MapThenFoldSet,
         StoreLoop!MapThenFoldSet, Max, StoreLoop!Max
<1>4. StoreHolds(c, Len(updates), StoreLoop!Loop(c, StoreBase(b), updates))
  <2>1. updates \in Seq(ObjectRecord)
    BY DEF IsSnapshot
  <2>. HIDE DEF c
  <2>. QED BY <1>1, <1>2, <2>1, StoreLoop!LoopKeeps
<1>. QED BY <1>3, <1>4

\* The loop over the updates that change a visibility; c[2] is the memory.
ShowStep(c, s, r) == setObjectVisible(s, r.id, r.visible, c[2])

ShowQuiet(c, i, s) == SameGlow(c[1], s)

ShowLoop == INSTANCE Loops WITH Step <- ShowStep, Holds <- ShowQuiet

LEMMA ShowAll ==
  ASSUME NEW s, IsScene(s), NEW mem, NEW D, NEW q \in Seq(D)
  PROVE  SameGlow(s, ShowLoop!Loop(<<s, mem>>, s, q))
<1>. DEFINE c == <<s, mem>>
<1>1. ShowQuiet(c, 0, s)
  BY DEF ShowQuiet, SameGlow
<1>2. ASSUME NEW x, NEW i, NEW r, ShowQuiet(c, i - 1, x) PROVE ShowQuiet(c, i, ShowStep(c, x, r))
  <2>1. SameGlow(s, x) /\ SameGlow(x, setObjectVisible(x, r.id, r.visible, mem))
    BY <1>2, SetObjectFrame DEF ShowQuiet, SameGlow
  <2>. QED BY <2>1 DEF ShowQuiet, ShowStep, SameGlow
<1>3. ShowQuiet(c, Len(q), ShowLoop!Loop(c, s, q))
  <2>. HIDE DEF c
  <2>. QED BY <1>1, <1>2, ShowLoop!LoopKeeps
<1>. QED BY <1>3 DEF ShowQuiet

\* updateObjects: the records are those that Store leaves.
LEMMA UpdateBackend ==
  ASSUME NEW b, Marked(b), IsSnapshot(b.recs), b.capacity \in Nat,
         NEW updates, IsSnapshot(updates), NEW g
  PROVE  LET c == updateObjects(b, updates, g)
             d == Stored(b, updates).backend
         IN  /\ Marked(c) /\ SameRecords(d, c) /\ c.selected = b.selected
             /\ c.scene.spatial = b.scene.spatial
<1>. DEFINE u == Stored(b, updates)
            d == u.backend
            mem == Memory(d.recs, g)
            moved == IF d.capacity = b.capacity THEN b.scene ELSE Freed(b.scene, Nat)
            t == upsertObjects(moved, u.fullUpdates, mem)
            w == ShowLoop!Loop(<<t, mem>>, t, u.visibilityOnlyUpdates)
            Show(s, r) == setObjectVisible(s, r.id, r.visible, mem)
<1>1. updateObjects(b, updates, g) = [d EXCEPT !.scene = w]
  <2>1. updateObjects(b, updates, g) =
          [d EXCEPT !.scene = FoldLeft(Show, t, u.visibilityOnlyUpdates)]
    BY DEF updateObjects, Stored, StoreBase
  <2>. HIDE DEF u, mem, t
  <2>2. FoldLeft(Show, t, u.visibilityOnlyUpdates) = w
    BY DEF ShowStep, ShowLoop!Loop, FoldLeft, ShowLoop!FoldLeft, MapThenFoldSet,
           ShowLoop!MapThenFoldSet, Max, ShowLoop!Max
  <2>. QED BY <2>1, <2>2
<1>2. /\ DOMAIN d = BackendFields
      /\ u.fullUpdates \in Seq(ObjectRecord) /\ u.visibilityOnlyUpdates \in Seq(ObjectRecord)
      /\ d.scene = b.scene /\ d.layers = b.layers /\ d.selected = b.selected
  <2>1. StoreHolds(<<b, updates>>, Len(updates), u)
    BY StoreAll DEF Marked, IsBackend
  <2>. QED BY <2>1 DEF StoreHolds
<1>. HIDE DEF u, mem
<1>3. SameGlow(b.scene, moved)
  BY FreedFrame DEF Marked, IsBackend, SameGlow
<1>. HIDE DEF moved
<1>4. SameGlow(moved, t)
  BY <1>2, <1>3, UpsertAllFrame DEF SameGlow
<1>. HIDE DEF t
<1>5. SameGlow(t, w)
  BY <1>2, <1>4, ShowAll DEF SameGlow
<1>. HIDE DEF w
<1>6. SameGlow(b.scene, w)
  BY <1>3, <1>4, <1>5 DEF SameGlow
<1>7. Marked(d)
  BY <1>2 DEF Marked, IsBackend
<1>8. Redrawn(d, updateObjects(b, updates, g))
  BY <1>1, <1>2, <1>6 DEF Redrawn, SameGlow, SameRecords, IsBackend, BackendFields
<1>. QED BY <1>2, <1>7, <1>8, RedrawnMarked DEF Redrawn, SameGlow, u

\* The loop of applyObjectFilters with the filters c[2].
FilterStep(c, x, o) == setVisible(x, o, c[2][Type(o)], c[3])

FilterQuiet(c, i, x) == Redrawn(c[1], x)

FilterLoop == INSTANCE Loops WITH Step <- FilterStep, Holds <- FilterQuiet

LEMMA FilterBackend ==
  ASSUME NEW b, IsBackend(b), NEW objs, DOMAIN objs \subseteq Objects, NEW f, NEW g
  PROVE  Redrawn(b, applyObjectFilters(b, objs, f, g))
<1>. DEFINE differ == {o \in DOMAIN objs : objs[o].visible /= f[Type(o)]}
            c == <<b, f, g>>
<1>1. applyObjectFilters(b, objs, f, g) = FilterLoop!Loop(c, b, SetToSeq(differ))
  BY DEF applyObjectFilters, FilterStep, FilterLoop!Loop, FoldLeft, FilterLoop!FoldLeft,
         MapThenFoldSet, FilterLoop!MapThenFoldSet, Max, FilterLoop!Max
<1>2. IsFiniteSet(differ)
  BY FS_Subset, SceneAssumption
<1>. HIDE DEF differ
<1>3. SetToSeq(differ) \in Seq(differ)
  BY <1>2, SetToSeqIs
<1>4. FilterQuiet(c, 0, b)
  BY DEF FilterQuiet, Redrawn, SameGlow, SameRecords, IsBackend
<1>5. ASSUME NEW x, NEW i, NEW o, FilterQuiet(c, i - 1, x)
      PROVE  FilterQuiet(c, i, FilterStep(c, x, o))
  <2>1. Redrawn(b, x)
    BY <1>5 DEF FilterQuiet
  <2>2. Redrawn(x, FilterStep(c, x, o))
    BY <2>1, SetVisibleBackend DEF FilterStep, Redrawn
  <2>. QED BY <2>1, <2>2, RedrawnTwice DEF FilterQuiet
<1>6. FilterQuiet(c, Len(SetToSeq(differ)), FilterLoop!Loop(c, b, SetToSeq(differ)))
  <2>. HIDE DEF c
  <2>. QED BY <1>3, <1>4, <1>5, FilterLoop!LoopKeeps
<1>. QED BY <1>1, <1>6 DEF FilterQuiet

\* The loop that checks the layers again; c[2] is what a dangling pointer gives.
ResetStep(c, x, l) == updateLayerState(x, l, TRUE, c[2])

ResetQuiet(c, i, x) == /\ Marked(x) /\ SameRecords(c[1], x) /\ x.selected = c[1].selected
                       /\ x.scene.spatial = c[1].scene.spatial

ResetLoop == INSTANCE Loops WITH Step <- ResetStep, Holds <- ResetQuiet

LEMMA ResetBackend ==
  ASSUME NEW b, Marked(b), NEW S \in SUBSET Layers, NEW g
  PROVE  ResetQuiet(<<b, g>>, 0, ResetLoop!Loop(<<b, g>>, b, SetToSeq(S)))
<1>. DEFINE c == <<b, g>>
<1>1. SetToSeq(S) \in Seq(S)
  BY FS_Subset, SetToSeqIs, SceneAssumption
<1>2. ResetQuiet(c, 0, b)
  BY DEF ResetQuiet, SameRecords
<1>3. ASSUME NEW x, NEW i, NEW l, ResetQuiet(c, i - 1, x) PROVE ResetQuiet(c, i, ResetStep(c, x, l))
  <2>1. /\ Marked(x) /\ SameRecords(b, x) /\ x.selected = b.selected
        /\ x.scene.spatial = b.scene.spatial
    BY <1>3 DEF ResetQuiet
  <2>2. PICK y : y = updateLayerState(x, l, TRUE, g) /\ Switched(x, y, l, TRUE, g)
    BY <2>1, LayerBackend
  <2>3. /\ Marked(y) /\ SameRecords(x, y) /\ y.selected = x.selected
        /\ y.scene.spatial = x.scene.spatial
    BY <2>2 DEF Switched
  <2>4. y = ResetStep(c, x, l)
    BY <2>2 DEF ResetStep
  <2>. QED BY <2>1, <2>3, <2>4 DEF ResetQuiet, SameRecords
<1>4. ResetQuiet(c, Len(SetToSeq(S)), ResetLoop!Loop(c, b, SetToSeq(S)))
  <2>. HIDE DEF c
  <2>. QED BY <1>1, <1>2, <1>3, ResetLoop!LoopKeeps
<1>. QED BY <1>4 DEF ResetQuiet

-----------------------------------------------------------------------------
(* The invariant of a scene.                                               *)

LayerOf(recs, o) == recs[Slot(recs, o)].layer

\* mem has the records.
Backs(mem, recs) == \A i \in 1 .. Len(recs) : mem[i] = recs[i]

\* The named objects of a batch.
Members(s, k) == {o \in DOMAIN s.batchOf : o # Nameless /\ s.batchOf[o] = k}

\* The index has the record of every object, and the layers are known.
Indexed(s, recs) ==
  /\ s.index = [o \in Ids(recs) |-> Slot(recs, o)]
  /\ \A i \in 1 .. Len(recs) : recs[i].layer \in DOMAIN s.layers
  /\ \A o \in Ids(recs) : LayerOf(recs, o) \in DOMAIN s.layers

\* The pointers that the scene holds are right.
Links(s, recs) ==
  /\ Indexed(s, recs)
  /\ \A o \in DOMAIN s.batchOf : /\ o \in Batched /\ o \in Ids(recs)
                                 /\ o # Nameless => s.batchOf[o] = LayerOf(recs, o)
                                 /\ s.batchOf[o] \in DOMAIN s.batches
  /\ \A k \in DOMAIN s.batches :
       /\ k \in DOMAIN s.layers
       /\ DOMAIN s.batches[k] = {"records", "drawn", "mask"}
       /\ \A p \in Range(s.batches[k].records) : /\ p \in 1 .. Len(recs)
                                                 /\ recs[p].id \in Members(s, k) \cup {Nameless}
       /\ \A o \in Members(s, k) : Slot(recs, o) \in Range(s.batches[k].records)

\* The geometry of every batch is that of its objects that are not hidden.
Geometry(s) ==
  \A k \in DOMAIN s.batches : s.batches[k].drawn \ {Nameless} = Members(s, k) \ s.hidden

\* A batch on a visible layer is switched on.
Masks(s) == \A k \in DOMAIN s.batches : Alone(k) /\ s.layers[k] => s.batches[k].mask

\* A wire that is in no batch is hidden, and one that still has its placeholder
\* is hidden only as the selection.
Placeholders(s, recs) ==
  /\ \A o \in DOMAIN s.objs : o \in Batched => o \in DOMAIN s.batchOf
  /\ \A o \in Ids(recs) : o \in Batched /\ o \notin DOMAIN s.batchOf => o \in s.hidden
  /\ \A o \in DOMAIN s.objs : o \in Batched => o \notin s.hidden \/ o = s.previous

\* An object with a node of its own is loaded, one that is loaded has a node or
\* is hidden, and the node is shown accordingly.
Nodes(s, recs) ==
  /\ s.ghosts = {}
  /\ \A o \in DOMAIN s.objs : /\ DOMAIN s.objs[o] = {"node", "shown", "layer"}
                              /\ o \in Ids(recs)
                              /\ s.objs[o].node <=> o \notin Batched
                              /\ o \notin Batched => /\ s.objs[o].layer = LayerOf(recs, o)
                                                     /\ o \in s.loaded
  /\ \A o \in Ids(recs) : o \in s.loaded /\ o \notin Batched => o \in DOMAIN s.objs \/ o \in s.hidden
  /\ \A o \in DOMAIN s.objs : o \notin Batched /\ s.layers[LayerOf(recs, o)] =>
                                (s.objs[o].shown <=> o \notin s.hidden)

SceneInv(s, recs) == /\ IsScene(s) /\ Links(s, recs) /\ Geometry(s) /\ Masks(s)
                     /\ Placeholders(s, recs) /\ Nodes(s, recs)

\* Nothing of a layer that is not visible is switched on.
Dark(s, recs) ==
  /\ \A o \in DOMAIN s.objs : s.objs[o].node /\ s.objs[o].shown => s.layers[LayerOf(recs, o)]
  /\ \A k \in DOMAIN s.batches : Alone(k) /\ s.batches[k].mask => s.layers[k]

\* t is the scene s but for the fields F.
SameBut(s, t, F) == IsScene(t) /\ \A f \in SceneFields \ F : t[f] = s[f]

LEMMA MemoryBacks ==
  ASSUME NEW recs, IsSnapshot(recs), NEW g
  PROVE  Backs(Memory(recs, g), recs)
<1>1. DOMAIN recs = 1 .. Len(recs) /\ Len(recs) \in Nat
  BY DEF IsSnapshot
<1>. QED BY <1>1 DEF Backs, Memory

\* The geometry of the batches other than those of K is up to date.
OthersDrawn(s, K) ==
  \A j \in DOMAIN s.batches : j \notin K => s.batches[j].drawn \ {Nameless} = Members(s, j) \ s.hidden

\* t is s with all geometry up to date.
Rebuilt(s, t, recs) == /\ SameBut(s, t, {"batches"}) /\ Links(t, recs) /\ Geometry(t)
                       /\ DOMAIN t.batches = DOMAIN s.batches
                       /\ \A j \in DOMAIN s.batches : t.batches[j].mask = s.batches[j].mask

\* Rebuilding batches brings their geometry up to date.
LEMMA RebuildIs ==
  ASSUME NEW s, IsScene(s), NEW recs, IsSnapshot(recs), Links(s, recs), NEW K, NEW mem,
         Backs(mem, recs), OthersDrawn(s, K)
  PROVE  Rebuilt(s, rebuildBatches(s, K, mem), recs)
<1>. DEFINE t == rebuildBatches(s, K, mem)
            ids(k) == {mem[p].id : p \in Range(s.batches[k].records)}
<1>1. SameBut(s, t, {"batches"})
  BY DEF rebuildBatches, SameBut, IsScene, SceneFields
<1>2. t.batches = [j \in DOMAIN s.batches |->
                     IF j \in K THEN [s.batches[j] EXCEPT !.drawn = ids(j) \ s.hidden]
                     ELSE s.batches[j]]
  BY DEF rebuildBatches, IsScene, SceneFields
<1>. HIDE DEF t
<1>3. /\ t.batchOf = s.batchOf /\ t.hidden = s.hidden /\ t.index = s.index
      /\ t.layers = s.layers
  BY <1>1 DEF SameBut, SceneFields
<1>4. \A j : Members(t, j) = Members(s, j)
  BY <1>3 DEF Members
<1>5. DOMAIN t.batches = DOMAIN s.batches
  BY <1>2
<1>6. ASSUME NEW k \in DOMAIN s.batches
      PROVE  ids(k) \ {Nameless} = Members(s, k)
  <2>1. /\ \A p \in Range(s.batches[k].records) : /\ p \in 1 .. Len(recs)
                                                  /\ recs[p].id \in Members(s, k) \cup {Nameless}
        /\ \A o \in Members(s, k) : Slot(recs, o) \in Range(s.batches[k].records)
    BY <1>6 DEF Links
  <2>2. ASSUME NEW o \in Members(s, k)
        PROVE  Slot(recs, o) \in 1 .. Len(recs) /\ recs[Slot(recs, o)].id = o /\ o # Nameless
    <3>1. o \in Ids(recs) /\ o # Nameless
      BY DEF Members, Links
    <3>. QED BY <3>1, SlotIs DEF IsSnapshot
  <2>3. \A p \in Range(s.batches[k].records) : mem[p] = recs[p]
    BY <2>1 DEF Backs
  <2>4. ASSUME NEW o \in ids(k), o # Nameless PROVE o \in Members(s, k)
    BY <2>1, <2>3, <2>4
  <2>5. ASSUME NEW o \in Members(s, k) PROVE o \in ids(k)
    BY <2>1, <2>2, <2>3
  <2>. HIDE DEF ids
  <2>. QED BY <2>2, <2>4, <2>5
<1>. HIDE DEF ids
<1>7. ASSUME NEW j \in DOMAIN s.batches
      PROVE  /\ DOMAIN t.batches[j] = {"records", "drawn", "mask"}
             /\ t.batches[j].records = s.batches[j].records
             /\ t.batches[j].mask = s.batches[j].mask
             /\ t.batches[j].drawn \ {Nameless} = Members(s, j) \ s.hidden
  <2>1. DOMAIN s.batches[j] = {"records", "drawn", "mask"}
    BY DEF Links
  <2>2. CASE j \in K
    <3>1. t.batches[j] = [s.batches[j] EXCEPT !.drawn = ids(j) \ s.hidden]
      BY <1>2, <2>2
    <3>2. /\ DOMAIN t.batches[j] = {"records", "drawn", "mask"}
          /\ t.batches[j].records = s.batches[j].records
          /\ t.batches[j].mask = s.batches[j].mask
          /\ t.batches[j].drawn = ids(j) \ s.hidden
      BY <2>1, <3>1
    <3>. QED BY <1>6, <3>2
  <2>3. CASE j \notin K
    BY <1>2, <2>1, <2>3 DEF OthersDrawn
  <2>. QED BY <2>2, <2>3
<1>8. Links(t, recs)
  BY <1>3, <1>4, <1>5, <1>7 DEF Links, Indexed
<1>9. Geometry(t)
  BY <1>3, <1>4, <1>5, <1>7 DEF Geometry
<1>. QED BY <1>1, <1>5, <1>7, <1>8, <1>9 DEF t, Rebuilt

\* What setObjectVisible does to the object o and leaves of the others.
ObjectSet(s, t, recs, o, visible) ==
  /\ SceneInv(t, recs) /\ SameBut(s, t, {"hidden", "objs", "loaded", "batches"})
  /\ Dark(s, recs) => Dark(t, recs)
  /\ \A x : x # o => /\ x \in t.hidden <=> x \in s.hidden
                     /\ x \in DOMAIN t.objs <=> x \in DOMAIN s.objs
  /\ o \in DOMAIN s.batchOf => (o \in t.hidden <=> ~visible)
  /\ o \in DOMAIN s.objs /\ o \notin DOMAIN s.batchOf =>
       /\ o \in t.hidden <=> ~(visible /\ s.layers[LayerOf(recs, o)])
       /\ o \in DOMAIN t.objs

LEMMA SetObjectIs ==
  ASSUME NEW s, NEW recs, IsSnapshot(recs), SceneInv(s, recs), NEW mem, Backs(mem, recs),
         NEW o, NEW visible
  PROVE  ObjectSet(s, setObjectVisible(s, o, visible, mem), recs, o, visible)
<1>. DEFINE t == setObjectVisible(s, o, visible, mem)
<1>0. IsScene(s) /\ Links(s, recs) /\ Geometry(s) /\ Masks(s) /\ Placeholders(s, recs) /\ Nodes(s, recs)
  BY DEF SceneInv
<1>1. CASE o \in DOMAIN s.batchOf
  <2>. DEFINE r == [s EXCEPT !.hidden = IF visible THEN @ \ {o} ELSE @ \cup {o},
                             !.objs = Without(@, {o}),
                             !.loaded = IF o \in DOMAIN s.objs THEN @ \ {o} ELSE @]
              k == s.batchOf[o]
  <2>1. t = rebuildBatches(r, {k}, mem)
    BY <1>1 DEF setObjectVisible, rebuildBatch
  <2>2. /\ SameBut(s, r, {"hidden", "objs", "loaded"})
        /\ r.hidden = (IF visible THEN s.hidden \ {o} ELSE s.hidden \cup {o})
        /\ r.objs = Without(s.objs, {o})
        /\ r.loaded = (IF o \in DOMAIN s.objs THEN s.loaded \ {o} ELSE s.loaded)
    BY <1>0 DEF SameBut, IsScene, SceneFields
  <2>. HIDE DEF r, t
  <2>3. /\ r.layers = s.layers /\ r.batches = s.batches /\ r.batchOf = s.batchOf
        /\ r.index = s.index /\ r.ghosts = s.ghosts /\ r.previous = s.previous /\ IsScene(r)
    BY <2>2 DEF SameBut, SceneFields
  <2>4. Links(r, recs)
    BY <1>0, <2>3 DEF Links, Indexed, Members
  <2>5. OthersDrawn(r, {k})
    <3>1. ASSUME NEW j \in DOMAIN s.batches, j # k
          PROVE  s.batches[j].drawn \ {Nameless} = Members(s, j) \ r.hidden
      <4>1. s.batches[j].drawn \ {Nameless} = Members(s, j) \ s.hidden /\ o \notin Members(s, j)
        BY <1>0, <3>1 DEF Geometry, Members
      <4>. HIDE DEF k
      <4>. QED BY <2>2, <4>1
    <3>2. \A j : Members(r, j) = Members(s, j)
      BY <2>3 DEF Members
    <3>. HIDE DEF k
    <3>. QED BY <2>3, <3>1, <3>2 DEF OthersDrawn
  <2>6. /\ SameBut(r, t, {"batches"}) /\ Links(t, recs) /\ Geometry(t)
        /\ DOMAIN t.batches = DOMAIN r.batches
        /\ \A j \in DOMAIN r.batches : t.batches[j].mask = r.batches[j].mask
    <3>. HIDE DEF k
    <3>1. Rebuilt(r, t, recs)
      BY <2>1, <2>3, <2>4, <2>5, RebuildIs
    <3>. QED BY <3>1 DEF Rebuilt
  <2>7. /\ t.layers = s.layers /\ t.batchOf = s.batchOf /\ t.ghosts = s.ghosts
        /\ t.previous = s.previous /\ t.hidden = r.hidden /\ t.objs = r.objs /\ t.loaded = r.loaded
        /\ IsScene(t)
    BY <2>3, <2>6 DEF SameBut, SceneFields
  <2>8. SameBut(s, t, {"hidden", "objs", "loaded", "batches"})
    BY <2>2, <2>6 DEF SameBut
  <2>9. Masks(t)
    BY <1>0, <2>3, <2>6, <2>7 DEF Masks
  <2>10. /\ DOMAIN t.objs = DOMAIN s.objs \ {o}
         /\ \A x \in DOMAIN t.objs : t.objs[x] = s.objs[x]
         /\ \A x : x # o => (x \in t.hidden <=> x \in s.hidden) /\ (x \in t.loaded <=> x \in s.loaded)
         /\ o \in t.hidden <=> ~visible
    BY <2>2, <2>7 DEF Without
  <2>11. o \in Batched
    BY <1>0, <1>1 DEF Links, Indexed
  <2>12. Placeholders(t, recs)
    BY <1>0, <1>1, <2>7, <2>10 DEF Placeholders
  <2>13. Nodes(t, recs)
    BY <1>0, <2>7, <2>10, <2>11 DEF Nodes
  <2>14. Dark(s, recs) => Dark(t, recs)
    BY <2>3, <2>6, <2>7, <2>10 DEF Dark
  <2>15. SceneInv(t, recs)
    BY <2>6, <2>7, <2>9, <2>12, <2>13 DEF SceneInv
  <2>. QED BY <1>1, <2>8, <2>10, <2>14, <2>15 DEF ObjectSet, t
<1>2. CASE o \notin DOMAIN s.batchOf /\ o \in DOMAIN s.objs
  <2>. DEFINE v == visible /\ isLayerVisible(s, s.objs[o].layer)
  <2>1. t = [s EXCEPT !.objs[o].shown = v, !.hidden = IF v THEN @ \ {o} ELSE @ \cup {o}]
    BY <1>2 DEF setObjectVisible
  <2>2. v <=> visible /\ s.layers[LayerOf(recs, o)]
    BY <1>0, <1>2 DEF isLayerVisible, Placeholders, Nodes, Links, Indexed
  <2>3. o \notin Batched
    BY <1>0, <1>2 DEF Placeholders
  <2>. HIDE DEF v
  <2>4. /\ SameBut(s, t, {"hidden", "objs"})
        /\ t.hidden = (IF v THEN s.hidden \ {o} ELSE s.hidden \cup {o})
        /\ t.objs = [s.objs EXCEPT ![o].shown = v]
    BY <1>0, <2>1 DEF SameBut, IsScene, SceneFields
  <2>. HIDE DEF t
  <2>5. /\ t.layers = s.layers /\ t.batches = s.batches /\ t.batchOf = s.batchOf
        /\ t.index = s.index /\ t.ghosts = s.ghosts /\ t.previous = s.previous
        /\ t.loaded = s.loaded /\ IsScene(t)
    BY <2>4 DEF SameBut, SceneFields
  <2>6. /\ DOMAIN t.objs = DOMAIN s.objs
        /\ \A x \in DOMAIN s.objs : x # o => t.objs[x] = s.objs[x]
        /\ DOMAIN t.objs[o] = {"node", "shown", "layer"} /\ t.objs[o].node = s.objs[o].node
        /\ t.objs[o].layer = s.objs[o].layer /\ (t.objs[o].shown <=> v)
        /\ \A x : x # o => (x \in t.hidden <=> x \in s.hidden)
        /\ o \in t.hidden <=> ~v
    BY <1>0, <1>2, <2>4 DEF Nodes
  <2>7. Links(t, recs) /\ Masks(t)
    BY <1>0, <2>5 DEF Links, Indexed, Members, Masks
  <2>8. Geometry(t)
    <3>1. \A j : Members(t, j) = Members(s, j) /\ o \notin Members(s, j)
      BY <1>2, <2>5 DEF Members
    <3>. QED BY <1>0, <2>5, <2>6, <3>1 DEF Geometry
  <2>9. Placeholders(t, recs)
    BY <1>0, <2>3, <2>5, <2>6 DEF Placeholders
  <2>10. Nodes(t, recs)
    BY <1>0, <1>2, <2>2, <2>3, <2>5, <2>6 DEF Nodes
  <2>11. Dark(s, recs) => Dark(t, recs)
    BY <2>2, <2>5, <2>6 DEF Dark
  <2>12. SceneInv(t, recs)
    BY <2>5, <2>7, <2>8, <2>9, <2>10 DEF SceneInv
  <2>13. SameBut(s, t, {"hidden", "objs", "loaded", "batches"})
    BY <2>4 DEF SameBut
  <2>. QED BY <1>2, <2>2, <2>6, <2>11, <2>12, <2>13 DEF ObjectSet, t
<1>3. CASE o \notin DOMAIN s.batchOf /\ o \notin DOMAIN s.objs
  <2>1. t = s
    BY <1>3 DEF setObjectVisible
  <2>. HIDE DEF t
  <2>2. SameBut(s, t, {"hidden", "objs", "loaded", "batches"})
    BY <1>0, <2>1 DEF SameBut
  <2>. QED BY <1>3, <2>1, <2>2 DEF ObjectSet, t
<1>. QED BY <1>1, <1>2, <1>3

\* What updateLayer does to the layer l and the objects on it.
LayerSet(s, t, recs, l, visible) ==
  /\ SceneInv(t, recs) /\ SameBut(s, t, {"layers", "hidden", "objs", "batches"})
  /\ t.layers = [k \in DOMAIN s.layers |-> IF k = l THEN visible ELSE s.layers[k]]
  /\ Dark(s, recs) => Dark(t, recs)
  /\ DOMAIN t.objs = DOMAIN s.objs
  /\ \A x : IF x \in DOMAIN s.objs /\ x \notin Batched /\ LayerOf(recs, x) = l
            THEN x \in t.hidden <=> ~visible
            ELSE x \in t.hidden <=> x \in s.hidden

LEMMA UpdateLayerIs ==
  ASSUME NEW s, NEW recs, IsSnapshot(recs), SceneInv(s, recs), NEW mem, Backs(mem, recs),
         NEW l \in DOMAIN s.layers, l \in Layers, NEW visible \in BOOLEAN
  PROVE  LayerSet(s, updateLayer(s, l, visible, mem), recs, l, visible)
<1>. DEFINE own == {o \in DOMAIN s.objs \ DOMAIN s.batchOf : s.objs[o].layer = l}
            lays == [k \in DOMAIN s.layers |-> IF k = l THEN visible ELSE s.layers[k]]
            w == [s EXCEPT !.layers = With(@, l, visible)]
            a == [w EXCEPT !.layers[l] = visible,
                           !.hidden = IF visible THEN @ \ own ELSE @ \cup own,
                           !.objs = [o \in DOMAIN @ |->
                                       IF o \in own THEN [@[o] EXCEPT !.shown = visible]
                                       ELSE @[o]]]
            b == [a EXCEPT !.batches = [k \in DOMAIN @ |->
                                          IF k \in Prefixed[l] THEN [@[k] EXCEPT !.mask = visible]
                                          ELSE @[k]]]
            t == updateLayer(s, l, visible, mem)
<1>0. IsScene(s) /\ Links(s, recs) /\ Geometry(s) /\ Masks(s) /\ Placeholders(s, recs) /\ Nodes(s, recs)
  BY DEF SceneInv
<1>1. /\ SameBut(s, w, {"layers"}) /\ w.layers = lays
  BY <1>0 DEF SameBut, With, IsScene, SceneFields
<1>. HIDE DEF w
<1>2. /\ IsScene(w) /\ w.objs = s.objs /\ w.batchOf = s.batchOf /\ w.batches = s.batches
      /\ w.hidden = s.hidden
  BY <1>1 DEF SameBut, SceneFields
<1>3. t = IF visible THEN rebuildBatches(b, Prefixed[l], mem) ELSE b
  <2>1. t = setLayerVisible(w, l, visible, mem)
    BY DEF updateLayer, w
  <2>. HIDE DEF t
  <2>. QED BY <1>1, <1>2, <2>1 DEF setLayerVisible
<1>4. /\ SameBut(s, a, {"layers", "hidden", "objs"}) /\ a.layers = lays
      /\ a.hidden = (IF visible THEN s.hidden \ own ELSE s.hidden \cup own)
      /\ a.objs = [o \in DOMAIN s.objs |->
                     IF o \in own THEN [s.objs[o] EXCEPT !.shown = visible] ELSE s.objs[o]]
  <2>1. SameBut(w, a, {"layers", "hidden", "objs"})
    BY <1>2 DEF SameBut, IsScene, SceneFields
  <2>2. a.layers = [lays EXCEPT ![l] = visible]
    BY <1>1, <1>2 DEF IsScene, SceneFields
  <2>3. /\ a.hidden = (IF visible THEN s.hidden \ own ELSE s.hidden \cup own)
        /\ a.objs = [o \in DOMAIN s.objs |->
                       IF o \in own THEN [s.objs[o] EXCEPT !.shown = visible] ELSE s.objs[o]]
    BY <1>2 DEF IsScene, SceneFields
  <2>. HIDE DEF a
  <2>4. SameBut(s, a, {"layers", "hidden", "objs"})
    BY <1>1, <2>1 DEF SameBut
  <2>5. a.layers = lays
    BY <2>2
  <2>. QED BY <2>3, <2>4, <2>5
<1>5. \A x : x \in own <=> x \in DOMAIN s.objs /\ x \notin Batched /\ LayerOf(recs, x) = l
  BY <1>0 DEF Placeholders, Links, Indexed, Nodes
<1>6. \A x \in own : x \notin DOMAIN s.batchOf
  OBVIOUS
<1>. HIDE DEF own, a
<1>7. /\ a.batches = s.batches /\ a.batchOf = s.batchOf /\ a.index = s.index
      /\ a.ghosts = s.ghosts /\ a.previous = s.previous /\ a.loaded = s.loaded /\ IsScene(a)
  BY <1>4 DEF SameBut, SceneFields
<1>8. /\ DOMAIN a.objs = DOMAIN s.objs
      /\ \A x \in DOMAIN s.objs : x \notin own => a.objs[x] = s.objs[x]
      /\ \A x \in own : /\ DOMAIN a.objs[x] = {"node", "shown", "layer"}
                        /\ a.objs[x].node = s.objs[x].node
                        /\ a.objs[x].layer = s.objs[x].layer /\ a.objs[x].shown = visible
                        /\ x \in a.hidden <=> ~visible
      /\ \A x : x \notin own => (x \in a.hidden <=> x \in s.hidden)
  BY <1>0, <1>4, <1>5 DEF Nodes
<1>9. /\ DOMAIN a.layers = DOMAIN s.layers /\ a.layers[l] = visible
      /\ \A k \in DOMAIN s.layers : k # l => a.layers[k] = s.layers[k]
  BY <1>4
<1>10. Links(a, recs)
  BY <1>0, <1>7, <1>9 DEF Links, Indexed, Members
<1>11. Geometry(a)
  <2>1. \A j : Members(a, j) = Members(s, j)
    BY <1>7 DEF Members
  <2>2. \A j : \A x \in Members(s, j) : x \in a.hidden <=> x \in s.hidden
    BY <1>6, <1>8 DEF Members
  <2>. QED BY <1>0, <1>7, <2>1, <2>2 DEF Geometry
<1>12. Placeholders(a, recs)
  BY <1>0, <1>5, <1>7, <1>8 DEF Placeholders
<1>13. Nodes(a, recs)
  <2>1. \A o \in DOMAIN a.objs : /\ DOMAIN a.objs[o] = {"node", "shown", "layer"}
                                 /\ o \in Ids(recs)
                                 /\ a.objs[o].node <=> o \notin Batched
                                 /\ o \notin Batched => /\ a.objs[o].layer = LayerOf(recs, o)
                                                        /\ o \in a.loaded
    BY <1>0, <1>5, <1>7, <1>8 DEF Nodes
  <2>2. \A o \in Ids(recs) : o \in a.loaded /\ o \notin Batched => o \in DOMAIN a.objs \/ o \in a.hidden
    BY <1>0, <1>5, <1>7, <1>8 DEF Nodes
  <2>3. ASSUME NEW o \in DOMAIN a.objs, o \notin Batched, a.layers[LayerOf(recs, o)]
        PROVE  a.objs[o].shown <=> o \notin a.hidden
    <3>1. CASE o \in own
      BY <1>8, <3>1
    <3>2. CASE o \notin own
      <4>1. o \in Ids(recs) /\ LayerOf(recs, o) \in DOMAIN s.layers /\ LayerOf(recs, o) # l
        BY <1>0, <1>5, <1>8, <2>3, <3>2 DEF Nodes, Links, Indexed
      <4>. QED BY <1>0, <1>8, <1>9, <2>3, <3>2, <4>1 DEF Nodes
    <3>. QED BY <3>1, <3>2
  <2>4. a.ghosts = {}
    BY <1>0, <1>7 DEF Nodes
  <2>. QED BY <2>1, <2>2, <2>3, <2>4 DEF Nodes
<1>14. ASSUME Dark(s, recs), NEW o \in DOMAIN a.objs, a.objs[o].node, a.objs[o].shown
       PROVE  a.layers[LayerOf(recs, o)]
  <2>1. CASE o \in own
    BY <1>5, <1>8, <1>9, <1>14, <2>1
  <2>2. CASE o \notin own
    <3>1. o \notin Batched /\ LayerOf(recs, o) \in DOMAIN s.layers /\ LayerOf(recs, o) # l
      BY <1>0, <1>5, <1>8, <1>14, <2>2 DEF Nodes, Links, Indexed
    <3>. QED BY <1>8, <1>9, <1>14, <2>2, <3>1 DEF Dark
  <2>. QED BY <2>1, <2>2
\* In the end only the batches with the prefix of the layer differ from a.
<1>15. SUFFICES /\ SameBut(a, t, {"batches"}) /\ Links(t, recs) /\ Geometry(t)
                /\ DOMAIN t.batches = DOMAIN s.batches
                /\ \A k \in DOMAIN s.batches :
                     t.batches[k].mask = IF k \in Prefixed[l] THEN visible ELSE s.batches[k].mask
  <2>. HIDE DEF t, lays, b
  <2>1. SUFFICES ASSUME SameBut(a, t, {"batches"}), Links(t, recs), Geometry(t),
                        DOMAIN t.batches = DOMAIN s.batches,
                        \A k \in DOMAIN s.batches :
                          t.batches[k].mask = IF k \in Prefixed[l] THEN visible ELSE s.batches[k].mask
                 PROVE  LayerSet(s, t, recs, l, visible)
    BY DEF t
  <2>2. /\ t.layers = a.layers /\ t.batchOf = a.batchOf /\ t.hidden = a.hidden /\ t.objs = a.objs
        /\ t.ghosts = a.ghosts /\ t.previous = a.previous /\ t.loaded = a.loaded /\ IsScene(t)
    BY <2>1 DEF SameBut, SceneFields
  <2>3. Placeholders(t, recs)
    BY <1>12, <2>2 DEF Placeholders
  <2>4. Nodes(t, recs)
    BY <1>13, <2>2 DEF Nodes
  <2>5. ASSUME NEW k \in DOMAIN t.batches, Alone(k)
        PROVE  /\ t.layers[k] => t.batches[k].mask
               /\ Dark(s, recs) => (t.batches[k].mask => t.layers[k])
    <3>0. k \in Prefixed[l] <=> k = l
      BY <2>5, SceneAssumption DEF Alone
    <3>1. CASE k = l
      BY <1>9, <2>1, <2>2, <3>0, <3>1
    <3>2. CASE k # l
      <4>1. t.batches[k].mask = s.batches[k].mask /\ (s.layers[k] => s.batches[k].mask)
        BY <1>0, <2>1, <2>5, <3>0, <3>2 DEF Masks
      <4>2. t.layers[k] = s.layers[k]
        BY <1>0, <1>9, <2>1, <2>2, <3>2 DEF Links, Indexed
      <4>. QED BY <2>1, <2>5, <4>1, <4>2 DEF Dark
    <3>. QED BY <3>1, <3>2
  <2>6. Masks(t)
    BY <2>5 DEF Masks
  <2>7. Dark(s, recs) => Dark(t, recs)
    BY <1>14, <2>2, <2>5 DEF Dark
  <2>8. SceneInv(t, recs)
    BY <2>1, <2>2, <2>3, <2>4, <2>6 DEF SceneInv
  <2>9. SameBut(s, t, {"layers", "hidden", "objs", "batches"})
    BY <1>4, <2>1 DEF SameBut
  <2>10. \A x : IF x \in DOMAIN s.objs /\ x \notin Batched /\ LayerOf(recs, x) = l
                THEN x \in t.hidden <=> ~visible
                ELSE x \in t.hidden <=> x \in s.hidden
    BY <1>5, <1>8, <2>2
  <2>. QED BY <1>4, <1>8, <2>2, <2>7, <2>8, <2>9, <2>10 DEF LayerSet, lays
<1>16. /\ SameBut(a, b, {"batches"})
       /\ b.batches = [k \in DOMAIN s.batches |->
                         IF k \in Prefixed[l] THEN [s.batches[k] EXCEPT !.mask = visible]
                         ELSE s.batches[k]]
  BY <1>7 DEF SameBut, IsScene, SceneFields
<1>. HIDE DEF b, t
<1>17. b.batchOf = a.batchOf /\ b.hidden = a.hidden /\ b.index = a.index /\ b.layers = a.layers /\ IsScene(b)
  BY <1>16 DEF SameBut, SceneFields
<1>18. /\ DOMAIN b.batches = DOMAIN s.batches
       /\ \A k \in DOMAIN s.batches :
            /\ DOMAIN b.batches[k] = {"records", "drawn", "mask"}
            /\ b.batches[k].records = s.batches[k].records
            /\ b.batches[k].drawn = s.batches[k].drawn
            /\ b.batches[k].mask = IF k \in Prefixed[l] THEN visible ELSE s.batches[k].mask
  BY <1>0, <1>16 DEF Links
<1>19. \A k : Members(b, k) = Members(a, k)
  BY <1>17 DEF Members
<1>20. Links(b, recs)
  BY <1>7, <1>10, <1>17, <1>18, <1>19 DEF Links, Indexed
<1>21. Geometry(b)
  BY <1>7, <1>11, <1>17, <1>18, <1>19 DEF Geometry
<1>22. CASE visible
  <2>1. OthersDrawn(b, Prefixed[l])
    BY <1>21 DEF Geometry, OthersDrawn
  <2>2. Rebuilt(b, t, recs)
    BY <1>3, <1>17, <1>20, <1>22, <2>1, RebuildIs
  <2>3. SameBut(a, t, {"batches"})
    BY <1>16, <2>2 DEF SameBut, Rebuilt
  <2>. QED BY <1>18, <2>2, <2>3 DEF Rebuilt
<1>23. CASE ~visible
  <2>1. t = b
    BY <1>3, <1>23
  <2>. QED BY <1>16, <1>18, <1>20, <1>21, <2>1
<1>. QED BY <1>22, <1>23

-----------------------------------------------------------------------------
(* Lazy loading.                                                           *)

AllShown(recs) == \A i \in 1 .. Len(recs) : recs[i].visible = TRUE

DarkNodes(s, recs) ==
  \A o \in DOMAIN s.objs : s.objs[o].node /\ s.objs[o].shown => s.layers[LayerOf(recs, o)]

\* What loading and unloading keeps.
LoadKeeps(s, t, recs) ==
  /\ SameBut(s, t, {"objs", "ghosts", "loaded"})
  /\ Indexed(t, recs) /\ Nodes(t, recs)
  /\ \A o \in DOMAIN t.objs : o \in Batched => o \in DOMAIN s.objs
  /\ DarkNodes(s, recs) => DarkNodes(t, recs)

LEMMA LoadKeepsTwice ==
  ASSUME NEW s, NEW t, NEW u, NEW recs, LoadKeeps(s, t, recs), LoadKeeps(t, u, recs)
  PROVE  LoadKeeps(s, u, recs)
BY DEF LoadKeeps, SameBut

LEMMA LoadIs ==
  ASSUME NEW s, NEW recs, IsScene(s), IsSnapshot(recs), AllShown(recs), Indexed(s, recs),
         Nodes(s, recs), NEW mem, Backs(mem, recs), NEW o, NEW all
  PROVE  LoadKeeps(s, LoadObject(s, o, mem, all), recs)
<1>. DEFINE t == LoadObject(s, o, mem, all)
            rec == mem[s.index[o]]
<1>0. LoadKeeps(s, s, recs)
  BY DEF LoadKeeps, SameBut
<1>1. CASE o \in s.loaded \/ o \notin DOMAIN s.index
  <2>1. t = s
    BY <1>1 DEF LoadObject
  <2>. QED BY <1>0, <2>1
<1>2. CASE o \notin s.loaded /\ o \in DOMAIN s.index
  <2>1. o \in Ids(recs) /\ s.index[o] = Slot(recs, o)
    BY <1>2 DEF Indexed
  <2>2. rec = recs[Slot(recs, o)] /\ rec.id = o /\ rec.layer = LayerOf(recs, o) /\ rec.visible = TRUE
    BY <2>1, SlotIs DEF Backs, IsSnapshot, AllShown, LayerOf
  <2>. DEFINE skip == \/ o \in Batched
                      \/ o \in s.hidden
                      \/ o \in DOMAIN s.objs /\ ~isLayerVisible(s, s.objs[o].layer)
  <2>3. t = [(IF skip THEN s ELSE AddNode(s, rec)) EXCEPT !.loaded = @ \cup {o}]
    BY <1>2, <2>2 DEF LoadObject
  <2>. HIDE DEF t, rec
  <2>4. CASE skip
    <3>1. SameBut(s, t, {"loaded"}) /\ t.loaded = s.loaded \cup {o}
      BY <2>3, <2>4 DEF SameBut, IsScene, SceneFields
    <3>2. /\ t.objs = s.objs /\ t.ghosts = s.ghosts /\ t.layers = s.layers /\ t.hidden = s.hidden
          /\ t.index = s.index
      BY <3>1 DEF SameBut, SceneFields
    <3>3. SameBut(s, t, {"objs", "ghosts", "loaded"})
      BY <3>1 DEF SameBut
    <3>4. o \in Batched \/ o \in s.hidden \/ o \in DOMAIN s.objs
      BY <2>4
    <3>5. Nodes(t, recs)
      BY <3>1, <3>2, <3>4 DEF Nodes
    <3>6. Indexed(t, recs) /\ (DarkNodes(s, recs) => DarkNodes(t, recs))
      BY <3>2 DEF Indexed, DarkNodes
    <3>. QED BY <3>2, <3>3, <3>5, <3>6 DEF LoadKeeps, t
  <2>5. CASE ~skip
    <3>1. o \notin Batched /\ o \notin s.hidden /\ o \notin DOMAIN s.objs
      BY <1>2, <2>5 DEF Nodes
    <3>. DEFINE v == isLayerVisible(s, rec.layer) /\ rec.visible
                node == [node |-> TRUE, shown |-> v, layer |-> rec.layer]
                a == AddNode(s, rec)
    <3>2. /\ SameBut(s, a, {"objs", "ghosts"}) /\ a.ghosts = s.ghosts
          /\ a.objs = With(s.objs, o, node)
      BY <2>2, <3>1 DEF AddNode, SameBut, IsScene, SceneFields
    <3>3. t = [a EXCEPT !.loaded = @ \cup {o}]
      BY <2>3, <2>5
    <3>. HIDE DEF a, skip
    <3>4. a.loaded = s.loaded /\ IsScene(a)
      BY <3>2 DEF SameBut, SceneFields
    <3>5. SameBut(a, t, {"loaded"}) /\ t.loaded = s.loaded \cup {o}
      BY <3>3, <3>4 DEF SameBut, IsScene, SceneFields
    <3>6. SameBut(s, t, {"objs", "ghosts", "loaded"})
      BY <3>2, <3>5 DEF SameBut
    <3>7. /\ t.objs = a.objs /\ t.ghosts = s.ghosts /\ t.layers = s.layers /\ t.hidden = s.hidden
          /\ t.index = s.index
      BY <3>2, <3>5 DEF SameBut, SceneFields
    <3>8. v <=> s.layers[LayerOf(recs, o)]
      BY <2>1, <2>2 DEF Indexed, isLayerVisible
    <3>9. /\ DOMAIN node = {"node", "shown", "layer"} /\ node.node = TRUE
          /\ node.shown = v /\ node.layer = LayerOf(recs, o)
      BY <2>2
    <3>. HIDE DEF node, v
    <3>10. /\ DOMAIN t.objs = DOMAIN s.objs \cup {o} /\ t.objs[o] = node
           /\ \A x \in DOMAIN s.objs : x # o => t.objs[x] = s.objs[x]
      BY <3>2, <3>7 DEF With
    <3>11. Nodes(t, recs)
      BY <2>1, <3>1, <3>5, <3>7, <3>8, <3>9, <3>10 DEF Nodes
    <3>12. DarkNodes(s, recs) => DarkNodes(t, recs)
      BY <3>7, <3>8, <3>9, <3>10 DEF DarkNodes
    <3>13. Indexed(t, recs)
      BY <3>7 DEF Indexed
    <3>14. \A x \in DOMAIN t.objs : x \in Batched => x \in DOMAIN s.objs
      BY <3>1, <3>10
    <3>. QED BY <3>6, <3>11, <3>12, <3>13, <3>14 DEF LoadKeeps, t
  <2>. QED BY <2>4, <2>5
<1>. QED BY <1>1, <1>2

\* The loop of LoadObjects with the records c[5].
LoadKept(c, i, t) == LoadKeeps(c[1], t, c[5])

KeptLoop == INSTANCE Loops WITH Step <- LoadStep, Holds <- LoadKept

LEMMA LoadAllIs ==
  ASSUME NEW s, NEW recs, IsScene(s), IsSnapshot(recs), AllShown(recs), Indexed(s, recs),
         Nodes(s, recs), NEW mem, Backs(mem, recs), NEW S, NEW all
  PROVE  LoadKeeps(s, LoadObjects(s, S, mem, all), recs)
<1>. DEFINE c == <<s, S, mem, all, recs>>
<1>1. LoadKept(c, 0, s)
  BY DEF LoadKept, LoadKeeps, SameBut
<1>2. ASSUME NEW b, NEW i, NEW o, LoadKept(c, i - 1, b) PROVE LoadKept(c, i, LoadStep(c, b, o))
  <2>1. LoadKeeps(s, b, recs)
    BY <1>2 DEF LoadKept
  <2>2. IsScene(b) /\ Indexed(b, recs) /\ Nodes(b, recs)
    BY <2>1 DEF LoadKeeps, SameBut
  <2>3. LoadKeeps(b, LoadObject(b, o, mem, all), recs)
    BY <2>2, LoadIs
  <2>4. LoadKeeps(s, LoadObject(b, o, mem, all), recs)
    BY <2>1, <2>3, LoadKeepsTwice
  <2>. QED BY <2>1, <2>4 DEF LoadKept, LoadStep
<1>3. LoadObjects(s, S, mem, all) = KeptLoop!Loop(c, s, Nearest)
  BY DEF LoadObjects, LoadStep, KeptLoop!Loop, FoldLeft, KeptLoop!FoldLeft, MapThenFoldSet,
         KeptLoop!MapThenFoldSet, Max, KeptLoop!Max
<1>4. Nearest \in Seq(Objects)
  BY SceneAssumption
<1>5. LoadKept(c, Len(Nearest), KeptLoop!Loop(c, s, Nearest))
  <2>. HIDE DEF c
  <2>. QED BY <1>1, <1>2, <1>4, KeptLoop!LoopKeeps
<1>. QED BY <1>3, <1>5 DEF LoadKept

LEMMA UnloadIs ==
  ASSUME NEW s, NEW recs, IsScene(s), Indexed(s, recs), Nodes(s, recs), NEW keep
  PROVE  LoadKeeps(s, Unload(s, keep), recs)
<1>. DEFINE t == Unload(s, keep)
            gone == (s.loaded \ keep) \cap DOMAIN s.objs
<1>1. /\ SameBut(s, t, {"objs", "loaded"}) /\ t.objs = Without(s.objs, gone)
      /\ t.loaded = s.loaded \ gone
  BY DEF Unload, SameBut, IsScene, SceneFields
<1>. HIDE DEF t
<1>2. /\ t.ghosts = s.ghosts /\ t.layers = s.layers /\ t.hidden = s.hidden /\ t.index = s.index
  BY <1>1 DEF SameBut, SceneFields
<1>3. SameBut(s, t, {"objs", "ghosts", "loaded"})
  BY <1>1 DEF SameBut
<1>4. /\ DOMAIN t.objs = DOMAIN s.objs \ gone
      /\ \A x \in DOMAIN t.objs : t.objs[x] = s.objs[x]
  BY <1>1 DEF Without
<1>5. gone \subseteq DOMAIN s.objs
  OBVIOUS
<1>. HIDE DEF gone
<1>6. Nodes(t, recs)
  BY <1>1, <1>2, <1>4, <1>5 DEF Nodes
<1>7. Indexed(t, recs) /\ (DarkNodes(s, recs) => DarkNodes(t, recs))
  BY <1>2, <1>4 DEF Indexed, DarkNodes
<1>. QED BY <1>3, <1>4, <1>6, <1>7 DEF LoadKeeps, t

LEMMA EnsureKeeps ==
  ASSUME NEW s, NEW recs, IsScene(s), IsSnapshot(recs), AllShown(recs), Indexed(s, recs),
         Nodes(s, recs), NEW mem, Backs(mem, recs), NEW total, NEW view
  PROVE  LoadKeeps(s, ensureObjectsInFrustum(s, total, view, mem), recs)
<1>1. LoadKeeps(s, s, recs)
  BY DEF LoadKeeps, SameBut
<1>2. \A S : LoadKeeps(s, LoadObjects(s, S, mem, TRUE), recs)
  BY LoadAllIs
<1>3. ASSUME NEW keep, NEW S PROVE LoadKeeps(s, LoadObjects(Unload(s, keep), S, mem, FALSE), recs)
  <2>1. PICK t : t = Unload(s, keep) /\ LoadKeeps(s, t, recs)
    BY UnloadIs
  <2>2. IsScene(t) /\ Indexed(t, recs) /\ Nodes(t, recs)
    BY <2>1 DEF LoadKeeps, SameBut
  <2>3. LoadKeeps(t, LoadObjects(t, S, mem, FALSE), recs)
    BY <2>2, LoadAllIs
  <2>. QED BY <2>1, <2>3, LoadKeepsTwice
<1>. QED BY <1>1, <1>2, <1>3 DEF ensureObjectsInFrustum

\* Loading keeps the invariant of a scene.
LEMMA EnsureIs ==
  ASSUME NEW s, NEW recs, IsSnapshot(recs), AllShown(recs), SceneInv(s, recs), NEW mem,
         Backs(mem, recs), NEW total, NEW view
  PROVE  LET t == ensureObjectsInFrustum(s, total, view, mem)
         IN  /\ SceneInv(t, recs) /\ SameBut(s, t, {"objs", "ghosts", "loaded"})
             /\ Dark(s, recs) => Dark(t, recs)
<1>. DEFINE t == ensureObjectsInFrustum(s, total, view, mem)
<1>0. IsScene(s) /\ Links(s, recs) /\ Geometry(s) /\ Masks(s) /\ Placeholders(s, recs) /\ Nodes(s, recs)
  BY DEF SceneInv
<1>1. LoadKeeps(s, t, recs)
  BY <1>0, EnsureKeeps DEF Links
<1>. HIDE DEF t
<1>2. /\ SameBut(s, t, {"objs", "ghosts", "loaded"}) /\ Nodes(t, recs)
      /\ \A o \in DOMAIN t.objs : o \in Batched => o \in DOMAIN s.objs
      /\ DarkNodes(s, recs) => DarkNodes(t, recs)
  BY <1>1 DEF LoadKeeps
<1>3. /\ t.layers = s.layers /\ t.batches = s.batches /\ t.batchOf = s.batchOf
      /\ t.index = s.index /\ t.hidden = s.hidden /\ t.previous = s.previous /\ IsScene(t)
  BY <1>2 DEF SameBut, SceneFields
<1>4. Links(t, recs) /\ Geometry(t) /\ Masks(t)
  BY <1>0, <1>3 DEF Links, Indexed, Geometry, Masks, Members
<1>5. Placeholders(t, recs)
  BY <1>0, <1>2, <1>3 DEF Placeholders
<1>6. Dark(s, recs) => Dark(t, recs)
  BY <1>2, <1>3 DEF Dark, DarkNodes
<1>. QED BY <1>2, <1>3, <1>4, <1>5, <1>6 DEF SceneInv, t

-----------------------------------------------------------------------------
(* Selection.                                                              *)

\* A scene whose batches are the same but for what they draw, whose hidden wires
\* may differ, and with another highlight.
Reselected(s, t) ==
  /\ SameBut(s, t, {"hidden", "batches", "glowing", "previous", "selected"})
  /\ DOMAIN t.batches = DOMAIN s.batches
  /\ \A k \in DOMAIN s.batches : t.batches[k].mask = s.batches[k].mask
  /\ \A x : x \notin DOMAIN s.batchOf => (x \in t.hidden <=> x \in s.hidden)

LEMMA ReselectedKeeps ==
  ASSUME NEW s, NEW t, NEW recs, SceneInv(s, recs), Reselected(s, t)
  PROVE  /\ Masks(t) /\ Nodes(t, recs)
         /\ Dark(s, recs) => Dark(t, recs)
         /\ \A o \in DOMAIN t.objs : o \in Batched => o \in DOMAIN t.batchOf
         /\ \A o \in Ids(recs) : o \in Batched /\ o \notin DOMAIN t.batchOf => o \in t.hidden
<1>0. Links(s, recs) /\ Masks(s) /\ Placeholders(s, recs) /\ Nodes(s, recs)
  BY DEF SceneInv
<1>1. /\ t.layers = s.layers /\ t.batchOf = s.batchOf /\ t.objs = s.objs /\ t.ghosts = s.ghosts
      /\ t.loaded = s.loaded
  BY DEF Reselected, SameBut, SceneFields
<1>2. \A x : x \notin DOMAIN s.batchOf => (x \in t.hidden <=> x \in s.hidden)
  BY DEF Reselected
<1>3. \A x : x \notin Batched => (x \in t.hidden <=> x \in s.hidden)
  BY <1>0, <1>2 DEF Links
<1>4. Masks(t)
  BY <1>0, <1>1 DEF Masks, Reselected
<1>5. Nodes(t, recs)
  BY <1>0, <1>1, <1>3 DEF Nodes
<1>6. Dark(s, recs) => Dark(t, recs)
  BY <1>1 DEF Dark, Reselected
<1>. QED BY <1>0, <1>1, <1>2, <1>4, <1>5, <1>6 DEF Placeholders

\* Hiding or showing one wire and rebuilding its batch.
LEMMA RehideIs ==
  ASSUME NEW s, NEW recs, IsSnapshot(recs), IsScene(s), Links(s, recs), Geometry(s),
         NEW mem, Backs(mem, recs), NEW o \in DOMAIN s.batchOf, NEW r,
         SameBut(s, r, {"hidden", "glowing", "previous", "selected"}),
         \A x : x # o => (x \in r.hidden <=> x \in s.hidden)
  PROVE  LET t == rebuildBatches(r, {s.batchOf[o]}, mem)
         IN  /\ Reselected(s, t) /\ Links(t, recs) /\ Geometry(t)
             /\ t.hidden = r.hidden /\ t.previous = r.previous /\ t.glowing = r.glowing
<1>. DEFINE k == s.batchOf[o]
            t == rebuildBatches(r, {k}, mem)
<1>1. r.batches = s.batches /\ r.batchOf = s.batchOf /\ r.index = s.index /\ r.layers = s.layers /\ IsScene(r)
  BY DEF SameBut, SceneFields
<1>2. Links(r, recs)
  BY <1>1 DEF Links, Indexed, Members
<1>3. \A j : Members(r, j) = Members(s, j)
  BY <1>1 DEF Members
<1>4. OthersDrawn(r, {k})
  <2>1. ASSUME NEW j \in DOMAIN s.batches, j # k
        PROVE  s.batches[j].drawn \ {Nameless} = Members(s, j) \ r.hidden
    <3>1. s.batches[j].drawn \ {Nameless} = Members(s, j) \ s.hidden /\ o \notin Members(s, j)
      BY <2>1 DEF Geometry, Members
    <3>. HIDE DEF k
    <3>. QED BY <3>1
  <2>. HIDE DEF k
  <2>. QED BY <1>1, <1>3, <2>1 DEF OthersDrawn
<1>5. Rebuilt(r, t, recs)
  <2>. HIDE DEF k
  <2>. QED BY <1>1, <1>2, <1>4, RebuildIs
<1>. HIDE DEF t
<1>6. /\ SameBut(r, t, {"batches"}) /\ Links(t, recs) /\ Geometry(t)
      /\ DOMAIN t.batches = DOMAIN s.batches
      /\ \A j \in DOMAIN s.batches : t.batches[j].mask = s.batches[j].mask
  BY <1>1, <1>5 DEF Rebuilt
<1>7. t.hidden = r.hidden /\ t.previous = r.previous /\ t.glowing = r.glowing
  BY <1>6 DEF SameBut, SceneFields
<1>8. SameBut(s, t, {"hidden", "batches", "glowing", "previous", "selected"})
  BY <1>6 DEF SameBut
<1>9. Reselected(s, t)
  BY <1>6, <1>7, <1>8 DEF Reselected
<1>. QED BY <1>6, <1>7, <1>9 DEF t

\* What was selected is back in its batch.
LEMMA DeselectIs ==
  ASSUME NEW s, NEW recs, IsSnapshot(recs), SceneInv(s, recs), NEW mem, Backs(mem, recs)
  PROVE  LET t == Deselected(s, mem)
         IN  /\ SceneInv(t, recs) /\ Reselected(s, t) /\ t.previous = None
             /\ \A x \in t.hidden : x \in s.hidden /\ (x \in DOMAIN s.batchOf => x # s.previous)
<1>. DEFINE t == Deselected(s, mem)
            a == [s EXCEPT !.glowing = {}, !.previous = None]
            r == [a EXCEPT !.hidden = @ \ {s.previous}]
<1>0. IsScene(s) /\ Links(s, recs) /\ Geometry(s) /\ Masks(s) /\ Placeholders(s, recs) /\ Nodes(s, recs)
  BY DEF SceneInv
<1>1. t = IF s.previous \in DOMAIN s.batchOf THEN rebuildBatches(r, {s.batchOf[s.previous]}, mem) ELSE a
  BY DEF Deselected, rebuildBatch
<1>2. /\ SameBut(s, a, {"glowing", "previous"}) /\ a.previous = None
      /\ SameBut(s, r, {"hidden", "glowing", "previous", "selected"}) /\ r.previous = None
      /\ r.hidden = s.hidden \ {s.previous}
  BY <1>0 DEF SameBut, IsScene, SceneFields
<1>. HIDE DEF a, r, t
<1>3. /\ Reselected(s, t) /\ Links(t, recs) /\ Geometry(t) /\ t.previous = None
      /\ \A x \in t.hidden : x \in s.hidden /\ (x \in DOMAIN s.batchOf => x # s.previous)
  <2>1. CASE s.previous \in DOMAIN s.batchOf
    BY <1>0, <1>1, <1>2, <2>1, RehideIs
  <2>2. CASE s.previous \notin DOMAIN s.batchOf
    <3>1. t = a
      BY <1>1, <2>2
    <3>2. /\ t.layers = s.layers /\ t.batches = s.batches /\ t.batchOf = s.batchOf
          /\ t.index = s.index /\ t.hidden = s.hidden
      BY <1>2, <3>1 DEF SameBut, SceneFields
    <3>3. Links(t, recs) /\ Geometry(t)
      BY <1>0, <3>2 DEF Links, Indexed, Geometry, Members
    <3>4. Reselected(s, t)
      BY <1>2, <3>1, <3>2 DEF Reselected, SameBut
    <3>. QED BY <1>2, <2>2, <3>1, <3>2, <3>3, <3>4
  <2>. QED BY <2>1, <2>2
<1>4. /\ Masks(t) /\ Nodes(t, recs)
      /\ \A o \in DOMAIN t.objs : o \in Batched => o \in DOMAIN t.batchOf
      /\ \A o \in Ids(recs) : o \in Batched /\ o \notin DOMAIN t.batchOf => o \in t.hidden
  BY <1>3, ReselectedKeeps
<1>5. t.objs = s.objs /\ t.batchOf = s.batchOf /\ IsScene(t)
  BY <1>3 DEF Reselected, SameBut, SceneFields
<1>6. \A o \in DOMAIN t.objs : o \in Batched => o \notin t.hidden
  BY <1>0, <1>3, <1>5 DEF Placeholders
<1>7. Placeholders(t, recs)
  BY <1>4, <1>6 DEF Placeholders
<1>. QED BY <1>3, <1>4, <1>5, <1>7 DEF SceneInv, t

\* The new selection is hidden in its batch, the old one is not, unless it is the same.
LEMMA SelectIs ==
  ASSUME NEW s, NEW recs, IsSnapshot(recs), SceneInv(s, recs), NEW mem, Backs(mem, recs), NEW o
  PROVE  LET t == setSelectedObject(s, o, mem)
         IN  /\ SceneInv(t, recs) /\ Reselected(s, t)
             /\ \A x \in t.hidden : \/ x = o /\ x \in Batched
                                    \/ x \in s.hidden /\ (x \in DOMAIN s.batchOf => x # s.previous)
<1>. DEFINE t == setSelectedObject(s, o, mem)
            d == Deselected(s, mem)
            r == [d EXCEPT !.hidden = @ \cup {o}]
            u == rebuildBatches(r, {d.batchOf[o]}, mem)
            Glow(w) == [w EXCEPT !.previous = o, !.selected = o, !.glowing = {o}]
<1>1. /\ SceneInv(d, recs) /\ Reselected(s, d) /\ d.previous = None
      /\ \A x \in d.hidden : x \in s.hidden /\ (x \in DOMAIN s.batchOf => x # s.previous)
  BY DeselectIs
<1>2. t = IF o = None THEN [d EXCEPT !.selected = None]
          ELSE IF o \in DOMAIN d.batchOf THEN Glow(u)
          ELSE IF o \in DOMAIN d.objs /\ d.objs[o].node THEN Glow(d)
          ELSE d
  BY DEF setSelectedObject, rebuildBatch
<1>. HIDE DEF d, t
<1>3. IsScene(d) /\ Links(d, recs) /\ Geometry(d) /\ Masks(d) /\ Placeholders(d, recs) /\ Nodes(d, recs)
  BY <1>1 DEF SceneInv
<1>4. d.batchOf = s.batchOf
  BY <1>1 DEF Reselected, SameBut, SceneFields
\* It is enough to compare with d.
<1>5. ASSUME Reselected(d, t), Links(t, recs), Geometry(t),
             \A x \in t.hidden : x \in d.hidden \/ (x = o /\ x \in Batched),
             \A x \in t.hidden : x \in d.hidden \/ x = t.previous
      PROVE  /\ SceneInv(t, recs) /\ Reselected(s, t)
             /\ \A x \in t.hidden : \/ x = o /\ x \in Batched
                                    \/ x \in s.hidden /\ (x \in DOMAIN s.batchOf => x # s.previous)
  <2>1. /\ Masks(t) /\ Nodes(t, recs)
        /\ \A x \in DOMAIN t.objs : x \in Batched => x \in DOMAIN t.batchOf
        /\ \A x \in Ids(recs) : x \in Batched /\ x \notin DOMAIN t.batchOf => x \in t.hidden
    BY <1>1, <1>5, ReselectedKeeps
  <2>2. t.objs = d.objs /\ IsScene(t)
    BY <1>5 DEF Reselected, SameBut, SceneFields
  <2>3. \A x \in DOMAIN t.objs : x \in Batched => x \notin t.hidden \/ x = t.previous
    <3>1. \A x \in DOMAIN d.objs : x \in Batched => x \notin d.hidden \/ x = None
      BY <1>1, <1>3 DEF Placeholders
    <3>2. \A x \in Batched : x # None
      BY SceneAssumption
    <3>. QED BY <1>5, <2>2, <3>1, <3>2
  <2>4. Placeholders(t, recs)
    BY <2>1, <2>3 DEF Placeholders
  <2>5. Reselected(s, t)
    BY <1>1, <1>4, <1>5 DEF Reselected, SameBut
  <2>. QED BY <1>1, <1>5, <2>1, <2>2, <2>4, <2>5 DEF SceneInv
<1>6. ASSUME NEW w, SameBut(d, w, {"glowing", "previous", "selected"}), t = w
      PROVE  Reselected(d, t) /\ Links(t, recs) /\ Geometry(t) /\ t.hidden = d.hidden
  <2>1. /\ t.layers = d.layers /\ t.batches = d.batches /\ t.batchOf = d.batchOf
        /\ t.index = d.index /\ t.hidden = d.hidden
    BY <1>6 DEF SameBut, SceneFields
  <2>2. Links(t, recs) /\ Geometry(t)
    BY <1>3, <2>1 DEF Links, Indexed, Geometry, Members
  <2>3. Reselected(d, t)
    BY <1>6, <2>1 DEF Reselected, SameBut
  <2>. QED BY <2>1, <2>2, <2>3
<1>7. CASE o # None /\ o \in DOMAIN d.batchOf
  <2>1. t = Glow(u)
    BY <1>2, <1>7
  <2>2. /\ SameBut(d, r, {"hidden", "glowing", "previous", "selected"})
        /\ r.hidden = d.hidden \cup {o}
    BY <1>3 DEF SameBut, IsScene, SceneFields
  <2>. HIDE DEF r
  <2>3. Reselected(d, u) /\ Links(u, recs) /\ Geometry(u) /\ u.hidden = r.hidden
    BY <1>3, <1>7, <2>2, RehideIs
  <2>. HIDE DEF u
  <2>4. IsScene(u)
    BY <2>3 DEF Reselected, SameBut
  <2>5. SameBut(u, t, {"glowing", "previous", "selected"}) /\ t.previous = o
    BY <2>1, <2>4 DEF SameBut, IsScene, SceneFields
  <2>6. /\ t.layers = u.layers /\ t.batches = u.batches /\ t.batchOf = u.batchOf
        /\ t.index = u.index /\ t.hidden = u.hidden
    BY <2>5 DEF SameBut, SceneFields
  <2>7. Links(t, recs) /\ Geometry(t)
    BY <2>3, <2>6 DEF Links, Indexed, Geometry, Members
  <2>8. Reselected(d, t)
    BY <2>3, <2>5, <2>6 DEF Reselected, SameBut
  <2>9. o \in Batched
    BY <1>3, <1>7 DEF Links
  <2>10. \A x \in t.hidden : x \in d.hidden \/ x = o
    BY <2>2, <2>3, <2>6
  <2>. QED BY <1>5, <2>5, <2>7, <2>8, <2>9, <2>10 DEF t
<1>8. CASE ~(o # None /\ o \in DOMAIN d.batchOf)
  <2>1. PICK w : SameBut(d, w, {"glowing", "previous", "selected"}) /\ t = w
    <3>1. /\ SameBut(d, d, {"glowing", "previous", "selected"})
          /\ SameBut(d, Glow(d), {"glowing", "previous", "selected"})
          /\ SameBut(d, [d EXCEPT !.selected = None], {"glowing", "previous", "selected"})
      BY <1>3 DEF SameBut, IsScene, SceneFields
    <3>. HIDE DEF Glow, u
    <3>. QED BY <1>2, <1>8, <3>1
  <2>2. Reselected(d, t) /\ Links(t, recs) /\ Geometry(t) /\ t.hidden = d.hidden
    BY <1>6, <2>1
  <2>. QED BY <1>5, <2>2 DEF t
<1>. QED BY <1>7, <1>8

-----------------------------------------------------------------------------
(* Loading a snapshot.                                                     *)

\* The batches of a snapshot: every wire that is not hidden is in one.
LEMMA BuildIs ==
  ASSUME NEW s, NEW recs, IsScene(s), IsSnapshot(recs), Indexed(s, recs), Nodes(s, recs),
         \A o \in DOMAIN s.objs : o \notin Batched
  PROVE  LET t == buildBatches(s, recs)
         IN  SceneInv(t, recs) /\ SameBut(s, t, {"batches", "batchOf", "objs"})
<1>. DEFINE slots == {i \in 1 .. Len(recs) : /\ recs[i].id \in Batched \ s.hidden
                                             /\ recs[i].layer \in DOMAIN s.layers}
            on(k) == {i \in slots : recs[i].layer = k}
            layers(o) == {recs[i].layer : i \in {j \in slots : recs[j].id = o}}
            last == [o \in {recs[i].id : i \in slots} |-> CHOOSE k \in layers(o) : TRUE]
            first(o) == CHOOSE k \in layers(o) : k = last[o] => layers(o) = {k}
            t == buildBatches(s, recs)
<1>0. recs \in Seq(ObjectRecord) /\ DistinctIds(recs)
  BY DEF IsSnapshot
<1>1. /\ \A o \in Ids(recs) : Slot(recs, o) \in 1 .. Len(recs) /\ recs[Slot(recs, o)].id = o
      /\ \A i \in 1 .. Len(recs) : recs[i].id \in Ids(recs)
  BY <1>0, SlotIs
<1>1a. \A i \in 1 .. Len(recs) : recs[i].id # Nameless => Slot(recs, recs[i].id) = i
  BY <1>0, <1>1 DEF DistinctIds
<1>2. /\ SameBut(s, t, {"batches", "batchOf", "objs"})
      /\ t.batches = [k \in {recs[i].layer : i \in slots} |->
                        [records |-> [i \in on(k) |-> s.index[recs[i].id]],
                         drawn |-> {recs[i].id : i \in on(k)},
                         mask |-> TRUE]]
      /\ t.batchOf = last
      /\ t.objs = [o \in DOMAIN s.objs \cup DOMAIN last |->
                     IF o \in DOMAIN s.objs THEN s.objs[o]
                     ELSE [node |-> FALSE, shown |-> TRUE, layer |-> first(o)]]
  BY DEF buildBatches, SameBut, IsScene, SceneFields
<1>. HIDE DEF t, first
<1>3. /\ t.layers = s.layers /\ t.index = s.index /\ t.hidden = s.hidden /\ t.loaded = s.loaded
      /\ t.ghosts = s.ghosts /\ IsScene(t)
  BY <1>2 DEF SameBut, SceneFields
<1>4. \A i : i \in slots <=> i \in 1 .. Len(recs) /\ recs[i].id \in Batched /\ recs[i].id \notin s.hidden
  BY DEF Indexed
<1>. HIDE DEF slots
<1>5. \A o : o \in DOMAIN last <=> o \in Ids(recs) /\ o \in Batched /\ o \notin s.hidden
  BY <1>1, <1>4
<1>6. ASSUME NEW o \in DOMAIN last
      PROVE  /\ last[o] \in {recs[i].layer : i \in slots}
             /\ o # Nameless => last[o] = LayerOf(recs, o) /\ Slot(recs, o) \in slots
  <2>1. Slot(recs, o) \in slots /\ recs[Slot(recs, o)].id = o
    BY <1>1, <1>4, <1>5
  <2>2. last[o] \in layers(o)
    <3>1. layers(o) # {}
      BY <2>1
    <3>2. last[o] = CHOOSE k \in layers(o) : TRUE
      OBVIOUS
    <3>. HIDE DEF layers, last
    <3>. QED BY <3>1, <3>2
  <2>. HIDE DEF last
  <2>3. PICK i \in slots : recs[i].id = o /\ recs[i].layer = last[o]
    BY <2>2
  <2>4. o # Nameless => i = Slot(recs, o)
    BY <1>1a, <1>4, <2>3
  <2>. QED BY <2>1, <2>3, <2>4 DEF LayerOf
<1>. HIDE DEF last, layers
<1>7. ASSUME NEW k, NEW i \in on(k), recs[i].id # Nameless
      PROVE  recs[i].id \in Members(t, k)
  <2>1. /\ recs[i].id \in Ids(recs) /\ Slot(recs, recs[i].id) = i /\ recs[i].layer = k
        /\ recs[i].id \in DOMAIN last
    BY <1>1, <1>1a, <1>4, <1>5, <1>7
  <2>. QED BY <1>2, <1>6, <1>7, <2>1 DEF Members, LayerOf
<1>8. ASSUME NEW k, NEW o \in Members(t, k)
      PROVE  /\ Slot(recs, o) \in on(k) /\ recs[Slot(recs, o)].id = o
             /\ o # Nameless /\ o \notin s.hidden
  <2>1. o \in DOMAIN last /\ o # Nameless /\ last[o] = k
    BY <1>2, <1>8 DEF Members
  <2>. QED BY <1>1, <1>5, <1>6, <2>1 DEF LayerOf
<1>9. ASSUME NEW k \in DOMAIN t.batches
      PROVE  /\ k \in DOMAIN s.layers
             /\ DOMAIN t.batches[k] = {"records", "drawn", "mask"}
             /\ \A p \in Range(t.batches[k].records) : /\ p \in 1 .. Len(recs)
                                                       /\ recs[p].id \in Members(t, k) \cup {Nameless}
             /\ \A o \in Members(t, k) : Slot(recs, o) \in Range(t.batches[k].records)
             /\ t.batches[k].drawn \ {Nameless} = Members(t, k) \ t.hidden
             /\ t.batches[k].mask = TRUE
  <2>1. /\ DOMAIN t.batches[k] = {"records", "drawn", "mask"}
        /\ t.batches[k].records = [i \in on(k) |-> s.index[recs[i].id]]
        /\ t.batches[k].drawn = {recs[i].id : i \in on(k)}
        /\ t.batches[k].mask = TRUE
    BY <1>2, <1>9
  <2>2. k \in DOMAIN s.layers
    <3>1. PICK i \in slots : recs[i].layer = k
      BY <1>2, <1>9
    <3>. QED BY <1>4, <3>1 DEF Indexed
  <2>3. \A i \in on(k) : i \in 1 .. Len(recs)
    BY <1>4
  <2>. HIDE DEF on
  <2>4. \A i \in on(k) : s.index[recs[i].id] = Slot(recs, recs[i].id)
    BY <1>1, <2>3 DEF Indexed
  <2>5. ASSUME NEW p \in Range(t.batches[k].records)
        PROVE  p \in 1 .. Len(recs) /\ recs[p].id \in Members(t, k) \cup {Nameless}
    <3>1. PICK i \in on(k) : p = Slot(recs, recs[i].id)
      BY <2>1, <2>4, <2>5 DEF Range
    <3>. QED BY <1>1, <1>7, <2>3, <3>1
  <2>6. ASSUME NEW o \in Members(t, k) PROVE Slot(recs, o) \in Range(t.batches[k].records)
    BY <1>8, <2>1, <2>4, <2>6 DEF Range
  <2>7. ASSUME NEW o PROVE o \in t.batches[k].drawn /\ o # Nameless <=> o \in Members(t, k) /\ o \notin t.hidden
    <3>1. ASSUME NEW i \in on(k), o = recs[i].id, o # Nameless PROVE o \in Members(t, k)
      BY <1>7, <3>1
    <3>2. o \in Members(t, k) => o \in t.batches[k].drawn /\ o # Nameless /\ o \notin t.hidden
      BY <1>3, <1>8, <2>1
    <3>. QED BY <1>3, <1>8, <2>1, <3>1, <3>2
  <2>8. t.batches[k].drawn \ {Nameless} = Members(t, k) \ t.hidden
    BY <2>7
  <2>. QED BY <2>1, <2>2, <2>5, <2>6, <2>8
<1>10. ASSUME NEW o \in DOMAIN t.batchOf
       PROVE  /\ o \in Batched /\ o \in Ids(recs)
              /\ o # Nameless => t.batchOf[o] = LayerOf(recs, o)
              /\ t.batchOf[o] \in DOMAIN t.batches
  BY <1>2, <1>5, <1>6
<1>11. Links(t, recs)
  <2>1. Indexed(t, recs)
    BY <1>3 DEF Indexed
  <2>. QED BY <1>3, <1>9, <1>10, <2>1 DEF Links
<1>12. Geometry(t) /\ Masks(t)
  BY <1>9 DEF Geometry, Masks
<1>13. /\ DOMAIN t.objs = DOMAIN s.objs \cup DOMAIN t.batchOf
       /\ \A o \in DOMAIN s.objs : t.objs[o] = s.objs[o]
       /\ \A o \in DOMAIN t.batchOf : /\ o \notin DOMAIN s.objs
                                      /\ DOMAIN t.objs[o] = {"node", "shown", "layer"}
                                      /\ t.objs[o].node = FALSE
  BY <1>2, <1>5
<1>14. Placeholders(t, recs)
  BY <1>2, <1>3, <1>5, <1>13 DEF Placeholders
<1>15. Nodes(t, recs)
  BY <1>3, <1>10, <1>13 DEF Nodes
<1>. QED BY <1>2, <1>3, <1>11, <1>12, <1>14, <1>15 DEF SceneInv, t

\* The scene after loadScene.
LEMMA LoadSceneIs ==
  ASSUME NEW s, NEW recs, IsSnapshot(recs), AllShown(recs), NEW layers,
         \A i \in 1 .. Len(recs) : recs[i].layer \in DOMAIN layers,
         NEW mem, Backs(mem, recs), NEW view, NEW fitted
  PROVE  LET t == LoadedScene(s, recs, layers, view, fitted, mem)
         IN  SceneInv(t, recs) /\ t.layers = layers
<1>. DEFINE fresh == [clear(s) EXCEPT
                        !.layers = layers,
                        !.loaded = {},
                        !.index = [o \in Ids(recs) |-> Slot(recs, o)],
                        !.spatial = IF recs = <<>> THEN @ ELSE [i \in 1 .. Len(recs) |-> recs[i].id]]
            a == ensureObjectsInFrustum(fresh, Len(recs), view, mem)
            b == buildBatches(a, recs)
            d == setSelectedObject(b, None, mem)
            t == ensureObjectsInFrustum(d, Len(recs), fitted, mem)
<1>1. loadSnapshot(s, recs, layers, view, mem) = b
  BY DEF loadSnapshot
<1>2. /\ IsScene(fresh) /\ fresh.layers = layers /\ fresh.loaded = {} /\ fresh.objs = <<>>
      /\ fresh.ghosts = {}
      /\ fresh.index = [o \in Ids(recs) |-> Slot(recs, o)]
  BY DEF clear, EmptyScene, IsScene, SceneFields
<1>. HIDE DEF fresh
<1>3. Indexed(fresh, recs) /\ Nodes(fresh, recs)
  <2>1. \A o \in Ids(recs) : LayerOf(recs, o) \in DOMAIN layers
    BY SlotIs DEF IsSnapshot, LayerOf
  <2>. QED BY <1>2, <2>1 DEF Indexed, Nodes
<1>4. LoadKeeps(fresh, a, recs)
  BY <1>2, <1>3, EnsureKeeps
<1>. HIDE DEF a
<1>5. /\ IsScene(a) /\ Indexed(a, recs) /\ Nodes(a, recs) /\ a.layers = layers
      /\ \A o \in DOMAIN a.objs : o \notin Batched
  BY <1>2, <1>4 DEF LoadKeeps, SameBut, SceneFields
<1>6. SceneInv(b, recs) /\ SameBut(a, b, {"batches", "batchOf", "objs"})
  BY <1>5, BuildIs
<1>. HIDE DEF b
<1>7. b.layers = layers
  BY <1>5, <1>6 DEF SameBut, SceneFields
<1>8. SceneInv(d, recs) /\ Reselected(b, d)
  BY <1>6, SelectIs
<1>. HIDE DEF d
<1>9. d.layers = layers
  BY <1>7, <1>8 DEF Reselected, SameBut, SceneFields
<1>10. SceneInv(t, recs) /\ SameBut(d, t, {"objs", "ghosts", "loaded"})
  BY <1>8, EnsureIs
<1>. HIDE DEF t
<1>11. t.layers = layers
  BY <1>9, <1>10 DEF SameBut, SceneFields
<1>. QED BY <1>1, <1>10, <1>11 DEF t, d, LoadedScene

-----------------------------------------------------------------------------
(* The filters.                                                            *)

\* The backend x is b after the filters f were applied to the objects P.
FilterSet(b, x, f, P) ==
  /\ Redrawn(b, x) /\ SceneInv(x.scene, b.recs)
  /\ SameBut(b.scene, x.scene, {"hidden", "objs", "loaded", "batches"})
  /\ Dark(b.scene, b.recs) => Dark(x.scene, b.recs)
  /\ \A o : o \notin P => (o \in x.scene.hidden <=> o \in b.scene.hidden)
  /\ \A o \in P : o \in DOMAIN b.scene.batchOf => (o \in x.scene.hidden <=> ~f[Type(o)])
  /\ \A o \in DOMAIN b.scene.objs : o \notin DOMAIN b.scene.batchOf =>
       /\ o \in DOMAIN x.scene.objs
       /\ o \in P => (o \in x.scene.hidden <=>
                        ~(f[Type(o)] /\ b.scene.layers[LayerOf(b.recs, o)]))

LEMMA FilterOne ==
  ASSUME NEW b, IsSnapshot(b.recs), NEW f, NEW g, NEW P, NEW x,
         FilterSet(b, x, f, P), NEW o
  PROVE  FilterSet(b, setVisible(x, o, f[Type(o)], g), f, P \cup {o})
<1>. DEFINE v == f[Type(o)]
            y == setVisible(x, o, v, g)
            s == x.scene
            t == setObjectVisible(s, o, v, Memory(x.recs, g))
<1>1. /\ Redrawn(b, x) /\ SceneInv(s, b.recs)
      /\ SameBut(b.scene, s, {"hidden", "objs", "loaded", "batches"})
      /\ Dark(b.scene, b.recs) => Dark(s, b.recs)
      /\ \A z : z \notin P => (z \in s.hidden <=> z \in b.scene.hidden)
      /\ \A z \in P : z \in DOMAIN b.scene.batchOf => (z \in s.hidden <=> ~f[Type(z)])
      /\ \A z \in DOMAIN b.scene.objs : z \notin DOMAIN b.scene.batchOf =>
           /\ z \in DOMAIN s.objs
           /\ z \in P => (z \in s.hidden <=> ~(f[Type(z)] /\ b.scene.layers[LayerOf(b.recs, z)]))
  BY DEF FilterSet
<1>2. x.recs = b.recs /\ IsBackend(x)
  BY <1>1 DEF Redrawn, SameRecords
<1>3. Redrawn(b, y)
  BY <1>1, <1>2, SetVisibleBackend, RedrawnTwice
<1>4. y.scene = t
  BY <1>2 DEF setVisible, IsBackend, BackendFields
<1>. HIDE DEF y
<1>5. Backs(Memory(x.recs, g), b.recs)
  BY <1>2, MemoryBacks
<1>6. ObjectSet(s, t, b.recs, o, v)
  <2>. HIDE DEF s, v, t
  <2>. QED BY <1>1, <1>5, SetObjectIs DEF t
<1>. HIDE DEF t
<1>7. /\ SceneInv(t, b.recs) /\ SameBut(s, t, {"hidden", "objs", "loaded", "batches"})
      /\ Dark(s, b.recs) => Dark(t, b.recs)
      /\ \A z : z # o => /\ z \in t.hidden <=> z \in s.hidden
                         /\ z \in DOMAIN t.objs <=> z \in DOMAIN s.objs
      /\ o \in DOMAIN s.batchOf => (o \in t.hidden <=> ~v)
      /\ o \in DOMAIN s.objs /\ o \notin DOMAIN s.batchOf =>
           /\ o \in t.hidden <=> ~(v /\ s.layers[LayerOf(b.recs, o)])
           /\ o \in DOMAIN t.objs
  BY <1>6 DEF ObjectSet
<1>8. s.batchOf = b.scene.batchOf /\ s.layers = b.scene.layers
  BY <1>1 DEF SameBut, SceneFields
<1>9. SameBut(b.scene, t, {"hidden", "objs", "loaded", "batches"})
  BY <1>1, <1>7 DEF SameBut
<1>. HIDE DEF s
<1>10. ASSUME NEW z \in DOMAIN b.scene.objs, z \notin DOMAIN b.scene.batchOf
       PROVE  /\ z \in DOMAIN t.objs
              /\ z \in P \cup {o} =>
                   (z \in t.hidden <=> ~(f[Type(z)] /\ b.scene.layers[LayerOf(b.recs, z)]))
  BY <1>1, <1>7, <1>8, <1>10
<1>11. ASSUME NEW z \in P \cup {o}, z \in DOMAIN b.scene.batchOf
       PROVE  z \in t.hidden <=> ~f[Type(z)]
  BY <1>1, <1>7, <1>8, <1>11
<1>12. \A z : z \notin P \cup {o} => (z \in t.hidden <=> z \in b.scene.hidden)
  BY <1>1, <1>7
<1>13. FilterSet(b, y, f, P \cup {o})
  BY <1>1, <1>3, <1>4, <1>7, <1>9, <1>10, <1>11, <1>12 DEF FilterSet
<1>. QED BY <1>13 DEF y

\* The loop of applyObjectFilters over the objects c[4].
FilterHolds(c, i, x) == FilterSet(c[1], x, c[2], {c[4][j] : j \in 1 .. i})

SetLoop == INSTANCE Loops WITH Step <- FilterStep, Holds <- FilterHolds

LEMMA FilterIs ==
  ASSUME NEW b, IsBackend(b), IsSnapshot(b.recs), SceneInv(b.scene, b.recs),
         NEW objs, DOMAIN objs \subseteq Objects, NEW f, NEW g
  PROVE  FilterSet(b, applyObjectFilters(b, objs, f, g), f,
                   {o \in DOMAIN objs : objs[o].visible # f[Type(o)]})
<1>. DEFINE differ == {o \in DOMAIN objs : objs[o].visible /= f[Type(o)]}
            q == SetToSeq(differ)
            c == <<b, f, g, q>>
            P(i) == {q[j] : j \in 1 .. i}
<1>1. applyObjectFilters(b, objs, f, g) = SetLoop!Loop(c, b, q)
  BY DEF applyObjectFilters, FilterStep, SetLoop!Loop, FoldLeft, SetLoop!FoldLeft,
         MapThenFoldSet, SetLoop!MapThenFoldSet, Max, SetLoop!Max
<1>2. IsFiniteSet(differ)
  BY FS_Subset, SceneAssumption
<1>. HIDE DEF differ
<1>3. q \in Seq(differ) /\ Range(q) = differ
  BY <1>2, SetToSeqIs
<1>. HIDE DEF q
<1>4. P(0) = {} /\ P(Len(q)) = differ
  BY <1>3 DEF Range
<1>5. FilterSet(b, b, f, {})
  BY DEF FilterSet, Redrawn, SameGlow, SameRecords, IsBackend, SameBut
<1>6. FilterHolds(c, 0, b)
  BY <1>4, <1>5 DEF FilterHolds
<1>7. ASSUME NEW x, NEW i \in 1 .. Len(q), FilterHolds(c, i - 1, x)
      PROVE  FilterHolds(c, i, FilterStep(c, x, q[i]))
  <2>1. FilterSet(b, x, f, P(i - 1))
    BY <1>7 DEF FilterHolds
  <2>2. P(i) = P(i - 1) \cup {q[i]}
    BY <1>3
  <2>3. PICK A : A = P(i - 1)
    OBVIOUS
  <2>4. FilterSet(b, x, f, A) /\ P(i) = A \cup {q[i]}
    BY <2>1, <2>2, <2>3
  <2>. HIDE DEF P
  <2>5. FilterSet(b, setVisible(x, q[i], f[Type(q[i])], g), f, A \cup {q[i]})
    BY <2>4, FilterOne
  <2>. QED BY <2>4, <2>5 DEF FilterHolds, FilterStep, P
<1>8. FilterHolds(c, Len(q), SetLoop!Loop(c, b, q))
  <2>. HIDE DEF c
  <2>. QED BY <1>3, <1>6, <1>7, SetLoop!LoopKeeps
<1>9. FilterSet(b, SetLoop!Loop(c, b, q), f, P(Len(q)))
  BY <1>8 DEF FilterHolds
<1>. HIDE DEF c, P
<1>. QED BY <1>1, <1>4, <1>9 DEF differ
=============================================================================
