---------------------------- MODULE WindowProofs ----------------------------
(***************************************************************************)
(* Proofs about the window of the 3D viewer and the backend below it, for  *)
(* any number of objects, layers, designs and views.  RecordsInv relates   *)
(* the two copies of the snapshot, also over reloads; ScreenInv adds the   *)
(* layers, the filters and the scene, until the first reload.              *)
(***************************************************************************)
EXTENDS SceneProofs

-----------------------------------------------------------------------------
(* The records.                                                            *)

\* What a record says apart from its visibility.
Bare(r) == [r EXCEPT !.visible = TRUE]

\* The records of the backend are those of objs but for their visibility; the
\* tops of vias are there or not.
Agree(recs, objs) ==
  /\ DOMAIN objs = Ids(recs)
  /\ \A o \in DOMAIN objs : DOMAIN objs[o] = {"id", "layer", "geometry", "visible"}
  /\ \A i \in 1 .. Len(recs) : recs[i].id = Nameless \/ Bare(recs[i]) = Bare(objs[recs[i].id])

\* The vector of the backend has the memory that loadScene reserved for it.
Reserve(b, loaded) ==
  /\ b.capacity \in Nat /\ b.scene.spatial \in Seq(Objects)
  /\ IF loaded THEN b.capacity >= Len(b.scene.spatial) + Spare ELSE b.scene.spatial = <<>>

RecordsInv == /\ Marked(backend)
              /\ IsSnapshot(backend.recs)
              /\ Agree(backend.recs, shown)
              /\ Reserve(backend, sceneLoaded)
              /\ DOMAIN boxes \subseteq Layers
              /\ ~sceneLoaded => backend.recs = <<>>

LEMMA BareOf ==
  ASSUME NEW r, NEW v
  PROVE  Bare([r EXCEPT !.visible = v]) = Bare(r)
BY DEF Bare

\* A design is a snapshot.
LEMMA DesignIs ==
  ASSUME NEW d \in Designs
  PROVE  IsSnapshot(d) /\ DOMAIN ById(d) = Ids(d) /\ Ids(d) \subseteq Objects
         /\ \A o \in Ids(d) : ById(d)[o] \in Range(d) /\ ById(d)[o].id = o
<1>1. IsSnapshot(d)
  BY DesignAssumption DEF IsSnapshot
<1>2. d \in Seq(ObjectRecord) /\ DOMAIN d = 1 .. Len(d)
  BY <1>1 DEF IsSnapshot
<1>3. ASSUME NEW o \in Ids(d) PROVE ById(d)[o] \in Range(d) /\ ById(d)[o].id = o
  <2>. DEFINE T == {i \in 1 .. Len(d) : d[i].id = o}
              First(i) == d[i].id = o /\ \A j \in 1 .. (i - 1) : d[j].id /= o
  <2>1. T # {} /\ T \subseteq Nat
    BY <1>2, <1>3, IdsAre
  <2>2. PICK m \in T : \A i \in T : m <= i
    <3>. HIDE DEF T
    <3>. QED BY <2>1, KeepLoop!Least
  <2>3. m \in 1 .. Len(d) /\ First(m)
    BY <1>2, <2>2
  <2>4. ById(d)[o] = d[CHOOSE i \in 1 .. Len(d) : First(i)]
    BY <1>3 DEF ById
  <2>5. PICK i \in 1 .. Len(d) : First(i) /\ ById(d)[o] = d[i]
    <3>. HIDE DEF First
    <3>. QED BY <2>3, <2>4
  <2>. QED BY <1>2, <2>5 DEF Range
<1>. QED BY <1>1, <1>3, SnapshotIds DEF ById

\* Two records of a snapshot with the same id are the same, unless it is empty.
LEMMA OneRecord ==
  ASSUME NEW recs, IsSnapshot(recs), NEW x \in Range(recs), NEW y \in Range(recs), x.id = y.id,
         x.id # Nameless
  PROVE  x = y
BY DEF IsSnapshot, DistinctIds, Range

\* The records of a build agree with its map by id.
LEMMA DesignAgrees ==
  ASSUME NEW d \in Designs
  PROVE  Agree(d, ById(d))
<1>0. /\ IsSnapshot(d) /\ DOMAIN ById(d) = Ids(d)
      /\ \A o \in Ids(d) : ById(d)[o] \in Range(d) /\ ById(d)[o].id = o
  BY DesignIs
<1>1. d \in Seq(ObjectRecord) /\ \A i \in 1 .. Len(d) : d[i] \in Range(d) /\ d[i].id \in Ids(d)
  BY <1>0, IdsAre DEF IsSnapshot, Range
<1>2. \A i \in 1 .. Len(d) : d[i].id # Nameless => d[i] = ById(d)[d[i].id]
  BY <1>0, <1>1, OneRecord
<1>3. Range(d) \subseteq ObjectRecord
  BY <1>1 DEF Range
<1>4. \A o \in Ids(d) : DOMAIN ById(d)[o] = {"id", "layer", "geometry", "visible"}
  BY <1>0, <1>3 DEF ObjectRecord
<1>. QED BY <1>0, <1>2, <1>4 DEF Agree

\* The filters change only visibilities.
LEMMA FilteredAgree ==
  ASSUME NEW recs, IsSnapshot(recs), NEW objs, Agree(recs, objs), NEW f
  PROVE  Agree(recs, Filtered(objs, f))
<1>1. DOMAIN Filtered(objs, f) = DOMAIN objs
  BY DEF Filtered
<1>2. \A o \in DOMAIN objs : Bare(Filtered(objs, f)[o]) = Bare(objs[o])
  BY BareOf DEF Filtered
<1>3. \A i \in 1 .. Len(recs) : recs[i].id \in DOMAIN objs
  BY IdsAre DEF Agree, IsSnapshot
<1>4. \A o \in DOMAIN objs : DOMAIN Filtered(objs, f)[o] = DOMAIN objs[o]
  BY DEF Filtered
<1>. QED BY <1>1, <1>2, <1>3, <1>4 DEF Agree

\* The backend c is b after a reload of the design d.
Updated(b, c, d) ==
  /\ Marked(c) /\ IsSnapshot(c.recs) /\ Agree(c.recs, ById(d))
  /\ c.capacity \in Nat /\ c.capacity >= b.capacity /\ c.scene.spatial = b.scene.spatial
  /\ c.selected = IF b.selected \in DOMAIN shown \ Ids(d) THEN None ELSE b.selected
  /\ Finds(b.ptrs, b.recs) /\ Ids(b.recs) \subseteq Ids(d) =>
       Finds(c.ptrs, c.recs) \/ Len(c.recs) > b.capacity

\* What the difference of two builds leaves in the backend.
LEMMA UpdateIs ==
  ASSUME NEW b, Marked(b), IsSnapshot(b.recs), Agree(b.recs, shown), b.capacity \in Nat,
         NEW d \in Designs, NEW restyled \in SUBSET Layers, NEW g
  PROVE  Updated(b, Update(b, d, restyled, g), d)
<1>. DEFINE removed == DOMAIN shown \ Ids(d)
            changed == changedOrAdded(d)
            b1 == removeObjects(b, removed, g)
            b2 == IF changed = <<>> THEN b1 ELSE updateObjects(b1, changed, g)
            S == {l \in Layers : ~boxes[l]} \cup restyled
            c == Update(b, d, restyled, g)
            new(r) == r.id \in DOMAIN shown => shown[r.id] # r
<1>0. /\ IsSnapshot(d) /\ DOMAIN ById(d) = Ids(d)
      /\ \A o \in Ids(d) : ById(d)[o] \in Range(d) /\ ById(d)[o].id = o
  BY DesignIs
<1>1. c = ResetLoop!Loop(<<b2, g>>, b2, SetToSeq(S))
  BY DEF Update, ResetStep, ResetLoop!Loop, FoldLeft, ResetLoop!FoldLeft, MapThenFoldSet,
         ResetLoop!MapThenFoldSet, Max, ResetLoop!Max
<1>2. IsSnapshot(changed) /\ Range(changed) = {r \in Range(d) : new(r)}
  <2>1. Range(d) \cap {r \in Range(d) : new(r)} = {r \in Range(d) : new(r)}
    OBVIOUS
  <2>. HIDE DEF new
  <2>. QED BY <1>0, <2>1, KeepSnapshot DEF changedOrAdded, new
<1>3. /\ Marked(b1) /\ b1.ptrs = b.ptrs /\ b1.capacity = b.capacity /\ IsSnapshot(b1.recs)
      /\ b1.scene.spatial = b.scene.spatial
      /\ b1.selected = IF b.selected \in removed THEN None ELSE b.selected
      /\ Range(b1.recs) = {r \in Range(b.recs) : r.id \notin removed}
      /\ removed = {} => b1.recs = b.recs
  <2>. HIDE DEF removed
  <2>1. /\ Marked(b1) /\ b1.ptrs = b.ptrs /\ b1.capacity = b.capacity
        /\ b1.scene.spatial = b.scene.spatial
        /\ b1.selected = IF b.selected \in removed THEN None ELSE b.selected
        /\ b1.recs = IF removed = {} THEN b.recs
                     ELSE Keep(b.recs, {r \in Range(b.recs) : r.id \notin removed})
    <3>1. Thinned(b, b1, removed)
      BY RemoveBackend
    <3>. HIDE DEF b1
    <3>. QED BY <3>1 DEF Thinned
  <2>. HIDE DEF b1
  <2>2. CASE removed = {}
    BY <2>1, <2>2
  <2>3. CASE removed # {}
    <3>. DEFINE T == {r \in Range(b.recs) : r.id \notin removed}
    <3>1. Range(b.recs) \cap T = T
      OBVIOUS
    <3>. HIDE DEF T
    <3>2. IsSnapshot(b1.recs) /\ Range(b1.recs) = T
      BY <2>1, <2>3, <3>1, KeepSnapshot DEF T
    <3>. QED BY <2>1, <2>3, <3>2 DEF T
  <2>. QED BY <2>2, <2>3
<1>. HIDE DEF b1, changed
<1>4. /\ Marked(b2) /\ IsSnapshot(b2.recs)
      /\ b2.capacity \in Nat /\ b2.capacity >= b.capacity /\ b2.selected = b1.selected
      /\ b2.scene.spatial = b1.scene.spatial
      /\ \A o : o \in Ids(b2.recs) <=> (o \in Ids(b1.recs) \/ \E r \in Range(changed) : r.id = o)
      /\ \A y \in Range(b2.recs) :
           \/ y.id = Nameless
           \/ y \in Range(changed)
           \/ y \in Range(b1.recs) /\ \A r \in Range(changed) : r.id # y.id
      /\ Finds(b1.ptrs, b1.recs) => Finds(b2.ptrs, b2.recs) \/ Len(b2.recs) > b.capacity
  <2>1. CASE changed = <<>>
    <3>1. Range(changed) = {}
      BY <2>1 DEF Range
    <3>. QED BY <1>3, <2>1, <3>1
  <2>2. CASE changed # <<>>
    <3>. DEFINE s == Stored(b1, changed).backend
    <3>1. /\ Marked(b2) /\ SameRecords(s, b2) /\ b2.selected = b1.selected
          /\ b2.scene.spatial = b1.scene.spatial
      BY <1>2, <1>3, <2>2, UpdateBackend
    <3>2. StoreHolds(<<b1, changed>>, Len(changed), Stored(b1, changed))
      BY <1>2, <1>3, StoreAll DEF Marked, IsBackend
    <3>. HIDE DEF b2
    <3>3. \A r : r \in Range(changed) <=> \E j \in 1 .. Len(changed) : changed[j] = r
      BY <1>2 DEF Range, IsSnapshot
    <3>4. /\ IsSnapshot(s.recs) /\ s.capacity \in Nat /\ s.capacity >= b1.capacity
          /\ \A o : o \in Ids(s.recs) <=> (o \in Ids(b1.recs) \/ \E j \in 1 .. Len(changed) : changed[j].id = o)
          /\ \A y \in Range(s.recs) :
               \/ y.id = Nameless
               \/ \E j \in 1 .. Len(changed) : y = changed[j]
               \/ y \in Range(b1.recs) /\ \A j \in 1 .. Len(changed) : changed[j].id # y.id
          /\ Finds(b1.ptrs, b1.recs) => Finds(s.ptrs, s.recs) \/ Len(s.recs) > b1.capacity
      BY <3>2 DEF StoreHolds
    <3>5. b2.recs = s.recs /\ b2.ptrs = s.ptrs /\ b2.capacity = s.capacity
      BY <3>1 DEF SameRecords
    <3>. HIDE DEF s
    <3>. QED BY <1>3, <3>1, <3>3, <3>4, <3>5
  <2>. QED BY <2>1, <2>2
<1>. HIDE DEF b2
<1>5. /\ Marked(c) /\ SameRecords(b2, c) /\ c.selected = b2.selected
      /\ c.scene.spatial = b2.scene.spatial
  <2>1. S \in SUBSET Layers
    OBVIOUS
  <2>. HIDE DEF S
  <2>. QED BY <1>1, <1>4, <2>1, ResetBackend DEF ResetQuiet
<1>. HIDE DEF c
<1>6. \A o : o \in Ids(b2.recs) <=> o \in Ids(d)
  <2>1. DOMAIN shown = Ids(b.recs)
    BY DEF Agree
  <2>2. \A o : o \in Ids(b1.recs) <=> (o \in Ids(b.recs) /\ o \in Ids(d))
    BY <1>3, <2>1 DEF Ids
  <2>3. \A o : o \in Ids(d) <=> \E r \in Range(d) : r.id = o
    BY DEF Ids
  <2>4. ASSUME NEW o \in Ids(d) PROVE o \in Ids(b2.recs)
    <3>1. PICK r \in Range(d) : r.id = o
      BY <2>3, <2>4
    <3>. QED BY <1>2, <1>4, <2>1, <2>2, <3>1
  <2>5. ASSUME NEW o \in Ids(b2.recs) PROVE o \in Ids(d)
    BY <1>2, <1>4, <2>2, <2>3, <2>5
  <2>. QED BY <2>4, <2>5
<1>7. ASSUME NEW y \in Range(b2.recs), y.id # Nameless PROVE Bare(y) = Bare(ById(d)[y.id])
  <2>1. y.id \in Ids(d)
    BY <1>6 DEF Ids
  <2>2. PICK r : r \in Range(d) /\ r.id = y.id /\ r = ById(d)[y.id]
    BY <1>0, <2>1
  <2>3. CASE y \in Range(changed)
    BY <1>0, <1>2, <1>7, <2>2, <2>3, OneRecord
  <2>4. CASE y \in Range(b1.recs) /\ \A x \in Range(changed) : x.id # y.id
    <3>1. r.id \in DOMAIN shown /\ shown[r.id] = r
      BY <1>2, <2>2, <2>4
    <3>2. y \in Range(b.recs)
      BY <1>3, <2>4
    <3>3. Bare(y) = Bare(shown[y.id])
      BY <1>7, <3>2 DEF Agree, Range, IsSnapshot
    <3>. QED BY <2>2, <3>1, <3>3
  <2>. QED BY <1>4, <1>7, <2>3, <2>4
<1>8. Agree(c.recs, ById(d))
  <2>1. c.recs = b2.recs /\ \A i \in 1 .. Len(b2.recs) : b2.recs[i] \in Range(b2.recs)
    BY <1>4, <1>5 DEF SameRecords, Range, IsSnapshot
  <2>2. Ids(b2.recs) = Ids(d)
    BY <1>6
  <2>3. \A o \in DOMAIN ById(d) : DOMAIN ById(d)[o] = {"id", "layer", "geometry", "visible"}
    BY DesignAgrees DEF Agree
  <2>. QED BY <1>0, <1>7, <2>1, <2>2, <2>3 DEF Agree
<1>9. ASSUME Finds(b.ptrs, b.recs), Ids(b.recs) \subseteq Ids(d)
      PROVE  Finds(c.ptrs, c.recs) \/ Len(c.recs) > b.capacity
  <2>1. removed = {}
    BY <1>9 DEF Agree
  <2>. HIDE DEF removed
  <2>. QED BY <1>3, <1>4, <1>5, <1>9, <2>1 DEF SameRecords
<1>10. /\ IsSnapshot(c.recs) /\ c.capacity \in Nat /\ c.capacity >= b.capacity
       /\ c.scene.spatial = b.scene.spatial
       /\ c.selected = IF b.selected \in removed THEN None ELSE b.selected
  <2>. HIDE DEF removed
  <2>. QED BY <1>3, <1>4, <1>5 DEF SameRecords
<1>11. Updated(b, c, d)
  BY <1>5, <1>8, <1>9, <1>10 DEF Updated
<1>. QED BY <1>11 DEF c

-----------------------------------------------------------------------------
(* The steps, as far as the records, the index and the selection go.       *)

\* The index stays right but for a removal or a growth beyond the reserve.
StaysFound ==
  Finds(backend.ptrs, backend.recs) =>
    \/ Finds(backend.ptrs, backend.recs)'
    \/ Ids(backend.recs) \ Ids(backend'.recs) # {}
    \/ Len(backend'.recs) > Len(backend.scene.spatial) + Spare

StaysPresent == SelectionIsPresent => SelectionIsPresent'

\* A step that changes no record keeps what is said of them.
LEMMA RecordsKept ==
  ASSUME RecordsInv, Marked(backend'), SameRecords(backend, backend'),
         backend'.scene.spatial = backend.scene.spatial, DOMAIN boxes' = DOMAIN boxes, UNCHANGED shown
  PROVE  /\ RecordsInv' /\ StaysFound
         /\ backend'.selected = backend.selected => StaysPresent
<1>1. RecordsInv'
  BY DEF RecordsInv, SameRecords, Reserve, sceneLoaded
<1>. QED BY <1>1 DEF SameRecords, Finds, StaysFound, StaysPresent, SelectionIsPresent

\* The memory of the vector after loadScene.
LEMMA LoadReserves ==
  ASSUME NEW b, NEW loaded, Reserve(b, loaded), NEW recs, IsSnapshot(recs), NEW c,
         c.capacity = Reserved(b, recs),
         c.scene.spatial = Spread(recs, b.scene.spatial)
  PROVE  /\ Reserve(c, TRUE)
         /\ recs = <<>> => c.scene.spatial = b.scene.spatial
<1>1. /\ b.capacity \in Nat /\ Len(recs) \in Nat /\ Spare \in Nat
      /\ b.scene.spatial \in Seq(Objects) /\ Len(b.scene.spatial) \in Nat
      /\ b.scene.spatial = <<>> \/ b.capacity >= Len(b.scene.spatial) + Spare
  BY BackendAssumption DEF Reserve, IsSnapshot
<1>2. c.capacity \in Nat /\ c.capacity >= b.capacity /\ c.capacity >= Len(recs) + Spare
  BY <1>1 DEF Reserved
<1>3. CASE recs = <<>>
  BY <1>1, <1>2, <1>3 DEF Reserve, Spread
<1>4. CASE recs # <<>>
  <2>1. [i \in 1 .. Len(recs) |-> recs[i].id] \in [1 .. Len(recs) -> Objects]
    BY SnapshotIds
  <2>2. c.scene.spatial \in Seq(Objects) /\ Len(c.scene.spatial) = Len(recs)
    BY <1>1, <1>4, <2>1 DEF Spread
  <2>. QED BY <1>2, <1>4, <2>2 DEF Reserve
<1>. QED BY <1>3, <1>4 DEF Spread

\* A build with a record has a layer.
LEMMA DesignLayers ==
  ASSUME NEW d \in Designs, Layers = {}
  PROVE  d = <<>>
<1>1. IsSnapshot(d)
  BY DesignIs
<1>2. ASSUME d # <<>> PROVE FALSE
  <2>1. 1 \in 1 .. Len(d)
    BY <1>1, <1>2 DEF IsSnapshot
  <2>2. d[1] \in ObjectRecord
    BY <1>1, <2>1, SnapshotIds
  <2>. QED BY <2>2 DEF ObjectRecord
<1>. QED BY <1>2

LEMMA RefreshRecords ==
  ASSUME RecordsInv, NEW d \in Designs, NEW g, refreshView(d, g)
  PROVE  RecordsInv' /\ StaysFound /\ StaysPresent
<1>. DEFINE objs == ById(d)
<1>0. IsSnapshot(d) /\ DOMAIN objs = Ids(d) /\ DOMAIN objs \subseteq Objects
  BY DesignIs
<1>1. shown' = Filtered(objs, filters) /\ boxes' = AllVisible
  BY DEF refreshView
<1>2. \A b : IsBackend(b) => Redrawn(b, applyObjectFilters(b, objs, filters, g))
  BY <1>0, FilterBackend
<1>3. (sceneLoaded' <=> Layers # {}) /\ DOMAIN boxes' = Layers
  BY <1>1 DEF sceneLoaded, AllVisible
<1>4. CASE sceneLoaded
  <2>1. PICK restyled \in SUBSET Layers :
          backend' = applyObjectFilters(Update(backend, d, restyled, g), objs, filters, g)
    BY <1>4 DEF refreshView
  <2>2. PICK b : b = Update(backend, d, restyled, g) /\ Updated(backend, b, d)
    BY UpdateIs DEF RecordsInv, Reserve
  <2>3. /\ Marked(b) /\ IsSnapshot(b.recs) /\ Agree(b.recs, objs)
        /\ b.capacity \in Nat /\ b.capacity >= backend.capacity
        /\ b.scene.spatial = backend.scene.spatial
        /\ b.selected = IF backend.selected \in DOMAIN shown \ Ids(d) THEN None ELSE backend.selected
        /\ Finds(backend.ptrs, backend.recs) /\ Ids(backend.recs) \subseteq Ids(d)
             => Finds(b.ptrs, b.recs) \/ Len(b.recs) > backend.capacity
    BY <2>2 DEF Updated
  <2>. HIDE DEF objs
  <2>4. Redrawn(b, backend') /\ Marked(backend')
    BY <1>2, <2>1, <2>2, <2>3, RedrawnMarked DEF Marked
  <2>5. /\ backend'.recs = b.recs /\ backend'.ptrs = b.ptrs /\ backend'.capacity = b.capacity
        /\ backend'.selected = b.selected /\ backend'.scene.spatial = b.scene.spatial
    BY <2>4 DEF Redrawn, SameRecords, SameGlow
  <2>6. Agree(backend'.recs, shown') /\ Ids(backend'.recs) = Ids(d)
    <3>1. Agree(b.recs, Filtered(objs, filters))
      BY <2>3, FilteredAgree
    <3>2. Ids(b.recs) = Ids(d)
      BY <1>0, <2>3 DEF Agree
    <3>. QED BY <1>1, <2>5, <3>1, <3>2
  <2>7. /\ backend.capacity \in Nat /\ backend.scene.spatial \in Seq(Objects)
        /\ backend.capacity >= Len(backend.scene.spatial) + Spare /\ Spare \in Nat
        /\ Len(backend.scene.spatial) \in Nat
    BY <1>4, BackendAssumption DEF RecordsInv, Reserve
  <2>8. backend'.capacity \in Nat /\ backend'.capacity >= Len(backend.scene.spatial) + Spare
    BY <2>3, <2>5, <2>7
  <2>9. Layers # {}
    BY <1>4 DEF RecordsInv, sceneLoaded
  <2>10. RecordsInv'
    BY <1>3, <2>3, <2>4, <2>5, <2>6, <2>7, <2>8, <2>9 DEF RecordsInv, Reserve
  <2>11. ASSUME Finds(backend.ptrs, backend.recs), Ids(backend.recs) \subseteq Ids(d)
        PROVE  \/ Finds(backend.ptrs, backend.recs)'
               \/ Len(backend'.recs) > Len(backend.scene.spatial) + Spare
    <3>1. CASE Finds(b.ptrs, b.recs)
      BY <2>5, <3>1 DEF Finds
    <3>2. CASE Len(b.recs) > backend.capacity
      <4>1. Len(b.recs) \in Nat
        BY <2>3 DEF IsSnapshot
      <4>. QED BY <2>5, <2>7, <3>2, <4>1
    <3>. QED BY <2>3, <2>11, <3>1, <3>2
  <2>12. StaysFound
    BY <2>6, <2>11 DEF StaysFound
  <2>13. DOMAIN shown = Ids(backend.recs)
    BY DEF RecordsInv, Agree
  <2>14. StaysPresent
    BY <2>3, <2>5, <2>6, <2>13 DEF StaysPresent, SelectionIsPresent
  <2>. QED BY <2>10, <2>12, <2>14
<1>5. CASE ~sceneLoaded
  <2>1. PICK fitted :
          backend' = applyObjectFilters(loadScene(backend, d, AllVisible, frustum, fitted, g),
                                        objs, filters, g)
    BY <1>5 DEF refreshView
  <2>2. PICK b : /\ b = loadScene(backend, d, AllVisible, frustum, fitted, g)
                 /\ Marked(b) /\ b.recs = d /\ b.ptrs = Slots(d) /\ b.selected = None
                 /\ b.capacity = Reserved(backend, d)
                 /\ b.scene.spatial = Spread(d, backend.scene.spatial)
    BY LoadBackend DEF RecordsInv, Marked, Reopened
  <2>3. Redrawn(b, backend') /\ Marked(backend')
    BY <1>2, <2>1, <2>2, RedrawnMarked DEF Marked
  <2>4. /\ backend'.recs = d /\ backend'.ptrs = Slots(d) /\ backend'.selected = None
        /\ backend'.capacity = b.capacity /\ backend'.scene.spatial = b.scene.spatial
    BY <2>2, <2>3 DEF Redrawn, SameRecords, SameGlow
  <2>5. Agree(backend'.recs, shown')
    BY <1>0, <1>1, <2>4, DesignAgrees, FilteredAgree
  <2>6. Reserve(b, TRUE) /\ (d = <<>> => b.scene.spatial = backend.scene.spatial)
    BY <1>0, <2>2, LoadReserves DEF RecordsInv
  <2>7. Reserve(backend', sceneLoaded')
    <3>1. Layers = {} => backend'.scene.spatial = <<>>
      BY <1>5, <2>4, <2>6, DesignLayers DEF RecordsInv, Reserve
    <3>. QED BY <1>3, <2>4, <2>6, <3>1 DEF Reserve
  <2>8. RecordsInv'
    BY <1>0, <1>3, <2>3, <2>4, <2>5, <2>7, DesignLayers DEF RecordsInv
  <2>9. Finds(backend.ptrs, backend.recs)'
    BY <2>4 DEF Finds, Slots
  <2>. QED BY <2>4, <2>8, <2>9 DEF StaysFound, StaysPresent, SelectionIsPresent
<1>. QED BY <1>4, <1>5

LEMMA ReadsGarbage == Reads \subseteq Garbage
<1>1. [id |-> None, layer |-> None, geometry |-> 0, visible |-> TRUE] \in Garbage
  BY DEF Garbage
<1>2. (CHOOSE g \in Garbage : TRUE) \in Garbage
  BY <1>1
<1>. QED BY <1>2 DEF Reads

LEMMA RecordsNext ==
  ASSUME RecordsInv, [Next]_windowVars
  PROVE  /\ RecordsInv' /\ StaysFound
         /\ \/ StaysPresent
            \/ \E g \in Garbage : Navigate(g) \/ (Select(g) /\ Drawn(scene, backend'.selected))
<1>0. IsBackend(backend) /\ Marked(backend)
  BY DEF RecordsInv, Marked
<1>. DEFINE Seen(g) == Navigate(g) \/ (Select(g) /\ Drawn(scene, backend'.selected))
            Goal == RecordsInv' /\ StaysFound /\ (StaysPresent \/ \E g \in Garbage : Seen(g))
            Quiet == /\ Marked(backend') /\ SameRecords(backend, backend')
                     /\ backend'.scene.spatial = backend.scene.spatial
                     /\ DOMAIN boxes' = DOMAIN boxes /\ UNCHANGED shown
<1>1. /\ Quiet => RecordsInv' /\ StaysFound
      /\ Quiet /\ backend'.selected = backend.selected => Goal
  BY RecordsKept
<1>. HIDE DEF Seen
<1>2. ASSUME NEW d \in Designs, NEW g, refreshView(d, g) PROVE Goal
  BY <1>2, RefreshRecords
<1>3. ASSUME NEW t, NEW g, toggleFilter(t, g) PROVE Goal
  <2>1. DOMAIN shown \subseteq Objects
    BY SnapshotIds DEF RecordsInv, Agree
  <2>2. Redrawn(backend, backend')
    BY <1>0, <1>3, <2>1, FilterBackend DEF toggleFilter
  <2>3. /\ Marked(backend') /\ backend'.recs = backend.recs /\ backend'.ptrs = backend.ptrs
        /\ backend'.capacity = backend.capacity /\ backend'.selected = backend.selected
        /\ backend'.scene.spatial = backend.scene.spatial
    BY <1>0, <2>2, RedrawnMarked DEF Redrawn, SameRecords, SameGlow
  <2>4. Agree(backend.recs, shown')
    BY <1>3, FilteredAgree DEF toggleFilter, RecordsInv
  <2>5. DOMAIN boxes' = DOMAIN boxes
    BY <1>3 DEF toggleFilter
  <2>6. RecordsInv'
    BY <2>3, <2>4, <2>5 DEF RecordsInv, Reserve, sceneLoaded
  <2>. QED BY <2>3, <2>6 DEF StaysFound, StaysPresent, SelectionIsPresent, Finds
<1>4. ASSUME NEW l, NEW v, NEW g, backend' = updateLayerState(backend, l, v, g),
             UNCHANGED shown, DOMAIN boxes' = DOMAIN boxes
      PROVE  Goal
  <2>1. Switched(backend, backend', l, v, g)
    BY <1>0, <1>4, LayerBackend
  <2>. QED BY <1>1, <1>4, <2>1 DEF Switched
<1>5. ASSUME NEW g, HideOrShow(g) PROVE Goal
  <2>1. Redrawn(backend, backend')
    BY <1>0, <1>5, SetVisibleBackend DEF HideOrShow, handleContextMenu
  <2>2. Quiet /\ backend'.selected = backend.selected
    BY <1>0, <1>5, <2>1, RedrawnMarked DEF HideOrShow, Redrawn, SameGlow
  <2>. QED BY <1>1, <2>2
<1>6. ASSUME NEW g \in Garbage, Select(g) PROVE Goal
  <2>1. PICK o \in Pickable(backend, g) \cup {None} : backend' = updateSelection(backend, o, g)
    BY <1>6 DEF Select
  <2>2. /\ Marked(backend') /\ SameRecords(backend, backend') /\ backend'.selected = o
        /\ backend'.scene.spatial = backend.scene.spatial
    BY <1>0, <2>1, SelectBackend
  <2>3. RecordsInv' /\ StaysFound
    BY <1>1, <1>6, <2>2 DEF Select
  <2>4. o \in Ids(backend.recs) \cup {None} \/ Drawn(scene, o)
    BY <2>1 DEF Pickable, Ids, scene
  <2>5. CASE o \in Ids(backend.recs) \cup {None}
    BY <2>2, <2>3, <2>5 DEF StaysPresent, SelectionIsPresent, SameRecords
  <2>6. CASE Drawn(scene, o)
    BY <1>6, <2>2, <2>3, <2>6 DEF Seen
  <2>. QED BY <2>4, <2>5, <2>6
<1>7. ASSUME NEW g, Rescale(g) PROVE Goal
  <2>1. PICK fitted : backend' = loadScene(backend, backend.recs, backend.layers, frustum, fitted, g)
    BY <1>7 DEF Rescale, setHeightScale
  <2>2. /\ Marked(backend') /\ backend'.recs = backend.recs /\ backend'.selected = None
        /\ backend'.ptrs = Slots(backend.recs)
        /\ backend'.capacity = Reserved(backend, backend.recs)
        /\ backend'.scene.spatial = Spread(backend.recs, backend.scene.spatial)
    BY <1>0, <2>1, LoadBackend DEF Reopened
  <2>3. shown' = shown /\ DOMAIN boxes' = DOMAIN boxes /\ backend.recs # <<>>
    BY <1>7 DEF Rescale
  <2>4. Reserve(backend', TRUE) /\ sceneLoaded
    BY <2>2, <2>3, LoadReserves DEF RecordsInv
  <2>5. RecordsInv'
    BY <2>2, <2>3, <2>4 DEF RecordsInv, sceneLoaded
  <2>. QED BY <2>2, <2>3, <2>5 DEF Finds, Slots, StaysFound, StaysPresent, SelectionIsPresent
<1>8. ASSUME UNCHANGED <<backend, shown, boxes>> PROVE Goal
  <2>1. backend' = backend /\ shown' = shown /\ DOMAIN boxes' = DOMAIN boxes
    BY <1>8
  <2>. QED BY <1>0, <1>1, <2>1 DEF SameRecords
<1>9. ASSUME NEW g, Frame(g) PROVE Goal
  <2>1. Redrawn(backend, backend')
    BY <1>0, <1>9, RenderBackend DEF Frame
  <2>2. Quiet /\ backend'.selected = backend.selected
    BY <1>0, <1>9, <2>1, RedrawnMarked DEF Frame, Redrawn, SameGlow
  <2>. QED BY <1>1, <2>2
<1>10. ASSUME NEW g \in Garbage, Navigate(g) PROVE Goal
  <2>1. \/ \E o : backend' = updateSelection(backend, o, g)
        \/ backend' = backend
    BY <1>10 DEF Navigate
  <2>2. Quiet
    BY <1>0, <1>10, <2>1, SelectBackend DEF SameRecords, Navigate
  <2>. QED BY <1>1, <1>10, <2>2 DEF Seen
<1>11. ASSUME NEW l, NEW g, onLayerVisibilityChanged(l, g) PROVE Goal
  BY <1>4, <1>11 DEF onLayerVisibilityChanged
<1>12. ASSUME NEW l, NEW g, onLayerStyleChanged(l, g) PROVE Goal
  BY <1>4, <1>12 DEF onLayerStyleChanged
<1>13. (MoveCamera \/ UNCHANGED windowVars) => UNCHANGED <<backend, shown, boxes>>
  BY DEF MoveCamera, windowVars
<1>. HIDE DEF Goal
<1>14. ASSUME Next PROVE Goal
  BY <1>2, <1>3, <1>5, <1>6, <1>7, <1>8, <1>9, <1>10, <1>11, <1>12, <1>13, <1>14, ReadsGarbage DEF Next
<1>15. Goal
  BY <1>8, <1>13, <1>14
<1>. QED BY <1>15 DEF Goal, Seen

LEMMA RecordsInit ==
  ASSUME Init
  PROVE  RecordsInv
<1>1. backend = EmptyBackend /\ shown = <<>> /\ DOMAIN boxes = {} /\ ~sceneLoaded
  BY DEF Init, sceneLoaded
<1>2. /\ IsScene(EmptyScene) /\ EmptyScene.glowing = {} /\ EmptyScene.previous = None
      /\ EmptyScene.spatial = <<>>
  BY DEF EmptyScene, IsScene, SceneFields
<1>3. /\ DOMAIN EmptyBackend = BackendFields /\ EmptyBackend.scene = EmptyScene
      /\ EmptyBackend.recs = <<>> /\ EmptyBackend.capacity = 0
  BY DEF EmptyBackend, BackendFields
<1>4. Marked(EmptyBackend)
  BY <1>2, <1>3 DEF Marked, IsBackend
<1>5. IsSnapshot(<<>>)
  BY DEF IsSnapshot, DistinctIds
<1>6. Ids(<<>>) = {}
  BY DEF Ids, Range
<1>7. Agree(<<>>, <<>>)
  BY <1>6 DEF Agree
<1>8. Reserve(EmptyBackend, FALSE)
  <2>1. EmptyBackend.scene.spatial = <<>> /\ EmptyBackend.capacity \in Nat
    BY <1>2, <1>3
  <2>2. <<>> \in Seq(Objects)
    OBVIOUS
  <2>. QED BY <2>1, <2>2 DEF Reserve
<1>9. IsSnapshot(backend.recs) /\ Agree(backend.recs, shown) /\ Reserve(backend, sceneLoaded)
  <2>1. sceneLoaded = FALSE
    BY <1>1 DEF sceneLoaded
  <2>. QED BY <1>1, <1>3, <1>5, <1>7, <1>8, <2>1
<1>. QED BY <1>1, <1>3, <1>4, <1>9 DEF RecordsInv

\* The invariant of the records holds in every state.
THEOREM RecordsAlways == Spec => []RecordsInv
<1>1. Init => RecordsInv
  BY RecordsInit
<1>2. RecordsInv /\ [Next]_windowVars => RecordsInv'
  BY RecordsNext
<1>. QED BY <1>1, <1>2, PTL DEF Spec

\* Whatever the user, the design and the camera do, a highlight on the screen is
\* that of the object the backend calls selected (setSelectedObject and
\* removeObjectsById of OsgScene, removeObjects of OsgBackend).
THEOREM HighlightIsSelection == Spec => []GlowIsSelection
<1>1. RecordsInv => GlowIsSelection
  BY DEF RecordsInv, Marked, GlowIsSelection, scene
<1>. QED BY <1>1, RecordsAlways, PTL

\* After every reload, of any design in place of any other, the backend has the
\* objects of the new build; of the tops of vias it has some exactly when the new
\* build has some (refreshView of OpenRoad3DWindow).
THEOREM ReloadIsComplete == Spec => []RefreshIsComplete
<1>1. RecordsInv => RefreshIsComplete
  BY DEF RecordsInv, IsSnapshot, Agree, Bare, RefreshIsComplete
<1>. QED BY <1>1, RecordsAlways, PTL

\* Only a step that removes an object, or that takes the vector beyond what
\* loadScene reserved, can make the index of the backend wrong (objectIndex_ in
\* loadScene, updateObjects and removeObjects of OsgBackend).
THEOREM IndexKeptInReserve == Spec => IndexRightWithinReserve
<1>1. IndexFindsObject <=> Finds(backend.ptrs, backend.recs)
  BY DEF IndexFindsObject, Finds
<1>2. IndexFindsObject' <=> Finds(backend.ptrs, backend.recs)'
  BY DEF IndexFindsObject, Finds
<1>3. RecordsInv /\ [Next]_windowVars =>
        [IndexFindsObject => \/ IndexFindsObject'
                             \/ Ids(backend.recs) \ Ids(backend'.recs) /= {}
                             \/ Len(backend'.recs) > Len(scene.spatial) + Spare]_windowVars
  BY <1>1, <1>2, RecordsNext DEF StaysFound, scene
<1>. QED BY <1>3, RecordsAlways, PTL DEF Spec, IndexRightWithinReserve

\* An object that the backend does not have becomes the selection only by the view
\* history or by a click on what is still drawn of it (removeObjects and
\* pickObjectAt of OsgBackend, goPreviousView and goNextView).
THEOREM SelectionIsSeen == Spec => SelectsOnlySeenOrRemembered
<1>1. RecordsInv /\ [Next]_windowVars =>
        [SelectionIsPresent =>
           \/ SelectionIsPresent'
           \/ \E g \in Garbage :
                Navigate(g) \/ (Select(g) /\ Drawn(scene, backend'.selected))]_windowVars
  BY RecordsNext DEF StaysPresent
<1>. QED BY <1>1, RecordsAlways, PTL DEF Spec, SelectsOnlySeenOrRemembered

-----------------------------------------------------------------------------
(* The screen between two reloads.                                         *)

\* The boxes, the backend and the scene have the same layers, the filters are
\* those the window has applied, and the scene is that of the records.
ScreenInv ==
  /\ RecordsInv
  /\ backend.layers = boxes /\ backend.scene.layers = boxes
  /\ boxes \in [DOMAIN boxes -> BOOLEAN]
  /\ AllShown(backend.recs)
  /\ SceneInv(backend.scene, backend.recs)
  /\ filters \in [Types -> BOOLEAN]
  /\ \A o \in DOMAIN shown : shown[o].visible = filters[Type(o)]

\* What a step other than rescaling and the menu keeps besides the invariant.
StaysDark == Dark(backend.scene, backend.recs) => Dark(backend.scene, backend.recs)'

StaysExplained ==
  \A o \in Ids(backend.recs) \ {Nameless} :
    o \in DOMAIN backend.scene.objs /\ Explained(o) => Explained(o)'

LEMMA ShownLayer ==
  ASSUME NEW recs, IsSnapshot(recs), NEW objs, Agree(recs, objs), NEW o \in Ids(recs) \ {Nameless}
  PROVE  o \in DOMAIN objs /\ objs[o].layer = LayerOf(recs, o)
<1>. DEFINE i == Slot(recs, o)
<1>1. i \in 1 .. Len(recs) /\ recs[i].id = o
  BY SlotIs DEF IsSnapshot
<1>2. recs[i] \in ObjectRecord
  BY <1>1, SnapshotIds
<1>3. Bare(recs[i]) = Bare(objs[o])
  BY <1>1 DEF Agree
<1>4. LayerOf(recs, o) = recs[i].layer
  BY DEF LayerOf
<1>. HIDE DEF i
<1>5. DOMAIN recs[i] = {"id", "layer", "geometry", "visible"}
  BY <1>2 DEF ObjectRecord
<1>6. DOMAIN Bare(recs[i]) = DOMAIN recs[i] /\ DOMAIN Bare(objs[o]) = DOMAIN objs[o]
  BY DEF Bare
<1>7. "layer" \in DOMAIN objs[o] /\ "layer" \in DOMAIN recs[i]
  BY <1>3, <1>5, <1>6
<1>8. Bare(recs[i]).layer = recs[i].layer /\ Bare(objs[o]).layer = objs[o].layer
  BY <1>7 DEF Bare
<1>. QED BY <1>3, <1>4, <1>8 DEF Agree

\* What holds while the records stay the same.
LEMMA ScreenFacts ==
  ASSUME ScreenInv
  PROVE  /\ IsSnapshot(backend.recs) /\ AllShown(backend.recs)
         /\ \A g : Backs(Memory(backend.recs, g), backend.recs)
         /\ SceneInv(backend.scene, backend.recs) /\ IsBackend(backend)
         /\ Ids(backend.recs) \subseteq Objects
         /\ \A o \in Ids(backend.recs) \ {Nameless} :
              Checked(o) = backend.scene.layers[LayerOf(backend.recs, o)]
<1>1. IsSnapshot(backend.recs) /\ AllShown(backend.recs)
      /\ SceneInv(backend.scene, backend.recs) /\ IsBackend(backend)
      /\ Agree(backend.recs, shown) /\ backend.scene.layers = boxes
  BY DEF ScreenInv, RecordsInv, Marked
<1>2. \A g : Backs(Memory(backend.recs, g), backend.recs)
  BY <1>1, MemoryBacks
<1>3. /\ Ids(backend.recs) \subseteq Objects
      /\ \A o \in Ids(backend.recs) \ {Nameless} : shown[o].layer = LayerOf(backend.recs, o)
  BY <1>1, ShownLayer, SnapshotIds
<1>. QED BY <1>1, <1>2, <1>3 DEF Checked

LEMMA FilterScreen ==
  ASSUME ScreenInv, RecordsInv', NEW t \in Types, NEW g, toggleFilter(t, g)
  PROVE  ScreenInv' /\ StaysDark /\ StaysExplained
<1>. DEFINE recs == backend.recs
            s == backend.scene
            u == backend'.scene
            P == {o \in DOMAIN shown : shown[o].visible # filters'[Type(o)]}
<1>0. /\ IsSnapshot(recs) /\ AllShown(recs)
      /\ SceneInv(s, recs) /\ IsBackend(backend)
      /\ Ids(recs) \subseteq Objects
      /\ \A o \in Ids(recs) \ {Nameless} : Checked(o) = s.layers[LayerOf(recs, o)]
  BY ScreenFacts
<1>1. /\ filters' = [filters EXCEPT ![t] = ~@] /\ boxes' = boxes
      /\ backend' = applyObjectFilters(backend, shown, filters', g)
      /\ shown' = Filtered(shown, filters')
  BY DEF toggleFilter
<1>2. DOMAIN shown = Ids(recs) /\ DOMAIN shown \subseteq Objects
  BY SnapshotIds DEF ScreenInv, RecordsInv, Agree
<1>3. FilterSet(backend, backend', filters', P)
  <2>1. \A f : FilterSet(backend, applyObjectFilters(backend, shown, f, g), f,
                        {o \in DOMAIN shown : shown[o].visible # f[Type(o)]})
    BY <1>0, <1>2, FilterIs
  <2>. QED BY <1>1, <2>1
<1>4. /\ Redrawn(backend, backend') /\ SceneInv(u, recs)
      /\ SameBut(s, u, {"hidden", "objs", "loaded", "batches"})
      /\ Dark(s, recs) => Dark(u, recs)
      /\ \A o : o \notin P => (o \in u.hidden <=> o \in s.hidden)
      /\ \A o \in P : o \in DOMAIN s.batchOf => (o \in u.hidden <=> ~filters'[Type(o)])
      /\ \A o \in DOMAIN s.objs : o \notin DOMAIN s.batchOf =>
           (o \in P => (o \in u.hidden <=> ~(filters'[Type(o)] /\ s.layers[LayerOf(recs, o)])))
  BY <1>3 DEF FilterSet
<1>5. backend'.recs = recs /\ backend'.layers = backend.layers /\ backend'.selected = backend.selected
      /\ u.layers = s.layers
  BY <1>4 DEF Redrawn, SameRecords, SameBut, SceneFields
<1>6. filters' \in [Types -> BOOLEAN] /\ \A x \in Types : x # t => filters'[x] = filters[x]
  BY <1>1 DEF ScreenInv
<1>7. \A o : Type(o) \in Types
  BY DEF Type, Types
<1>8. /\ DOMAIN shown' = DOMAIN shown
      /\ \A o \in DOMAIN shown : shown'[o] = [shown[o] EXCEPT !.visible = filters'[Type(o)]]
  BY <1>1 DEF Filtered
<1>9. \A o \in DOMAIN shown : DOMAIN shown[o] = {"id", "layer", "geometry", "visible"}
  BY DEF ScreenInv, RecordsInv, Agree
<1>10. \A o \in DOMAIN shown : shown'[o].visible = filters'[Type(o)] /\ shown'[o].layer = shown[o].layer
  BY <1>8, <1>9
<1>11. ScreenInv'
  <2>1. sceneLoaded' = sceneLoaded
    BY <1>1 DEF sceneLoaded
  <2>. HIDE DEF P
  <2>. QED BY <1>0, <1>1, <1>4, <1>5, <1>6, <1>8, <1>10, <2>1 DEF ScreenInv
<1>12. StaysDark
  BY <1>4, <1>5 DEF StaysDark
<1>13. ASSUME NEW o \in Ids(recs) \ {Nameless}, o \in DOMAIN s.objs, Explained(o) PROVE Explained(o)'
  <2>0. o \in DOMAIN shown
    BY <1>2
  <2>1. Checked(o)' = Checked(o) /\ Checked(o) = s.layers[LayerOf(recs, o)]
    BY <1>0, <1>1, <1>10, <2>0 DEF Checked
  <2>2. CASE o \in P
    BY <1>4, <1>13, <2>1, <2>2 DEF Explained, scene
  <2>3. CASE o \notin P
    <3>1. shown[o].visible = filters[Type(o)] /\ shown[o].visible = filters'[Type(o)]
      BY <2>0, <2>3 DEF ScreenInv
    <3>. QED BY <1>4, <1>5, <1>13, <2>1, <2>3, <3>1 DEF Explained, scene
  <2>. QED BY <2>2, <2>3
<1>14. StaysExplained
  BY <1>13 DEF StaysExplained
<1>. QED BY <1>11, <1>12, <1>14

\* A layer is switched, or told again what it is.
LEMMA LayerScreen ==
  ASSUME ScreenInv, RecordsInv', NEW l \in DOMAIN boxes, NEW v \in BOOLEAN, NEW g,
         boxes' = [boxes EXCEPT ![l] = v], backend' = updateLayerState(backend, l, v, g),
         UNCHANGED <<shown, filters>>
  PROVE  ScreenInv' /\ StaysDark /\ StaysExplained
<1>. DEFINE recs == backend.recs
            s == backend.scene
            u == backend'.scene
<1>0. /\ IsSnapshot(recs) /\ AllShown(recs)
      /\ SceneInv(s, recs) /\ IsBackend(backend) /\ Backs(Memory(recs, g), recs)
      /\ Ids(recs) \subseteq Objects
      /\ \A o \in Ids(recs) \ {Nameless} : Checked(o) = s.layers[LayerOf(recs, o)]
  BY ScreenFacts
<1>1. /\ l \in DOMAIN boxes /\ l \in Layers /\ boxes' = [boxes EXCEPT ![l] = v]
      /\ backend' = updateLayerState(backend, l, v, g)
      /\ shown' = shown /\ filters' = filters
  BY DEF ScreenInv, RecordsInv
<1>2. /\ backend.layers = boxes /\ s.layers = boxes
      /\ \A k \in DOMAIN boxes : boxes[k] \in BOOLEAN
  BY DEF ScreenInv
<1>3. /\ SameRecords(backend, backend') /\ backend'.selected = backend.selected
      /\ backend'.layers = [k \in DOMAIN boxes |-> IF k = l THEN v ELSE boxes[k]]
      /\ u = updateLayer(s, l, v, Memory(recs, g))
  <2>1. Switched(backend, backend', l, v, g)
    BY <1>1, LayerBackend DEF ScreenInv, RecordsInv
  <2>. QED BY <1>2, <2>1 DEF Switched
<1>4. LayerSet(s, u, recs, l, v)
  BY <1>0, <1>1, <1>2, <1>3, UpdateLayerIs
<1>5. /\ SceneInv(u, recs) /\ SameBut(s, u, {"layers", "hidden", "objs", "batches"})
      /\ u.layers = [k \in DOMAIN boxes |-> IF k = l THEN v ELSE boxes[k]]
      /\ Dark(s, recs) => Dark(u, recs)
      /\ \A x : IF x \in DOMAIN s.objs /\ x \notin Batched /\ LayerOf(recs, x) = l
                THEN x \in u.hidden <=> ~v
                ELSE x \in u.hidden <=> x \in s.hidden
  BY <1>2, <1>4 DEF LayerSet
<1>6. /\ backend'.recs = recs /\ boxes' = [k \in DOMAIN boxes |-> IF k = l THEN v ELSE boxes[k]]
  BY <1>1, <1>3 DEF SameRecords
<1>7. ScreenInv'
  <2>1. DOMAIN boxes' = DOMAIN boxes /\ boxes' \in [DOMAIN boxes' -> BOOLEAN]
    BY <1>2, <1>6
  <2>2. sceneLoaded' = sceneLoaded
    BY <2>1 DEF sceneLoaded
  <2>. QED BY <1>0, <1>1, <1>3, <1>5, <1>6, <2>1, <2>2 DEF ScreenInv
<1>8. StaysDark
  BY <1>5, <1>6 DEF StaysDark
<1>9. ASSUME NEW o \in Ids(recs) \ {Nameless}, o \in DOMAIN s.objs, Explained(o) PROVE Explained(o)'
  <2>1. o \in Objects /\ Checked(o) = boxes[LayerOf(recs, o)] /\ LayerOf(recs, o) \in DOMAIN boxes
    BY <1>0, <1>2 DEF SceneInv, Links, Indexed
  <2>2. Checked(o)' = boxes'[LayerOf(recs, o)]
    BY <1>1, ShownLayer DEF Checked, ScreenInv, RecordsInv
  <2>3. CASE o \notin Batched /\ LayerOf(recs, o) = l
    BY <1>5, <1>6, <1>9, <2>1, <2>2, <2>3 DEF Explained, scene
  <2>4. CASE o \notin Batched /\ LayerOf(recs, o) # l
    BY <1>1, <1>3, <1>5, <1>6, <1>9, <2>1, <2>2, <2>4 DEF Explained, scene
  <2>5. CASE o \in Batched
    <3>1. o \notin s.hidden \/ o = s.previous
      BY <1>0, <1>9, <2>5 DEF SceneInv, Placeholders
    <3>2. o # None /\ s.previous \in {None, backend.selected}
      BY <2>1, SceneAssumption DEF ScreenInv, RecordsInv, Marked
    <3>. QED BY <1>3, <1>5, <2>5, <3>1, <3>2 DEF Explained, scene
  <2>. QED BY <2>3, <2>4, <2>5
<1>10. StaysExplained
  BY <1>9 DEF StaysExplained
<1>. QED BY <1>7, <1>8, <1>10

\* A step that changes of the backend at most the selection and the scene.
LEMMA ScreenKept ==
  ASSUME ScreenInv, RecordsInv', UNCHANGED <<shown, boxes, filters>>,
         backend'.recs = backend.recs, backend'.layers = backend.layers,
         SceneInv(backend'.scene, backend.recs), backend'.scene.layers = backend.scene.layers
  PROVE  ScreenInv'
<1>1. sceneLoaded' = sceneLoaded
  BY DEF sceneLoaded
<1>. QED BY <1>1 DEF ScreenInv

\* One that changes neither what is hidden nor what is selected.
LEMMA ExplainedKept ==
  ASSUME UNCHANGED <<shown, boxes, filters>>, backend'.selected = backend.selected,
         backend'.scene.hidden = backend.scene.hidden
  PROVE  StaysExplained
BY DEF StaysExplained, Explained, Checked, scene

LEMMA MenuScreen ==
  ASSUME ScreenInv, RecordsInv', NEW g, HideOrShow(g)
  PROVE  ScreenInv' /\ StaysDark
<1>. DEFINE recs == backend.recs
            s == backend.scene
            u == backend'.scene
<1>0. IsSnapshot(recs) /\ SceneInv(s, recs) /\ IsBackend(backend) /\ Backs(Memory(recs, g), recs)
  BY ScreenFacts
<1>1. PICK o, v : backend' = setVisible(backend, o, v, g)
  BY DEF HideOrShow, handleContextMenu
<1>2. UNCHANGED <<shown, boxes, filters>>
  BY DEF HideOrShow
<1>3. Redrawn(backend, backend')
  BY <1>0, <1>1, SetVisibleBackend
<1>4. u = setObjectVisible(s, o, v, Memory(recs, g))
  BY <1>0, <1>1 DEF setVisible, IsBackend, BackendFields
<1>5. ObjectSet(s, u, recs, o, v)
  BY <1>0, <1>4, SetObjectIs
<1>6. /\ SceneInv(u, recs) /\ u.layers = s.layers
      /\ Dark(s, recs) => Dark(u, recs)
  BY <1>5 DEF ObjectSet, SameBut, SceneFields
<1>7. backend'.recs = recs /\ backend'.layers = backend.layers
  BY <1>3 DEF Redrawn, SameRecords
<1>8. ScreenInv'
  BY <1>2, <1>6, <1>7, ScreenKept
<1>. QED BY <1>6, <1>7, <1>8 DEF StaysDark

\* Select and a step of the history that selects.
LEMMA SelectScreen ==
  ASSUME ScreenInv, RecordsInv', NEW o, NEW g, backend' = updateSelection(backend, o, g),
         UNCHANGED <<shown, boxes, filters>>
  PROVE  ScreenInv' /\ StaysDark /\ StaysExplained
<1>. DEFINE recs == backend.recs
            s == backend.scene
            u == backend'.scene
<1>0. /\ IsSnapshot(recs) /\ SceneInv(s, recs) /\ IsBackend(backend)
      /\ Backs(Memory(recs, g), recs)
      /\ \A x \in Ids(recs) : x \in Objects
  BY ScreenFacts
<1>1. /\ SameRecords(backend, backend') /\ backend'.layers = backend.layers
      /\ backend'.selected = o
      /\ u = setSelectedObject(s, o, Memory(recs, g))
  BY <1>0, SelectBackend
<1>2. /\ SceneInv(u, recs) /\ Reselected(s, u)
      /\ \A x \in u.hidden : \/ x = o /\ x \in Batched
                             \/ x \in s.hidden /\ (x \in DOMAIN s.batchOf => x # s.previous)
  BY <1>0, <1>1, SelectIs
<1>3. u.layers = s.layers /\ backend'.recs = recs
  BY <1>1, <1>2 DEF Reselected, SameBut, SceneFields, SameRecords
<1>4. ScreenInv'
  BY <1>1, <1>2, <1>3, ScreenKept
<1>5. StaysDark
  BY <1>0, <1>2, <1>3, ReselectedKeeps DEF StaysDark
<1>6. ASSUME NEW x \in Ids(recs) \ {Nameless}, x \in DOMAIN s.objs, Explained(x) PROVE Explained(x)'
  <2>1. Checked(x)' = Checked(x)
    BY DEF Checked
  <2>2. SUFFICES ASSUME x \in u.hidden, x \in s.hidden, x \in DOMAIN s.batchOf => x # s.previous,
                        x \in Batched
                 PROVE  FALSE
    BY <1>1, <1>2, <1>6, <2>1 DEF Explained, scene
  <2>. QED BY <1>0, <1>6, <2>2 DEF SceneInv, Placeholders
<1>7. StaysExplained
  BY <1>6 DEF StaysExplained
<1>. QED BY <1>4, <1>5, <1>7

LEMMA FrameScreen ==
  ASSUME ScreenInv, RecordsInv', NEW g, Frame(g)
  PROVE  ScreenInv' /\ StaysDark /\ StaysExplained
<1>. DEFINE recs == backend.recs
            s == backend.scene
            u == backend'.scene
<1>0. /\ IsSnapshot(recs) /\ AllShown(recs) /\ SceneInv(s, recs) /\ IsBackend(backend)
      /\ Backs(Memory(recs, g), recs)
  BY ScreenFacts
<1>1. backend' = renderFrame(backend, frustum, g) /\ UNCHANGED <<shown, boxes, filters>>
  BY DEF Frame
<1>2. Redrawn(backend, backend')
  BY <1>0, <1>1, RenderBackend
<1>3. u = ensureObjectsInFrustum(s, Len(recs), frustum, Memory(recs, g))
  BY <1>0, <1>1 DEF renderFrame, IsBackend, BackendFields
<1>4. /\ SceneInv(u, recs) /\ SameBut(s, u, {"objs", "ghosts", "loaded"})
      /\ Dark(s, recs) => Dark(u, recs)
  BY <1>0, <1>3, EnsureIs
<1>5. u.layers = s.layers /\ u.hidden = s.hidden
  BY <1>4 DEF SameBut, SceneFields
<1>6. /\ backend'.recs = recs /\ backend'.layers = backend.layers
      /\ backend'.selected = backend.selected
  BY <1>2 DEF Redrawn, SameRecords
<1>7. ScreenInv'
  BY <1>1, <1>4, <1>5, <1>6, ScreenKept
<1>. QED BY <1>1, <1>4, <1>5, <1>6, <1>7, ExplainedKept DEF StaysDark

LEMMA RescaleScreen ==
  ASSUME ScreenInv, RecordsInv', NEW g, Rescale(g)
  PROVE  ScreenInv'
<1>. DEFINE recs == backend.recs
            s == backend.scene
            u == backend'.scene
<1>0. /\ IsSnapshot(recs) /\ AllShown(recs) /\ SceneInv(s, recs) /\ IsBackend(backend)
      /\ Backs(Memory(recs, g), recs)
  BY ScreenFacts
<1>1. PICK fitted : backend' = loadScene(backend, recs, backend.layers, frustum, fitted, g)
  BY DEF Rescale, setHeightScale
<1>2. UNCHANGED <<shown, boxes, filters>>
  BY DEF Rescale
<1>3. /\ backend'.recs = recs /\ backend'.layers = backend.layers
      /\ u = LoadedScene(s, recs, backend.layers, frustum, fitted, Memory(recs, g))
  <2>1. backend'.recs = recs
    BY <1>0, <1>1, LoadBackend DEF Reopened
  <2>2. backend'.layers = backend.layers
    BY <1>0, <1>1, LoadBackend DEF Reopened
  <2>3. u = LoadedScene(s, recs, backend.layers, frustum, fitted, Memory(recs, g))
    BY <1>0, <1>1, LoadBackend DEF Reopened
  <2>. QED BY <2>1, <2>2, <2>3
<1>4. backend.layers = s.layers
  BY DEF ScreenInv
<1>5. \A i \in 1 .. Len(recs) : recs[i].layer \in DOMAIN backend.layers
  BY <1>0, <1>4 DEF SceneInv, Links, Indexed
<1>6. SceneInv(u, recs) /\ u.layers = backend.layers
  BY <1>0, <1>3, <1>5, LoadSceneIs
<1>. QED BY <1>2, <1>3, <1>4, <1>6, ScreenKept

\* The first load: the filters that were set before it are applied to it.
LEMMA FirstScreen ==
  ASSUME ScreenInv, RecordsInv', ~sceneLoaded, NEW d \in Designs, NEW g, refreshView(d, g)
  PROVE  ScreenInv' /\ StaysExplained /\ Dark(backend.scene, backend.recs)'
<1>. DEFINE objs == ById(d)
            mem == Memory(d, g)
            u == backend'.scene
<1>1. PICK fitted :
        backend' = applyObjectFilters(loadScene(backend, d, AllVisible, frustum, fitted, g),
                                      objs, filters, g)
  BY DEF refreshView
<1>2. shown' = Filtered(objs, filters) /\ boxes' = AllVisible /\ filters' = filters
  BY DEF refreshView
<1>. DEFINE b == loadScene(backend, d, AllVisible, frustum, fitted, g)
            P == {o \in DOMAIN objs : objs[o].visible # filters[Type(o)]}
<1>3. /\ IsSnapshot(d) /\ DOMAIN objs = Ids(d) /\ DOMAIN objs \subseteq Objects
      /\ AllShown(d)
  BY DesignIs, DesignAssumption DEF AllShown
<1>4. /\ Marked(b) /\ b.recs = d /\ b.layers = AllVisible
      /\ b.scene = LoadedScene(backend.scene, d, AllVisible, frustum, fitted, mem)
  BY LoadBackend DEF ScreenInv, RecordsInv, Marked, Reopened
<1>5. /\ AllVisible \in [Layers -> BOOLEAN] /\ DOMAIN AllVisible = Layers
      /\ \A l \in Layers : AllVisible[l] = TRUE
  BY DEF AllVisible
<1>6. /\ \A i \in 1 .. Len(d) : d[i].layer \in Layers
      /\ \A o \in Ids(d) : LayerOf(d, o) \in Layers
  <2>1. \A o \in Ids(d) : Slot(d, o) \in 1 .. Len(d)
    BY <1>3, SlotIs DEF IsSnapshot
  <2>2. \A r \in ObjectRecord : r.layer \in Layers
    BY DEF ObjectRecord
  <2>. QED BY <1>3, <2>1, <2>2, SnapshotIds DEF LayerOf
<1>7. SceneInv(b.scene, d) /\ b.scene.layers = AllVisible
  <2>1. Backs(mem, d)
    BY <1>3, MemoryBacks
  <2>. HIDE DEF b, mem
  <2>. QED BY <1>3, <1>4, <1>5, <1>6, <2>1, LoadSceneIs
<1>8. FilterSet(b, backend', filters, P)
  <2>. HIDE DEF b, objs
  <2>1. FilterSet(b, applyObjectFilters(b, objs, filters, g), filters, P)
    BY <1>3, <1>4, <1>7, FilterIs DEF Marked
  <2>. QED BY <1>1, <2>1 DEF b, objs
<1>. HIDE DEF b, P
<1>9. /\ backend'.recs = d /\ backend'.layers = AllVisible /\ SceneInv(u, d)
      /\ u.layers = AllVisible
  BY <1>4, <1>7, <1>8 DEF FilterSet, Redrawn, SameRecords, SameBut, SceneFields
<1>10. \A o \in DOMAIN shown' : shown'[o].visible = filters[Type(o)]
  <2>1. \A o \in DOMAIN objs : objs[o] \in ObjectRecord
    <3>1. \A o \in Ids(d) : ById(d)[o] \in Range(d)
      BY DesignIs
    <3>2. Range(d) \subseteq ObjectRecord
      BY <1>3 DEF IsSnapshot, Range
    <3>. QED BY <1>3, <3>1, <3>2
  <2>2. \A r \in ObjectRecord : \A v : [r EXCEPT !.visible = v].visible = v
    BY DEF ObjectRecord
  <2>. HIDE DEF objs
  <2>. QED BY <1>2, <2>1, <2>2 DEF Filtered
<1>12. ScreenInv'
  BY <1>2, <1>3, <1>5, <1>9, <1>10 DEF ScreenInv
<1>13. StaysExplained
  <2>1. Ids(backend.recs) = {}
    BY DEF ScreenInv, RecordsInv, Ids, Range
  <2>. QED BY <2>1 DEF StaysExplained
<1>14. Dark(u, d)
  BY <1>5, <1>6, <1>9 DEF Dark, SceneInv, Links, Nodes
<1>. QED BY <1>9, <1>12, <1>13, <1>14

\* A step of the window between two reloads.
LEMMA ScreenNext ==
  ASSUME "refresh" \notin Operations, ScreenInv, [Next]_windowVars
  PROVE  /\ ScreenInv'
         /\ StaysDark \/ Dark(backend.scene, backend.recs)' \/ \E g \in Garbage : Rescale(g)
         /\ StaysExplained \/ \E g \in Garbage : HideOrShow(g) \/ Rescale(g)
<1>. DEFINE Goal == /\ ScreenInv'
                    /\ \/ StaysDark \/ Dark(backend.scene, backend.recs)'
                       \/ \E g \in Garbage : Rescale(g)
                    /\ StaysExplained \/ \E g \in Garbage : HideOrShow(g) \/ Rescale(g)
<1>0. RecordsInv'
  BY RecordsNext DEF ScreenInv
<1>1. ScreenInv' /\ StaysDark /\ StaysExplained => Goal
  OBVIOUS
<1>2. ASSUME NEW d \in Designs, NEW g, refreshView(d, g) PROVE Goal
  <2>1. ~sceneLoaded
    BY <1>2 DEF refreshView
  <2>. QED BY <1>0, <1>2, <2>1, FirstScreen
<1>3. ASSUME NEW t \in Types, NEW g, toggleFilter(t, g) PROVE Goal
  BY <1>0, <1>1, <1>3, FilterScreen
<1>4. ASSUME NEW l, NEW g, onLayerVisibilityChanged(l, g) \/ onLayerStyleChanged(l, g) PROVE Goal
  <2>1. l \in DOMAIN boxes /\ boxes[l] \in BOOLEAN /\ (~boxes[l]) \in BOOLEAN
    BY <1>4 DEF onLayerVisibilityChanged, onLayerStyleChanged, ScreenInv
  <2>2. PICK v \in BOOLEAN : /\ boxes' = [boxes EXCEPT ![l] = v]
                             /\ backend' = updateLayerState(backend, l, v, g)
    <3>1. CASE onLayerVisibilityChanged(l, g)
      BY <2>1, <3>1 DEF onLayerVisibilityChanged
    <3>2. CASE onLayerStyleChanged(l, g)
      <4>1. boxes' = [boxes EXCEPT ![l] = boxes[l]] /\ backend' = updateLayerState(backend, l, boxes[l], g)
        <5>1. boxes = [boxes EXCEPT ![l] = boxes[l]]
          BY <2>1 DEF ScreenInv
        <5>. QED BY <3>2, <5>1 DEF onLayerStyleChanged
      <4>. QED BY <2>1, <4>1
    <3>. QED BY <1>4, <3>1, <3>2
  <2>3. UNCHANGED <<shown, filters>>
    BY <1>4 DEF onLayerVisibilityChanged, onLayerStyleChanged
  <2>. QED BY <1>0, <1>1, <2>1, <2>2, <2>3, LayerScreen
<1>5. ASSUME NEW g \in Garbage, HideOrShow(g) PROVE Goal
  BY <1>0, <1>5, MenuScreen
<1>6. ASSUME NEW g, Select(g) PROVE Goal
  <2>1. PICK o : backend' = updateSelection(backend, o, g)
    BY <1>6 DEF Select
  <2>2. UNCHANGED <<shown, boxes, filters>>
    BY <1>6 DEF Select
  <2>. QED BY <1>0, <1>1, <2>1, <2>2, SelectScreen
<1>7. ASSUME NEW g \in Garbage, Rescale(g) PROVE Goal
  BY <1>0, <1>7, RescaleScreen
<1>8. ASSUME UNCHANGED <<backend, shown, boxes, filters>> PROVE Goal
  <2>1. ScreenInv' /\ StaysDark
    BY <1>0, <1>8, ScreenKept DEF ScreenInv, StaysDark
  <2>2. StaysExplained
    BY <1>8, ExplainedKept
  <2>. QED BY <1>1, <2>1, <2>2
<1>9. ASSUME NEW g, Frame(g) PROVE Goal
  BY <1>0, <1>1, <1>9, FrameScreen
<1>10. ASSUME NEW g, Navigate(g) PROVE Goal
  <2>1. \/ \E o : backend' = updateSelection(backend, o, g)
        \/ backend' = backend
    BY <1>10 DEF Navigate
  <2>2. UNCHANGED <<shown, boxes, filters>>
    BY <1>10 DEF Navigate
  <2>3. CASE backend' = backend
    BY <1>8, <2>2, <2>3
  <2>4. CASE \E o : backend' = updateSelection(backend, o, g)
    <3>1. PICK o : backend' = updateSelection(backend, o, g)
      BY <2>4
    <3>. QED BY <1>0, <1>1, <2>2, <3>1, SelectScreen
  <2>. QED BY <2>1, <2>3, <2>4
<1>11. MoveCamera => UNCHANGED <<backend, shown, boxes, filters>>
  BY DEF MoveCamera
<1>12. UNCHANGED windowVars => UNCHANGED <<backend, shown, boxes, filters>>
  BY DEF windowVars
<1>. HIDE DEF Goal
<1>13. ASSUME Next PROVE Goal
  BY <1>2, <1>3, <1>4, <1>5, <1>6, <1>7, <1>8, <1>9, <1>10, <1>11, <1>13, ReadsGarbage DEF Next
<1>14. Goal
  BY <1>8, <1>12, <1>13
<1>. QED BY <1>14 DEF Goal

LEMMA ScreenInit ==
  ASSUME Init
  PROVE  ScreenInv
<1>1. /\ backend = EmptyBackend /\ shown = <<>> /\ boxes = <<>>
      /\ filters = [t \in Types |-> TRUE]
  BY DEF Init
<1>2. RecordsInv
  BY RecordsInit
<1>3. /\ backend.recs = <<>> /\ backend.layers = <<>> /\ backend.scene = EmptyScene
  BY <1>1 DEF EmptyBackend
<1>. DEFINE s == backend.scene
<1>4. /\ IsScene(s) /\ s.layers = <<>> /\ s.objs = <<>> /\ s.ghosts = {} /\ s.batches = <<>>
      /\ s.batchOf = <<>> /\ s.index = <<>> /\ s.hidden = {} /\ s.loaded = {}
  BY <1>3 DEF EmptyScene, IsScene, SceneFields
<1>5. Ids(<<>>) = {}
  BY DEF Ids, Range
<1>. HIDE DEF s
<1>6. SceneInv(s, <<>>)
  <2>1. <<>> = [o \in Ids(<<>>) |-> Slot(<<>>, o)]
    BY <1>5
  <2>2. DOMAIN <<>> = {}
    OBVIOUS
  <2>3. Links(s, <<>>)
    BY <1>4, <1>5, <2>1, <2>2 DEF Links, Indexed
  <2>4. Geometry(s) /\ Masks(s) /\ Placeholders(s, <<>>) /\ Nodes(s, <<>>)
    BY <1>4, <1>5, <2>2 DEF Geometry, Masks, Placeholders, Nodes
  <2>. QED BY <1>4, <2>3, <2>4 DEF SceneInv
<1>7. AllShown(<<>>)
  BY DEF AllShown
<1>8. filters \in [Types -> BOOLEAN]
  BY <1>1
<1>. QED BY <1>1, <1>2, <1>3, <1>4, <1>6, <1>7, <1>8 DEF ScreenInv, s

\* The invariant of the screen holds as long as the design is not reloaded.
THEOREM ScreenAlways ==
  ASSUME "refresh" \notin Operations
  PROVE  Spec => []ScreenInv
<1>1. Init => ScreenInv
  BY ScreenInit
<1>2. ScreenInv /\ [Next]_windowVars => ScreenInv'
  BY ScreenNext
<1>. QED BY <1>1, <1>2, PTL DEF Spec

LEMMA ExactScreen ==
  ASSUME ScreenInv
  PROVE  ScreenIsExact
<1>. DEFINE recs == backend.recs
            s == backend.scene
<1>0. /\ IsSnapshot(recs) /\ SceneInv(s, recs)
      /\ \A o \in Ids(recs) \ {Nameless} : shown[o].layer = LayerOf(recs, o)
      /\ \A o \in Ids(recs) \ {Nameless} : Checked(o) = s.layers[LayerOf(recs, o)]
  <2>1. Agree(recs, shown) /\ IsSnapshot(recs)
    BY DEF ScreenInv, RecordsInv
  <2>. QED BY <2>1, ScreenFacts, ShownLayer
<1>1. Links(s, recs) /\ Geometry(s) /\ Masks(s) /\ Placeholders(s, recs) /\ Nodes(s, recs)
  BY <1>0 DEF SceneInv
<1>. HIDE DEF s, recs
<1>2. ASSUME NEW o \in Ids(recs) \ {Nameless}, s.layers[LayerOf(recs, o)], Alone(LayerOf(recs, o)),
             o \in Batched
      PROVE  Drawn(s, o) <=> o \notin s.hidden
  <2>1. ~AsNode(s, o)
    BY <1>1, <1>2 DEF AsNode, Nodes
  <2>2. InBatch(s, o) => o \notin s.hidden
    BY <1>1 DEF InBatch, Geometry
  <2>3. ASSUME o \notin s.hidden PROVE InBatch(s, o)
    <3>. DEFINE k == LayerOf(recs, o)
    <3>1. o \in DOMAIN s.batchOf /\ s.batchOf[o] = k /\ k \in DOMAIN s.batches
      BY <1>1, <1>2, <2>3 DEF Placeholders, Links
    <3>2. s.batches[k].mask
      BY <1>1, <1>2, <3>1 DEF Masks
    <3>3. o \in s.batches[k].drawn
      BY <1>1, <2>3, <3>1 DEF Geometry, Members
    <3>. QED BY <3>1, <3>2, <3>3 DEF InBatch
  <2>. QED BY <2>1, <2>2, <2>3 DEF Drawn
<1>3. ASSUME NEW o \in Ids(recs) \ {Nameless}, s.layers[LayerOf(recs, o)], o \notin Batched, o \in s.loaded
      PROVE  Drawn(s, o) <=> o \notin s.hidden
  <2>1. ~InBatch(s, o)
    BY <1>1, <1>3 DEF InBatch, Geometry, Members, Links
  <2>2. AsNode(s, o) <=> o \in DOMAIN s.objs /\ s.objs[o].shown
    BY <1>1, <1>3 DEF AsNode, Nodes
  <2>. QED BY <1>1, <1>3, <2>1, <2>2 DEF Drawn, Nodes
<1>. QED BY <1>0, <1>2, <1>3 DEF ScreenIsExact, scene, s, recs

\* Between two reloads exactly the objects that are not in hiddenObjects_ are on
\* the screen, of those that have an id, are loaded and are on a checked layer
\* that stands alone (setObjectVisible,
\* setLayerVisible, setSelectedObject, buildBatches and ensureObjectsInFrustum of
\* OsgScene).
THEOREM ScreenFollows ==
  ASSUME "refresh" \notin Operations
  PROVE  Spec => []ScreenIsExact
BY ScreenAlways, ExactScreen, PTL

LEMMA LayersAreDark ==
  ASSUME ScreenInv
  PROVE  LayersHold <=> Dark(backend.scene, backend.recs)
<1>. DEFINE recs == backend.recs
            s == backend.scene
<1>0. /\ SceneInv(s, recs)
      /\ \A o \in Ids(recs) \ {Nameless} : Checked(o) = s.layers[LayerOf(recs, o)]
  BY ScreenFacts
<1>1. s.layers = boxes
  BY DEF ScreenInv
<1>2. s.ghosts = {} /\ DOMAIN s.objs \subseteq Ids(recs)
  BY <1>0 DEF SceneInv, Nodes
<1>3. \A o \in DOMAIN s.objs : s.objs[o].node => o # Nameless
  BY <1>0, SceneAssumption DEF SceneInv, Nodes
<1>4. (\A o \in Ids(recs) \ {Nameless} : AsNode(s, o) => Checked(o)) <=>
      (\A o \in DOMAIN s.objs : s.objs[o].node /\ s.objs[o].shown => s.layers[LayerOf(recs, o)])
  BY <1>0, <1>2, <1>3 DEF AsNode
<1>. QED BY <1>1, <1>4 DEF LayersHold, Dark, scene

\* Between two reloads nothing of an unchecked layer comes back but by rescaling
\* (setObjectVisible, LoadObject and setSelectedObject against buildBatches).
THEOREM UncheckedStaysOff ==
  ASSUME "refresh" \notin Operations
  PROVE  Spec => OnlyRescaleShowsUnchecked
<1>1. ScreenInv => (LayersHold <=> Dark(backend.scene, backend.recs))
  BY LayersAreDark
<1>2. ScreenInv' => (LayersHold' <=> Dark(backend.scene, backend.recs)')
  BY <1>1, PTL
<1>3. ScreenInv /\ [Next]_windowVars =>
        [LayersHold => LayersHold' \/ \E g \in Garbage : Rescale(g)]_windowVars
  BY <1>1, <1>2, ScreenNext DEF StaysDark
<1>. QED BY <1>3, ScreenAlways, PTL DEF Spec, OnlyRescaleShowsUnchecked

\* Between two reloads an object that has a node does not stay hidden when the
\* filter, the layer or the selection that hid it no longer does (applyObjectFilters
\* of the window, setLayerVisible and setSelectedObject of OsgScene).
THEOREM NothingStaysHidden ==
  ASSUME "refresh" \notin Operations
  PROVE  Spec => HiddenForAReason
<1>1. ScreenInv /\ [Next]_windowVars =>
        [\A o \in Ids(backend.recs) \ {Nameless} :
           Explained(o) => \/ Explained(o)'
                           \/ o \notin DOMAIN scene.objs
                           \/ \E g \in Garbage : HideOrShow(g) \/ Rescale(g)]_windowVars
  BY ScreenNext DEF StaysExplained, scene
<1>. QED BY <1>1, ScreenAlways, PTL DEF Spec, HiddenForAReason
=============================================================================
