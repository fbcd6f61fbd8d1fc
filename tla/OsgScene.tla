------------------------------ MODULE OsgScene ------------------------------
(***************************************************************************)
(* The scene of the 3D viewer (OsgScene): which objects have a node, which *)
(* are drawn from a batch, which are hidden, loaded, selected.             *)
(*                                                                         *)
(* A scene is a record and an operation of the class is an operator from   *)
(* scenes to scenes, so that an operation of the backend composes them as  *)
(* the code calls them.  The fields of a scene:                            *)
(*   layers    layers_: the known layers, and whether each is visible      *)
(*   objs      objectsById_ with objectLayerById_: has the object a node   *)
(*             (the placeholder of a batched object has none), is the node *)
(*             shown, and its layer                                        *)
(*   ghosts    objects with a node in objectRoot_ that objectsById_ lost   *)
(*   batches   layerBatches_: the pointers to the records of the batch, by *)
(*             the place of each in the snapshot, the ids its geometry was *)
(*             built from, and the node mask                               *)
(*   batchOf   objectIdToBatchKey_                                         *)
(*   index     objectIndexById_: pointers to records                       *)
(*   spatial   the ids of the objects the spatial index was built with     *)
(*   hidden, loaded, glowing, previous, selected: hiddenObjects_,          *)
(*             loadedObjectIds_, the keys of highlightNodes_,              *)
(*             previousSelectedId_, selectedObjectId_                      *)
(*                                                                         *)
(* A pointer is a number: i > 0 for the i-th record of the vector of the   *)
(* backend, -j for the j-th record of the vector of the running call of    *)
(* upsertObjects, 0 for a record whose memory has been freed.  mem gives   *)
(* the record a pointer points to; reading through a pointer whose record  *)
(* is gone may give anything (OsgBackend says what).                       *)
(*                                                                         *)
(* All batched objects are of one type here, so that the key of a batch is *)
(* its layer and an underscore.  The tops of vias all have the empty id,   *)
(* Nameless: every map by id takes them for one object.                    *)
(***************************************************************************)
EXTENDS Integers, Sequences, FiniteSets, SequencesExt

CONSTANTS Objects,      \* ids an object can have
          Batched,      \* those that are wires or vias
          Nameless,     \* the empty id, as that of a record
          Layers,       \* ids of layers
          Prefixed,     \* the layers whose batch keys begin with that of a layer
          None,         \* the empty id, as that of no object
          Nearest,      \* all ids, by the distance of their objects from the origin
          MaxPerFrame   \* kMaxObjectsPerFrame, 50000 in the code

ASSUME SceneAssumption == /\ Batched \subseteq Objects
                          /\ Nameless \in Batched
                          /\ Prefixed \in [Layers -> SUBSET Layers]
                          /\ \A l \in Layers : l \in Prefixed[l]
                          /\ None \notin Objects \cup Layers
                          /\ IsFiniteSet(Objects) /\ IsFiniteSet(Layers)
                          /\ Nearest \in Seq(Objects) /\ Range(Nearest) = Objects
                          /\ IsInjective(Nearest)
                          /\ MaxPerFrame \in Nat \ {0}

ObjectRecord == [id : Objects, layer : Layers, geometry : Nat, visible : BOOLEAN]

Without(f, S) == [x \in DOMAIN f \ S |-> f[x]]

With(f, x, v) == [y \in DOMAIN f \cup {x} |-> IF y = x THEN v ELSE f[y]]

\* The elements of the sequence q that are in S.
Keep(q, S) == FoldLeft(LAMBDA kept, x : IF x \in S THEN Append(kept, x) ELSE kept, <<>>, q)

Ids(recs) == {r.id : r \in Range(recs)}

\* The record a map by id has of o: the last one that was entered.
Slot(recs, o) == CHOOSE i \in 1..Len(recs) :
                     recs[i].id = o /\ \A j \in 1..Len(recs) : recs[j].id = o => j <= i

EmptyScene ==
    [layers |-> <<>>, objs |-> <<>>, ghosts |-> {}, batches |-> <<>>, batchOf |-> <<>>,
     index |-> <<>>, spatial |-> <<>>, hidden |-> {}, loaded |-> {}, glowing |-> {},
     previous |-> None, selected |-> None]

isLayerVisible(s, l) == l \in DOMAIN s.layers => s.layers[l]

isObjectVisible(s, o) == o \notin s.hidden

rebuildBatches(s, K, mem) ==
    [s EXCEPT !.batches = [k \in DOMAIN @ |->
        IF k \in K THEN [@[k] EXCEPT !.drawn = {mem[p].id : p \in Range(s.batches[k].records)}
                                               \ s.hidden]
        ELSE @[k]]]

rebuildBatch(s, k, mem) == rebuildBatches(s, {k}, mem)

\* createSceneObject and addObject: the node of an object of the same id
\* that is there already is dropped from objectsById_ and stays in the graph.
AddNode(s, rec) ==
    [s EXCEPT !.objs = With(@, rec.id, [node |-> TRUE,
                                        shown |-> isLayerVisible(s, rec.layer) /\ rec.visible,
                                        layer |-> rec.layer]),
              !.ghosts = IF rec.id \in DOMAIN s.objs /\ s.objs[rec.id].node
                         THEN @ \cup {rec.id} ELSE @]

\* Mutated form of setObjectVisible: the batch is not rebuilt.
setVisibleWithoutRebuild(s, o, visible, mem) ==
    IF o \in DOMAIN s.batchOf
    THEN [s EXCEPT !.hidden = IF visible THEN @ \ {o} ELSE @ \cup {o}]
    ELSE s

\* A batched object loses its placeholder; one without a node is left alone.
setObjectVisible(s, o, visible, mem) ==
    IF o \in DOMAIN s.batchOf
    THEN rebuildBatch([s EXCEPT !.hidden = IF visible THEN @ \ {o} ELSE @ \cup {o},
                                !.objs = Without(@, {o}),
                                !.loaded = IF o \in DOMAIN s.objs THEN @ \ {o} ELSE @],
                      s.batchOf[o], mem)
    ELSE IF o \in DOMAIN s.objs
    THEN LET shown == visible /\ isLayerVisible(s, s.objs[o].layer)
         IN  [s EXCEPT !.objs[o].shown = shown,
                       !.hidden = IF shown THEN @ \ {o} ELSE @ \cup {o}]
    ELSE s

\* Mutated form of setLayerVisible: the batches of the layer stay as they are.
setLayerVisibleKeepsBatches(s, l, visible, mem) ==
    IF l \notin DOMAIN s.layers THEN s
    ELSE LET own == {o \in DOMAIN s.objs \ DOMAIN s.batchOf : s.objs[o].layer = l}
         IN  [s EXCEPT !.layers[l] = visible,
                       !.hidden = IF visible THEN @ \ own ELSE @ \cup own,
                       !.objs = [o \in DOMAIN @ |->
                                   IF o \in own THEN [@[o] EXCEPT !.shown = visible] ELSE @[o]]]

\* The objects on the layer that have a node of their own are hidden or
\* shown one by one, those of a batch by the node mask of the batch.  The
\* batches are found by the beginning of their keys.
setLayerVisible(s, l, visible, mem) ==
    IF l \notin DOMAIN s.layers THEN s
    ELSE LET own == {o \in DOMAIN s.objs \ DOMAIN s.batchOf : s.objs[o].layer = l}
             t == [s EXCEPT !.layers[l] = visible,
                            !.hidden = IF visible THEN @ \ own ELSE @ \cup own,
                            !.objs = [o \in DOMAIN @ |->
                                        IF o \in own THEN [@[o] EXCEPT !.shown = visible]
                                        ELSE @[o]]]
             u == [t EXCEPT !.batches = [k \in DOMAIN @ |->
                                           IF k \in Prefixed[l] THEN [@[k] EXCEPT !.mask = visible]
                                           ELSE @[k]]]
         IN  IF visible THEN rebuildBatches(u, Prefixed[l], mem) ELSE u

updateLayer(s, l, visible, mem) ==
    setLayerVisible([s EXCEPT !.layers = With(@, l, visible)], l, visible, mem)

\* The batches of a snapshot, and a placeholder for each batched object that
\* has no entry yet.  Hidden objects get into no batch.  Of the layers of a
\* shared id the order of the map of groups makes one the layer of the
\* placeholder, the first, and one that of the batch, the last.
buildBatches(s, recs) ==
    LET slots == {i \in 1..Len(recs) : /\ recs[i].id \in Batched \ s.hidden
                                       /\ recs[i].layer \in DOMAIN s.layers}
        on(k) == {i \in slots : recs[i].layer = k}
        layers(o) == {recs[i].layer : i \in {j \in slots : recs[j].id = o}}
        last == [o \in {recs[i].id : i \in slots} |-> CHOOSE k \in layers(o) : TRUE]
        first(o) == CHOOSE k \in layers(o) : k = last[o] => layers(o) = {k}
    IN  [s EXCEPT
           !.batches = [k \in {recs[i].layer : i \in slots} |->
                          [records |-> [i \in on(k) |-> s.index[recs[i].id]],
                           drawn |-> {recs[i].id : i \in on(k)},
                           mask |-> TRUE]],
           !.batchOf = last,
           !.objs = [o \in DOMAIN @ \cup DOMAIN last |->
                       IF o \in DOMAIN @ THEN @[o]
                       ELSE [node |-> FALSE, shown |-> TRUE, layer |-> first(o)]]]

----------------------------------------------------------------------------
(* Lazy loading. *)

\* One object in the frustum that is not loaded.  A hidden object counts as
\* loaded and gets no node.  With all in view the id is read from the record.
LoadObject(s, o, mem, all) ==
    IF o \in s.loaded \/ o \notin DOMAIN s.index THEN s
    ELSE LET rec == mem[s.index[o]]
             key == IF all /\ rec.id \notin Batched THEN rec.id ELSE o
             skip == \/ rec.id \in Batched
                     \/ key \in s.hidden
                     \/ key \in DOMAIN s.objs /\ ~isLayerVisible(s, s.objs[key].layer)
         IN  [(IF skip THEN s ELSE AddNode(s, rec)) EXCEPT !.loaded = @ \cup {key}]

\* The nearest objects first.
LoadObjects(s, S, mem, all) ==
    FoldLeft(LAMBDA t, o : IF o \in S THEN LoadObject(t, o, mem, all) ELSE t, s, Nearest)

\* Of the objects in view, those up to the last that may be loaded this frame.
\* An id that objects share counts for each of them.
WithinCap(s, view) ==
    LET ahead(j) == {n \in DOMAIN s.spatial :
                       s.spatial[n] \in {Nearest[i] : i \in 1..(j - 1)} \cap (view \ s.loaded)}
        fits(j) == Cardinality(ahead(j)) + (IF Nearest[j] \in s.loaded THEN 0 ELSE 1) <= MaxPerFrame
    IN  {Nearest[j] : j \in {i \in 1..Len(Nearest) : Nearest[i] \in view /\ fits(i)}}

\* An object that is loaded and out of view loses its node or placeholder;
\* one that has neither stays loaded.
Unload(s, keep) ==
    LET gone == (s.loaded \ keep) \cap DOMAIN s.objs
    IN  [s EXCEPT !.objs = Without(@, gone), !.loaded = @ \ gone]

ensureObjectsInFrustum(s, total, frustum, mem) ==
    LET seen == {n \in DOMAIN s.spatial : s.spatial[n] \in frustum}
        view == {s.spatial[n] : n \in seen}
        near == WithinCap(s, view \cap DOMAIN s.index)
    IN  IF total = 0 THEN s
        ELSE IF 100 * Cardinality(seen) >= 98 * total
        THEN IF Cardinality(s.loaded) < total THEN LoadObjects(s, view, mem, TRUE) ELSE s
        ELSE LoadObjects(Unload(s, near), near, mem, FALSE)

\* clear keeps hiddenObjects_ and selectedObjectId_.
clear(s) == [EmptyScene EXCEPT !.hidden = s.hidden, !.selected = s.selected,
                               !.loaded = s.loaded, !.spatial = s.spatial]

loadSnapshot(s, recs, layers, frustum, mem) ==
    LET fresh == [clear(s) EXCEPT
                    !.layers = layers,
                    !.loaded = {},
                    !.index = [o \in Ids(recs) |-> Slot(recs, o)],
                    !.spatial = IF recs = <<>> THEN @ ELSE [i \in 1..Len(recs) |-> recs[i].id]]
    IN  buildBatches(ensureObjectsInFrustum(fresh, Len(recs), frustum, mem), recs)

----------------------------------------------------------------------------
(* Incremental updates. *)

\* One record of upsertObjects, at p.  A batched object loses its placeholder,
\* and the first pointer of the batch to a record with its id is set to p.
upsertObject(s, rec, p, mem) ==
    LET t == [s EXCEPT !.objs = Without(@, {rec.id})]
        k == s.batchOf[rec.id]
        places == {i \in DOMAIN s.batches[k].records : mem[s.batches[k].records[i]].id = rec.id}
        first == CHOOSE i \in places : \A j \in places : i <= j
        moved == IF rec.id \in DOMAIN s.batchOf /\ k \in DOMAIN s.batches /\ places /= {}
                 THEN [t EXCEPT !.batches[k].records[first] = p]
                 ELSE t
    IN  IF rec.id \notin Batched THEN AddNode(t, rec)
        ELSE IF rec.id \in DOMAIN s.index THEN [moved EXCEPT !.index[rec.id] = p]
        ELSE moved

\* The memory behind the pointers P is freed.
Freed(s, P) ==
    LET f(q) == [x \in DOMAIN q |-> IF q[x] \in P THEN 0 ELSE q[x]]
    IN  [s EXCEPT !.index = f(@),
                  !.batches = [k \in DOMAIN @ |-> [@[k] EXCEPT !.records = f(@)]]]

\* The vector of the caller is gone when upsertObjects returns.
upsertObjects(s, updates, mem) ==
    LET live == [p \in Int |-> IF -p \in DOMAIN updates THEN updates[-p] ELSE mem[p]]
        done == FoldLeft(LAMBDA t, j : upsertObject(t, updates[j], -j, live), s,
                         [j \in 1..Len(updates) |-> j])
        affected == {s.batchOf[o] : o \in Ids(updates) \cap DOMAIN s.batchOf}
    IN  Freed(rebuildBatches(done, affected, live), Int \ Nat)

\* The records are compared through the pointers of the batches.
removeObjectsById(s, ids, mem) ==
    LET out(k) == {i \in DOMAIN s.batches[k].records : mem[s.batches[k].records[i]].id \in ids}
        affected == {k \in DOMAIN s.batches : out(k) /= {}}
        t == [s EXCEPT !.batchOf = Without(@, ids),
                       !.batches = [k \in DOMAIN @ |-> [@[k] EXCEPT !.records = Without(@, out(k))]]]
        u == rebuildBatches(t, affected, mem)
        known == ids \cap DOMAIN s.objs
    IN  [u EXCEPT !.objs = Without(@, known),
                  !.glowing = @ \ known,
                  !.previous = IF @ \in known THEN None ELSE @]

----------------------------------------------------------------------------
(* Selection. *)

\* Mutated form of Deselected: what was selected stays out of its batch.
deselectedStaysOut(s, mem) == [s EXCEPT !.glowing = {}, !.previous = None]

\* What was selected goes back to its batch, whoever hid it.
Deselected(s, mem) ==
    LET t == [s EXCEPT !.glowing = {}, !.previous = None]
    IN  IF s.previous \in DOMAIN s.batchOf
        THEN rebuildBatch([t EXCEPT !.hidden = @ \ {s.previous}], s.batchOf[s.previous], mem)
        ELSE t

\* Mutated form of setSelectedObject: the old highlight stays.
setSelectedKeepsGlow(s, o, mem) ==
    IF o \in DOMAIN s.objs /\ s.objs[o].node
    THEN [s EXCEPT !.glowing = @ \cup {o}, !.previous = o, !.selected = o]
    ELSE s

\* A batched object is taken out of its batch and drawn as a highlight.
setSelectedObject(s, o, mem) ==
    LET t == Deselected(s, mem)
        Glow(u) == [u EXCEPT !.previous = o, !.selected = o, !.glowing = {o}]
    IN  IF o = None THEN [t EXCEPT !.selected = None]
        ELSE IF o \in DOMAIN t.batchOf
        THEN Glow(rebuildBatch([t EXCEPT !.hidden = @ \cup {o}], t.batchOf[o], mem))
        ELSE IF o \in DOMAIN t.objs /\ t.objs[o].node THEN Glow(t)
        ELSE t

----------------------------------------------------------------------------
(* What is on the screen. *)

InBatch(s, o) == \E k \in DOMAIN s.batches : s.batches[k].mask /\ o \in s.batches[k].drawn

AsNode(s, o) == \/ o \in DOMAIN s.objs /\ s.objs[o].node /\ s.objs[o].shown
                \/ o \in s.ghosts

Drawn(s, o) == InBatch(s, o) \/ AsNode(s, o)
=============================================================================
