----------------------------- MODULE OsgBackend -----------------------------
(***************************************************************************)
(* The backend of the 3D viewer (OsgBackend): its copy of the snapshot,    *)
(* its index of pointers into it, the selection, and the calls it makes of *)
(* the scene.  As in OsgScene an operation is an operator, here on records *)
(* with the fields                                                         *)
(*   recs      snapshot_.objects, a vector                                 *)
(*   capacity  the records that fit into the memory of that vector         *)
(*   layers    snapshot_.layers: the visible flag of each layer            *)
(*   ptrs      objectIndex_                                                *)
(*   selected  selectedObjectId_                                           *)
(*   scene     scene_                                                      *)
(* The parameter g of an operation is what a read through a pointer gives  *)
(* when the record is gone: it was erased, or the vector outgrew its       *)
(* memory and all its records moved.                                       *)
(***************************************************************************)
EXTENDS OsgScene

CONSTANT Spare          \* records loadScene reserves memory for, 10000 in the code

ASSUME BackendAssumption == Spare \in Nat \ {0}

EmptyBackend == [recs |-> <<>>, capacity |-> 0, layers |-> <<>>, ptrs |-> <<>>,
                 selected |-> None, scene |-> EmptyScene]

\* Reading freed memory: a record with any id, of no layer.
Garbage == [id : Objects \cup {None}, layer : {None}, geometry : {0}, visible : {TRUE}]

Memory(recs, g) == [p \in Int |-> IF p \in DOMAIN recs THEN recs[p] ELSE g]

\* The pointers that are held and point to no record.
Dangling(b) ==
    LET held == Range(b.ptrs) \cup Range(b.scene.index)
                  \cup UNION {Range(b.scene.batches[k].records) : k \in DOMAIN b.scene.batches}
    IN  held \ DOMAIN b.recs

updateSelection(b, o, g) ==
    [b EXCEPT !.selected = o,
              !.scene = setSelectedObject(@, o, Memory(b.recs, g))]

clearSelection(b, g) == updateSelection(b, None, g)

\* Mutated form of Reserved: memory for the records of the snapshot alone.
ReservedForCopy(b, recs) == IF b.capacity > Len(recs) THEN b.capacity ELSE Len(recs)

\* The capacity after reserve; the memory of a vector never shrinks.
Reserved(b, recs) == IF b.capacity > Len(recs) + Spare THEN b.capacity ELSE Len(recs) + Spare

\* The scene is loaded with the frustum of the camera as it was, and again
\* when the camera has been fitted to it.
loadScene(b, recs, layers, frustum, fitted, g) ==
    LET mem == Memory(recs, g)
        loaded == clearSelection(
                    [b EXCEPT !.recs = recs,
                              !.capacity = Reserved(b, recs),
                              !.layers = layers,
                              !.ptrs = [o \in Ids(recs) |-> Slot(recs, o)],
                              !.scene = loadSnapshot(@, recs, layers, frustum, mem)], g)
    IN  [loaded EXCEPT !.scene = ensureObjectsInFrustum(@, Len(recs), fitted, mem)]

\* The keys + and -.
setHeightScale(b, frustum, fitted, g) ==
    IF b.recs = <<>> THEN b
    ELSE loadScene(b, b.recs, b.layers, frustum, fitted, g)

updateLayerState(b, l, visible, g) ==
    [b EXCEPT !.layers = [k \in DOMAIN @ |-> IF k = l THEN visible ELSE @[k]],
              !.scene = updateLayer(@, l, visible, Memory(b.recs, g))]

\* The record differs from the one that is stored in its visibility alone.
VisibilityOnly(recs, r) ==
    r.id \in Ids(recs) /\ recs[Slot(recs, r.id)] = [r EXCEPT !.visible = ~@]

\* One record of an update, in the vector and in one of the two lists that
\* updateObjects makes for the scene.  A vector that is full moves to twice
\* the memory, and no pointer into the old one is good any more.
Store(u, r) ==
    LET b == u.backend
        new == r.id \notin Ids(b.recs)
        i == IF new THEN Len(b.recs) + 1 ELSE Slot(b.recs, r.id)
        grows == new /\ Len(b.recs) = b.capacity
        hides == VisibilityOnly(b.recs, r)
        ptrs == IF grows THEN [o \in DOMAIN b.ptrs |-> 0] ELSE b.ptrs
    IN  [backend |-> [b EXCEPT !.recs = [j \in 1..Len(@) \cup {i} |-> IF j = i THEN r ELSE @[j]],
                               !.capacity = IF grows THEN 2 * @ ELSE @,
                               !.ptrs = IF hides THEN ptrs ELSE With(ptrs, r.id, i)],
         fullUpdates |-> IF hides THEN u.fullUpdates ELSE Append(u.fullUpdates, r),
         visibilityOnlyUpdates |-> IF hides THEN Append(u.visibilityOnlyUpdates, r)
                                   ELSE u.visibilityOnlyUpdates]

updateObjects(b, updates, g) ==
    LET u == FoldLeft(Store, [backend |-> b, fullUpdates |-> <<>>, visibilityOnlyUpdates |-> <<>>],
                      updates)
        mem == Memory(u.backend.recs, g)
        moved == IF u.backend.capacity = b.capacity THEN b.scene ELSE Freed(b.scene, Nat)
        Show(s, r) == setObjectVisible(s, r.id, r.visible, mem)
    IN  [u.backend EXCEPT !.scene = FoldLeft(Show, upsertObjects(moved, u.fullUpdates, mem),
                                             u.visibilityOnlyUpdates)]

\* Mutated form of removeObjects: a removed object stays selected.
removeKeepsSelection(b, ids, g) ==
    LET recs == Keep(b.recs, {r \in Range(b.recs) : r.id \notin ids})
    IN  [b EXCEPT !.recs = recs,
                  !.scene = removeObjectsById(@, ids, Memory(recs, g))]

\* The records behind a removed one move up; the index is left as it is.
removeObjects(b, ids, g) ==
    LET recs == Keep(b.recs, {r \in Range(b.recs) : r.id \notin ids})
        c == [b EXCEPT !.recs = recs,
                       !.scene = removeObjectsById(@, ids, Memory(recs, g))]
    IN  IF ids = {} THEN b
        ELSE IF b.selected \in ids THEN clearSelection(c, g)
        ELSE c

setVisible(b, o, visible, g) ==
    [b EXCEPT !.scene = setObjectVisible(@, o, visible, Memory(b.recs, g))]

renderFrame(b, frustum, g) ==
    [b EXCEPT !.scene = ensureObjectsInFrustum(@, Len(b.recs), frustum, Memory(b.recs, g))]

\* What pickObjectAt can return: what is drawn under the cursor and is in the
\* index, and failing that any object of the snapshot near it; never the
\* empty id.  Whether a layer is selectable is left open.
Pickable(b, g) ==
    LET mem == Memory(b.recs, g)
        eligible(r) == r.visible /\ (r.layer \in DOMAIN b.layers => b.layers[r.layer])
    IN  ({o \in DOMAIN b.ptrs : Drawn(b.scene, o) /\ eligible(mem[b.ptrs[o]])}
           \cup {r.id : r \in {q \in Range(b.recs) : eligible(q)}}) \ {Nameless}

\* Hide or Show of the context menu, whichever it offers.
handleContextMenu(b, o, g) == setVisible(b, o, ~isObjectVisible(b.scene, o), g)
=============================================================================
