-------------------------- MODULE OpenRoad3DWindow --------------------------
(***************************************************************************)
(* The window of the 3D viewer (OpenRoad3DWindow), with its layer control, *)
(* its type filters, its own copy of the snapshot, and the backend below   *)
(* it.  The user, the design and the camera are the environment.           *)
(*                                                                         *)
(* A design is the sequence of records that OdbSceneBuilder builds from    *)
(* the database; every design of the model has all layers, all visible,    *)
(* as the builder makes them.                                              *)
(***************************************************************************)
EXTENDS OsgBackend

CONSTANTS Designs,      \* designs the builder can find in the database
          Frusta,       \* sets of objects a camera can have in view
          Poses,        \* poses of the camera
          MaxHistory,   \* views the history holds
          Operations    \* operations the user makes in this instance

\* Every object but the top of a via has an id of its own.
DistinctIds(recs) ==
    \A i, j \in 1..Len(recs) : recs[i].id = recs[j].id => i = j \/ recs[i].id = Nameless

ASSUME DesignAssumption ==
    \A d \in Designs : /\ d \in Seq(ObjectRecord) /\ DistinctIds(d)
                       /\ \A i \in 1..Len(d) : d[i].visible = TRUE

VARIABLES backend,      \* backend_
          shown,        \* snapshot_.objects of the window, by id
          boxes,        \* snapshot_.layers of the window: the check boxes
          filters,      \* showInstCheck_ and showWireCheck_
          frustum,      \* what the camera has in view
          pose,
          back,
          forward

viewVars == <<pose, back, forward>>
windowVars == <<backend, shown, boxes, filters, frustum, viewVars>>

View == INSTANCE ViewHistory WITH selected <- backend.selected, indexed <- DOMAIN backend.ptrs

Type(o) == IF o \in Batched THEN "Wire" ELSE "Inst"
Types == {"Inst", "Wire"}

Init == /\ backend = EmptyBackend
        /\ shown = <<>>
        /\ boxes = <<>>
        /\ filters = [t \in Types |-> TRUE]
        /\ frustum \in Frusta
        /\ pose \in Poses
        /\ back = <<>>
        /\ forward = <<>>

sceneLoaded == DOMAIN boxes /= {}

\* The records of the window whose visibility the filters change, and the
\* calls of the backend for them.
Filtered(objs, f) == [o \in DOMAIN objs |-> [objs[o] EXCEPT !.visible = f[Type(o)]]]

applyObjectFilters(b, objs, f, g) ==
    LET differ == {o \in DOMAIN objs : objs[o].visible /= f[Type(o)]}
    IN  FoldLeft(LAMBDA c, o : setVisible(c, o, f[Type(o)], g), b, SetToSeq(differ))

\* oldById: of records that share an id the first is kept.
ById(recs) == [o \in Ids(recs) |->
                 recs[CHOOSE i \in 1..Len(recs) :
                        recs[i].id = o /\ \A j \in 1..(i - 1) : recs[j].id /= o]]

\* Mutated form of changedOrAdded: only what is new counts.
onlyAdded(design) == Keep(design, {r \in Range(design) : r.id \notin DOMAIN shown})

changedOrAdded(design) ==
    Keep(design, {r \in Range(design) : r.id \in DOMAIN shown => shown[r.id] /= r})

\* The difference of two builds, as calls of the backend in their order.  The
\* layers that differ are those that are not checked and the restyled.
Update(b, design, restyled, g) ==
    LET removed == DOMAIN shown \ Ids(design)
        changed == changedOrAdded(design)
        reset == SetToSeq({l \in Layers : ~boxes[l]} \cup restyled)
        b1 == removeObjects(b, removed, g)
        b2 == IF changed = <<>> THEN b1 ELSE updateObjects(b1, changed, g)
    IN  FoldLeft(LAMBDA c, l : updateLayerState(c, l, TRUE, g), b2, reset)

AllVisible == [l \in Layers |-> TRUE]

\* Called once when the window is shown, and by the reload button.  Of any
\* layers the user may have changed the colour or the selectability before.
refreshView(design, g) ==
    /\ sceneLoaded => "refresh" \in Operations
    /\ \E fitted \in Frusta, restyled \in SUBSET Layers :
         IF sceneLoaded
         THEN /\ backend' = applyObjectFilters(Update(backend, design, restyled, g),
                                              ById(design), filters, g)
              /\ UNCHANGED <<frustum, pose>>
         ELSE /\ backend' = applyObjectFilters(
                              loadScene(backend, design, AllVisible, frustum, fitted, g),
                              ById(design), filters, g)
              /\ frustum' = fitted
              /\ pose' \in Poses
    /\ shown' = Filtered(ById(design), filters)
    /\ boxes' = AllVisible
    /\ UNCHANGED <<filters, back, forward>>

toggleFilter(t, g) ==
    /\ filters' = [filters EXCEPT ![t] = ~@]
    /\ backend' = applyObjectFilters(backend, shown, filters', g)
    /\ shown' = Filtered(shown, filters')
    /\ UNCHANGED <<boxes, frustum, viewVars>>

onLayerVisibilityChanged(l, g) ==
    /\ l \in DOMAIN boxes
    /\ boxes' = [boxes EXCEPT ![l] = ~@]
    /\ backend' = updateLayerState(backend, l, ~boxes[l], g)
    /\ UNCHANGED <<shown, filters, frustum, viewVars>>

\* onLayerSelectabilityChanged and onLayerColorChanged: the scene is told the
\* visibility of the layer again.
onLayerStyleChanged(l, g) ==
    /\ l \in DOMAIN boxes
    /\ backend' = updateLayerState(backend, l, boxes[l], g)
    /\ UNCHANGED <<shown, boxes, filters, frustum, viewVars>>

HideOrShow(g) ==
    /\ \E o \in Pickable(backend, g) : backend' = handleContextMenu(backend, o, g)
    /\ UNCHANGED <<shown, boxes, filters, frustum, viewVars>>

Select(g) ==
    /\ \E o \in Pickable(backend, g) \cup {None} : backend' = updateSelection(backend, o, g)
    /\ UNCHANGED <<shown, boxes, filters, frustum, viewVars>>

Rescale(g) ==
    /\ backend.recs /= <<>>
    /\ \E fitted \in Frusta :
         /\ backend' = setHeightScale(backend, frustum, fitted, g)
         /\ frustum' = fitted
    /\ pose' \in Poses
    /\ UNCHANGED <<shown, boxes, filters, back, forward>>

MoveCamera ==
    /\ frustum' \in Frusta \ {frustum}
    /\ pose' \in Poses
    /\ UNCHANGED <<backend, shown, boxes, filters, back, forward>>

Frame(g) ==
    /\ backend' = renderFrame(backend, frustum, g)
    /\ UNCHANGED <<shown, boxes, filters, frustum, viewVars>>

\* The keys of the view history; a step of the history that changes the
\* selection tells the scene.
Navigate(g) ==
    /\ \E o \in Objects \cup {None} : \/ backend' = updateSelection(backend, o, g)
                                      \/ o = backend.selected /\ backend' = backend
    /\ \/ View!goPreviousView
       \/ View!goNextView
       \/ View!PushView
       \/ \E p \in Poses : View!setAnchorView(p) \/ View!zoomToSelected(p)
    /\ frustum' \in Frusta
    /\ UNCHANGED <<shown, boxes, filters>>

\* What reads through dangling pointers can give in this step.
Reads == IF Dangling(backend) = {} THEN {CHOOSE g \in Garbage : TRUE} ELSE Garbage

Next == \/ \E d \in Designs, g \in Garbage : refreshView(d, g)
        \/ \E g \in Reads :
             \/ \E t \in Types \cap Operations : toggleFilter(t, g)
             \/ "layer" \in Operations /\ \E l \in Layers : onLayerVisibilityChanged(l, g)
             \/ "style" \in Operations /\ \E l \in Layers : onLayerStyleChanged(l, g)
             \/ "hide" \in Operations /\ HideOrShow(g)
             \/ "select" \in Operations /\ Select(g)
             \/ "rescale" \in Operations /\ Rescale(g)
             \/ "camera" \in Operations /\ (MoveCamera \/ Frame(g))
             \/ "history" \in Operations /\ Navigate(g)

Spec == Init /\ [][Next]_windowVars

----------------------------------------------------------------------------

scene == backend.scene

Checked(o) == boxes[shown[o].layer]

\* No other layer has a name that the name of k begins with.
Alone(k) == \A l \in Layers : k \in Prefixed[l] => l = k

(***************************************************************************)
(* Between two reloads the screen follows hiddenObjects_ exactly: of the   *)
(* objects that are loaded and on a checked layer those are drawn that are *)
(* not in it.  Hiding and showing by the menu, by a filter and by the      *)
(* layer, selecting, panning and rescaling all keep the geometry of the    *)
(* batches and the flags of the nodes in step with the set.  It is said of *)
(* objects with an id, on layers whose batches no other layer switches:    *)
(* the tops of vias share one entry of the set, and the box of a layer     *)
(* switches the batches of every layer whose name its own begins.          *)
(***************************************************************************)
ScreenIsExact ==
    \A o \in (Ids(backend.recs) \ {Nameless}) \cap (Batched \cup scene.loaded) :
        Checked(o) /\ Alone(shown[o].layer) => (Drawn(scene, o) <=> o \notin scene.hidden)

(***************************************************************************)
(* A highlight on the screen is that of the object the backend calls       *)
(* selected, also after reloads that remove objects or change them.        *)
(***************************************************************************)
GlowIsSelection == scene.glowing \subseteq {backend.selected}

\* No node and no batch on an unchecked layer is switched on.
LayersHold == /\ \A o \in Ids(backend.recs) \ {Nameless} : AsNode(scene, o) => Checked(o)
              /\ \A k \in DOMAIN scene.batches : Alone(k) /\ scene.batches[k].mask => boxes[k]

(***************************************************************************)
(* Nothing on a layer whose box is not checked comes back to the screen,   *)
(* by selecting, filtering, hiding and showing objects or by panning.      *)
(* Only rescaling can do it: buildBatches shows every batch.               *)
(***************************************************************************)
OnlyRescaleShowsUnchecked ==
    [][LayersHold => LayersHold' \/ \E g \in Garbage : Rescale(g)]_windowVars

\* Why an object that the user did not hide may be hidden.
Explained(o) == \/ o \notin scene.hidden
                \/ ~filters[Type(o)]
                \/ ~Checked(o)
                \/ o \in Batched /\ o = backend.selected

(***************************************************************************)
(* An object that a filter, its layer or the selection has hidden is shown *)
(* again when the reason ends.  Two things keep it hidden for good: it had *)
(* no node at that time, because lazy loading dropped it or had not        *)
(* reached it, or the scene was built anew by rescaling.                   *)
(***************************************************************************)
HiddenForAReason ==
    [][\A o \in Ids(backend.recs) \ {Nameless} :
         Explained(o) => \/ Explained(o)'
                         \/ o \notin DOMAIN scene.objs
                         \/ \E g \in Garbage : HideOrShow(g) \/ Rescale(g)]_windowVars

(***************************************************************************)
(* The difference that refreshView computes and the calls it makes of the  *)
(* backend leave the backend with the objects of the new build, each once, *)
(* whatever was filtered, hidden or selected before; only the flags for    *)
(* visibility may differ.  Of the tops of vias, which the maps by id take  *)
(* for one object, a reload only knows whether there are any.              *)
(***************************************************************************)
RefreshIsComplete ==
    sceneLoaded =>
        /\ DOMAIN shown = Ids(backend.recs)
        /\ DistinctIds(backend.recs)
        /\ \A i \in 1..Len(backend.recs) :
              LET rec == backend.recs[i]
              IN  \/ rec.id = Nameless
                  \/ [rec EXCEPT !.visible = TRUE] = [shown[rec.id] EXCEPT !.visible = TRUE]

\* The index of the backend finds under the id of an object its record.
IndexFindsObject ==
    \A o \in Ids(backend.recs) : /\ o \in DOMAIN backend.ptrs
                                 /\ backend.ptrs[o] = Slot(backend.recs, o)

(***************************************************************************)
(* Two things break the index of the backend, and both take a reload:      *)
(* removeObjects moves the records behind a removed one, and a vector with *)
(* more than Spare records above those loadScene was given has outgrown    *)
(* the memory loadScene reserved for it.  Updates that stay within the     *)
(* reserve, and all else the user does, keep the index right.              *)
(***************************************************************************)
IndexRightWithinReserve ==
    [][IndexFindsObject => \/ IndexFindsObject'
                           \/ Ids(backend.recs) \ Ids(backend'.recs) /= {}
                           \/ Len(backend'.recs) > Len(scene.spatial) + Spare]_windowVars

\* The selected object is one the backend has, or none.
SelectionIsPresent == backend.selected \in Ids(backend.recs) \cup {None}

(***************************************************************************)
(* removeObjects drops the selection with the object.  An object that is   *)
(* gone is selected again in two ways only: by a step of the view history, *)
(* which restores the id that was selected in the view, or by a click on   *)
(* what is still drawn of it, since the index of the backend keeps its id. *)
(***************************************************************************)
SelectsOnlySeenOrRemembered ==
    [][SelectionIsPresent =>
         \/ SelectionIsPresent'
         \/ \E g \in Garbage : Navigate(g) \/ (Select(g) /\ Drawn(scene, backend'.selected))]_windowVars

(***************************************************************************)
(* Wires and vias are always loaded: each of the snapshot is in a batch or *)
(* is the highlight of the selection.                                      *)
(***************************************************************************)
BatchedAreDrawn ==
    \A o \in Batched \cap Ids(backend.recs) : Drawn(scene, o) \/ o \in scene.glowing
=============================================================================
