---------------------------- MODULE ViewHistory ----------------------------
(***************************************************************************)
(* The camera, the selection and the view history of OsgBackend.           *)
(*                                                                         *)
(* The history is two stacks of view states.  A view state is the pose of  *)
(* the camera (center_, yaw_, pitch_ and distance_, here one value of      *)
(* Poses) and the id of the object selected then.  The objects of the      *)
(* scene come and go underneath: the stacks keep ids and not objects.      *)
(***************************************************************************)
EXTENDS Integers, Sequences

CONSTANTS Objects,      \* ids an object can have
          None,         \* the empty id
          Poses,        \* poses of the camera
          MaxHistory    \* 32 in the code

ASSUME HistoryAssumption == /\ MaxHistory \in Nat \ {0}
                            /\ None \notin Objects

VARIABLES pose,         \* center_, yaw_, pitch_, distance_
          selected,     \* selectedObjectId_
          back,         \* viewHistoryBack_, the newest last
          forward,      \* viewHistoryForward_, the nearest last
          indexed       \* keys of objectIndex_, the ids a click can find

viewVars == <<pose, selected, back, forward, indexed>>
historyVars == <<back, forward>>

ViewState == [pose : Poses, selected : Objects \cup {None}]

captureViewState == [pose |-> pose, selected |-> selected]

ViewInit == /\ pose \in Poses
            /\ selected = None
            /\ back = <<>>
            /\ forward = <<>>
            /\ indexed = {}

\* Mutated form of Capped: one state too many stays.
CappedLate(stack) == IF Len(stack) > MaxHistory + 1 THEN Tail(stack) ELSE stack

\* A stack that has grown past the limit loses its oldest state.
Capped(stack) == IF Len(stack) > MaxHistory THEN Tail(stack) ELSE stack

pushViewHistory == /\ back' = Capped(Append(back, captureViewState))
                   /\ forward' = <<>>

\* Alt+0 remembers the view and stays there.
PushView == /\ pushViewHistory
            /\ UNCHANGED <<pose, selected, indexed>>

\* The keys 1 to 6.
setAnchorView(p) == /\ pushViewHistory
                    /\ pose' = p
                    /\ UNCHANGED <<selected, indexed>>

\* Needs a selected object that has a node of its own.
zoomToSelected(p) == /\ selected /= None
                     /\ pushViewHistory
                     /\ pose' = p
                     /\ UNCHANGED <<selected, indexed>>

applyViewState(state) == /\ pose' = state.pose
                         /\ selected' = state.selected

Top(stack) == stack[Len(stack)]
Popped(stack) == SubSeq(stack, 1, Len(stack) - 1)

\* Mutated form of goPreviousView: the view that is left is not remembered.
goPreviousForgets == /\ back /= <<>>
                     /\ UNCHANGED <<forward, indexed>>
                     /\ back' = Popped(back)
                     /\ applyViewState(Top(back))

goPreviousView == /\ back /= <<>>
                  /\ forward' = Capped(Append(forward, captureViewState))
                  /\ back' = Popped(back)
                  /\ applyViewState(Top(back))
                  /\ UNCHANGED indexed

\* The backward stack is not capped here.
goNextView == /\ forward /= <<>>
              /\ back' = Append(back, captureViewState)
              /\ forward' = Popped(forward)
              /\ applyViewState(Top(forward))
              /\ UNCHANGED indexed

\* Rotating with the mouse, the wheel and the arrow keys.
MoveCamera(p) == /\ pose' = p
                 /\ UNCHANGED <<selected, indexed, historyVars>>

\* updateSelection, for the object under the cursor.
selectAt(o) == /\ selected' = o
               /\ UNCHANGED <<pose, indexed, historyVars>>

clearSelection == /\ selected' = None
                  /\ UNCHANGED <<pose, indexed, historyVars>>

\* loadScene clears the selection and fits the camera to the scene.
loadScene(S, p) == /\ indexed' = S
                   /\ selected' = None
                   /\ pose' = p
                   /\ UNCHANGED historyVars

\* updateObjects, as far as the index goes.
updateObjects(S) == /\ indexed' = indexed \cup S
                    /\ UNCHANGED <<pose, selected, historyVars>>

\* The index keeps the ids of the objects that are removed.
removeObjects(R) == /\ selected' = IF selected \in R THEN None ELSE selected
                    /\ UNCHANGED <<pose, indexed, historyVars>>

ViewNext == \/ PushView
            \/ \E p \in Poses : setAnchorView(p) \/ zoomToSelected(p) \/ MoveCamera(p)
            \/ goPreviousView
            \/ goNextView
            \/ \E o \in indexed : selectAt(o)
            \/ clearSelection
            \/ \E S \in SUBSET Objects, p \in Poses : loadScene(S, p)
            \/ \E S \in SUBSET Objects : updateObjects(S) \/ removeObjects(S)

ViewSpec == ViewInit /\ [][ViewNext]_viewVars

----------------------------------------------------------------------------

ViewTypeOK == /\ pose \in Poses
              /\ selected \in Objects \cup {None}
              /\ back \in Seq(ViewState)
              /\ forward \in Seq(ViewState)
              /\ indexed \subseteq Objects

(***************************************************************************)
(* The two stacks together never hold more than MaxHistory views, although *)
(* goNextView pushes onto the backward stack without the cap that          *)
(* pushViewHistory applies; so the cap of the forward stack never drops a  *)
(* view either.                                                            *)
(***************************************************************************)
HistoryBounded == Len(back) + Len(forward) <= MaxHistory

\* The trail of the user: what is behind, the current view, what is ahead.
TrailOf(b, s, f) == [i \in 1..(Len(b) + 1 + Len(f)) |->
                        IF i <= Len(b) THEN b[i]
                        ELSE IF i = Len(b) + 1 THEN s
                        ELSE f[Len(b) + Len(f) + 2 - i]]

Trail == TrailOf(back, captureViewState, forward)

Abstract == INSTANCE ViewTrail WITH trail <- Trail, pos <- Len(back) + 1,
                                    States <- ViewState

(***************************************************************************)
(* The two stacks of goPreviousView, goNextView and pushViewHistory        *)
(* implement the trail with a position: no view is lost, doubled or put    *)
(* out of order by going back and forward.                                 *)
(***************************************************************************)
ImplementsTrail == Abstract!TrailSpec
=============================================================================
