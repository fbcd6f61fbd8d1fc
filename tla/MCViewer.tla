------------------------------ MODULE MCViewer ------------------------------
(* The 3D viewer on a small instance: an instance, a wire and tops of vias on *)
(* two layers, the name of one beginning with that of the other.              *)
EXTENDS OpenRoad3DWindow

CONSTANTS i1, w1, top, m1, m2

MCNearest == <<i1, w1, top>>
MCPrefixed == [l \in Layers |-> IF l = m1 THEN {m1, m2} ELSE {l}]

Built(o, l, version) == [id |-> o, layer |-> l, geometry |-> version, visible |-> TRUE]

Full == <<Built(i1, m1, 1), Built(w1, m1, 1), Built(top, m1, 1), Built(top, m2, 1)>>
OneDesign == {Full}
Small == <<Built(i1, m1, 1)>>
Other == <<Built(w1, m1, 1), Built(i1, m1, 1)>>
Grown == <<Built(i1, m1, 2), Built(w1, m1, 1), Built(top, m1, 1), Built(top, m2, 1)>>
Reloaded == {Small, Other, Grown}

AllInView == {Objects}
SomeInView == {Objects, {w1, top}, {i1}}
=============================================================================
