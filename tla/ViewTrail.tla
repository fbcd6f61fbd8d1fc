----------------------------- MODULE ViewTrail -----------------------------
(***************************************************************************)
(* What the view history of the 3D viewer promises, in the terms of its    *)
(* user: one trail of views with a position in it.  Going somewhere new    *)
(* cuts the trail after the position and forgets the oldest view when the  *)
(* trail is full; going back and forward only moves the position; a camera *)
(* moved by hand changes the view at the position and nothing else.        *)
(***************************************************************************)
EXTENDS Integers, Sequences

CONSTANTS States,       \* what a view of the history remembers
          MaxHistory    \* views remembered behind the current one

VARIABLES trail,        \* the remembered views, the oldest first
          pos           \* the position of the current view

trailVars == <<trail, pos>>

TrailInit == /\ \E s \in States : trail = <<s>>
             /\ pos = 1

\* The trail up to the position, without its oldest view when it is full.
Kept == IF pos > MaxHistory THEN SubSeq(trail, 2, pos) ELSE SubSeq(trail, 1, pos)

GoTo(s) == /\ trail' = Append(Kept, s)
           /\ pos' = Len(Kept) + 1

Back == /\ pos > 1
        /\ pos' = pos - 1
        /\ UNCHANGED trail

Forward == /\ pos < Len(trail)
           /\ pos' = pos + 1
           /\ UNCHANGED trail

Move(s) == /\ trail' = [trail EXCEPT ![pos] = s]
           /\ UNCHANGED pos

TrailNext == \/ \E s \in States : GoTo(s) \/ Move(s)
             \/ Back
             \/ Forward

TrailSpec == TrailInit /\ [][TrailNext]_trailVars
=============================================================================
