------------------------- MODULE ViewHistoryProofs -------------------------
(***************************************************************************)
(* The view history, proved for every number of views, poses and objects.  *)
(*                                                                         *)
(* HistoryInv is the inductive invariant: the types and the bound on the   *)
(* two stacks together.  The bound is what makes the refinement true: with *)
(* it the cap of the forward stack is never reached, so going back loses   *)
(* nothing.                                                                *)
(***************************************************************************)
EXTENDS ViewHistory, SequenceTheorems, TLAPS

HistoryInv == ViewTypeOK /\ HistoryBounded

LEMMA CaptureType == ViewTypeOK => captureViewState \in ViewState
BY DEF ViewTypeOK, captureViewState, ViewState

\* What pushing a state onto a capped stack gives.
LEMMA CappedPush ==
    ASSUME NEW S, NEW stack \in Seq(S), NEW s \in S, Len(stack) <= MaxHistory
    PROVE  /\ Capped(Append(stack, s)) \in Seq(S)
           /\ Len(Capped(Append(stack, s))) <= MaxHistory
BY HistoryAssumption DEF Capped

LEMMA PoppedStack ==
    ASSUME NEW S, NEW stack \in Seq(S), stack /= <<>>
    PROVE  /\ Popped(stack) \in Seq(S)
           /\ Len(Popped(stack)) = Len(stack) - 1
           /\ Top(stack) \in S
           /\ Len(stack) > 0
           /\ \A i \in 1..(Len(stack) - 1) : Popped(stack)[i] = stack[i]
<1>1. Len(stack) \in Nat /\ Len(stack) > 0
    BY EmptySeq
<1>2. Top(stack) \in S
    BY <1>1, ElementOfSeq DEF Top
<1>3. \A i \in 1..(Len(stack) - 1) : stack[i] \in S
    BY <1>1, ElementOfSeq
<1> DEFINE n == Len(stack) - 1
<1>4. n \in Nat
    BY <1>1
<1> HIDE DEF n
<1>5. /\ SubSeq(stack, 1, n) \in Seq(S)
      /\ Len(SubSeq(stack, 1, n)) = n
      /\ \A i \in 1..n : SubSeq(stack, 1, n)[i] = stack[i]
    <2>1. \A i \in 1..n : stack[i] \in S
        BY <1>3 DEF n
    <2>2. /\ SubSeq(stack, 1, n) \in Seq(S)
          /\ Len(SubSeq(stack, 1, n)) = IF 1 <= n THEN n - 1 + 1 ELSE 0
          /\ \A i \in 1..(n - 1 + 1) : SubSeq(stack, 1, n)[i] = stack[1 + i - 1]
        BY <1>4, <2>1, SubSeqProperties
    <2> QED
        BY <1>4, <2>2
<1> QED
    BY <1>1, <1>2, <1>5 DEF Popped, n

LEMMA HistoryInit == ViewInit => HistoryInv
BY HistoryAssumption DEF ViewInit, HistoryInv, ViewTypeOK, HistoryBounded

\* A push leaves the forward stack empty and the backward one within the cap.
LEMMA PushInv == HistoryInv /\ pushViewHistory =>
    /\ back' \in Seq(ViewState)
    /\ forward' \in Seq(ViewState)
    /\ Len(back') + Len(forward') <= MaxHistory
<1> SUFFICES ASSUME HistoryInv, pushViewHistory
             PROVE  /\ back' \in Seq(ViewState)
                    /\ forward' \in Seq(ViewState)
                    /\ Len(back') + Len(forward') <= MaxHistory
    OBVIOUS
<1>1. Len(back) <= MaxHistory /\ back \in Seq(ViewState)
    BY HistoryAssumption DEF HistoryInv, HistoryBounded, ViewTypeOK
<1>2. /\ back' \in Seq(ViewState)
      /\ Len(back') <= MaxHistory
    BY <1>1, CappedPush, CaptureType DEF pushViewHistory, HistoryInv
<1> QED
    BY <1>2, HistoryAssumption DEF pushViewHistory

LEMMA HistoryStep == HistoryInv /\ [ViewNext]_viewVars => HistoryInv'
<1> SUFFICES ASSUME HistoryInv, [ViewNext]_viewVars
             PROVE  HistoryInv'
    OBVIOUS
<1> USE DEF HistoryInv
<1>1. CASE PushView
    BY <1>1, PushInv DEF PushView, ViewTypeOK, HistoryBounded
<1>2. ASSUME NEW p \in Poses, setAnchorView(p) \/ zoomToSelected(p) \/ MoveCamera(p)
      PROVE  HistoryInv'
    BY <1>2, PushInv DEF setAnchorView, zoomToSelected, MoveCamera, ViewTypeOK,
                         HistoryBounded, historyVars
<1>3. CASE goPreviousView
    <2>1. /\ Popped(back) \in Seq(ViewState)
          /\ Len(Popped(back)) = Len(back) - 1
          /\ Top(back) \in ViewState
          /\ Len(back) > 0
        BY <1>3, PoppedStack DEF goPreviousView, ViewTypeOK
    <2>2. Capped(Append(forward, captureViewState)) = Append(forward, captureViewState)
        BY <2>1, CaptureType, HistoryAssumption
        DEF Capped, ViewTypeOK, HistoryBounded
    <2>3. ViewTypeOK'
        BY <1>3, <2>1, <2>2, CaptureType
        DEF goPreviousView, ViewTypeOK, applyViewState, ViewState
    <2>4. HistoryBounded'
        BY <1>3, <2>1, <2>2, CaptureType, HistoryAssumption
        DEF goPreviousView, ViewTypeOK, HistoryBounded
    <2> QED
        BY <2>3, <2>4
<1>4. CASE goNextView
    <2>1. /\ Popped(forward) \in Seq(ViewState)
          /\ Len(Popped(forward)) = Len(forward) - 1
          /\ Top(forward) \in ViewState
          /\ Len(forward) > 0
        BY <1>4, PoppedStack DEF goNextView, ViewTypeOK
    <2>2. ViewTypeOK'
        BY <1>4, <2>1, CaptureType
        DEF goNextView, ViewTypeOK, applyViewState, ViewState
    <2>3. HistoryBounded'
        BY <1>4, <2>1, CaptureType, HistoryAssumption
        DEF goNextView, ViewTypeOK, HistoryBounded
    <2> QED
        BY <2>2, <2>3
<1>5. ASSUME NEW o \in indexed, selectAt(o)
      PROVE  HistoryInv'
    BY <1>5 DEF selectAt, ViewTypeOK, HistoryBounded, historyVars
<1>6. CASE clearSelection
    BY <1>6 DEF clearSelection, ViewTypeOK, HistoryBounded, historyVars
<1>7. ASSUME NEW S \in SUBSET Objects, NEW p \in Poses, loadScene(S, p)
      PROVE  HistoryInv'
    BY <1>7 DEF loadScene, ViewTypeOK, HistoryBounded, historyVars
<1>8. ASSUME NEW S \in SUBSET Objects, updateObjects(S) \/ removeObjects(S)
      PROVE  HistoryInv'
    BY <1>8 DEF updateObjects, removeObjects, ViewTypeOK, HistoryBounded, historyVars
<1>9. CASE UNCHANGED viewVars
    BY <1>9 DEF viewVars, ViewTypeOK, HistoryBounded
<1> QED
    BY <1>1, <1>2, <1>3, <1>4, <1>5, <1>6, <1>7, <1>8, <1>9 DEF ViewNext

\* The types and the bound hold in every reachable state of the view history.
THEOREM HistoryCorrect == ViewSpec => [](ViewTypeOK /\ HistoryBounded)
BY HistoryInit, HistoryStep, PTL DEF ViewSpec, HistoryInv

----------------------------------------------------------------------------
(* The refinement of the trail with a position. *)

\* The trail is a sequence of view states.
LEMMA TrailShape ==
    ASSUME NEW S, NEW b \in Seq(S), NEW c \in S, NEW f \in Seq(S)
    PROVE  /\ Len(b) \in Nat
           /\ Len(f) \in Nat
           /\ TrailOf(b, c, f) \in Seq(S)
           /\ Len(TrailOf(b, c, f)) = Len(b) + 1 + Len(f)
<1>1. /\ Len(b) \in Nat
      /\ Len(f) \in Nat
      /\ \A i \in 1..Len(b) : b[i] \in S
      /\ \A i \in 1..Len(f) : f[i] \in S
    BY ElementOfSeq, LenProperties
<1>2. TrailOf(b, c, f) \in [1..(Len(b) + 1 + Len(f)) -> S]
    BY <1>1 DEF TrailOf
<1> QED
    BY <1>1, <1>2, SMTT(30)

\* Going back moves one view across the current one: the trail is the same.
LEMMA TrailBack ==
    ASSUME NEW S, NEW b \in Seq(S), NEW c \in S, NEW f \in Seq(S), b /= <<>>
    PROVE  TrailOf(Popped(b), Top(b), Append(f, c)) = TrailOf(b, c, f)
<1>1. /\ Len(b) \in Nat /\ Len(b) > 0 /\ Len(f) \in Nat
      /\ Len(Popped(b)) = Len(b) - 1
      /\ \A i \in 1..(Len(b) - 1) : Popped(b)[i] = b[i]
    BY PoppedStack, LenProperties
<1>2. /\ Len(Append(f, c)) = Len(f) + 1
      /\ \A i \in 1..Len(f) : Append(f, c)[i] = f[i]
      /\ Append(f, c)[Len(f) + 1] = c
    BY <1>1
<1> HIDE DEF Popped
<1> QED
    BY <1>1, <1>2 DEF TrailOf, Top

\* And so does going forward.
LEMMA TrailForward ==
    ASSUME NEW S, NEW b \in Seq(S), NEW c \in S, NEW f \in Seq(S), f /= <<>>
    PROVE  TrailOf(Append(b, c), Top(f), Popped(f)) = TrailOf(b, c, f)
<1>1. /\ Len(f) \in Nat /\ Len(f) > 0 /\ Len(b) \in Nat
      /\ Len(Popped(f)) = Len(f) - 1
      /\ \A i \in 1..(Len(f) - 1) : Popped(f)[i] = f[i]
    BY PoppedStack, LenProperties
<1>2. /\ Len(Append(b, c)) = Len(b) + 1
      /\ \A i \in 1..Len(b) : Append(b, c)[i] = b[i]
      /\ Append(b, c)[Len(b) + 1] = c
    BY <1>1
<1> HIDE DEF Popped
<1> QED
    BY <1>1, <1>2 DEF TrailOf, Top

\* A camera moved by hand changes the view at the position.
LEMMA TrailMove ==
    ASSUME NEW S, NEW b \in Seq(S), NEW c \in S, NEW f \in Seq(S), NEW s \in S
    PROVE  TrailOf(b, s, f) = [TrailOf(b, c, f) EXCEPT ![Len(b) + 1] = s]
<1> DEFINE t == TrailOf(b, c, f)
           u == TrailOf(b, s, f)
           N == Len(b) + 1 + Len(f)
           k == Len(b) + 1
<1>1. /\ Len(b) \in Nat /\ Len(f) \in Nat
      /\ t = [i \in 1..N |-> t[i]] /\ u = [i \in 1..N |-> u[i]]
      /\ DOMAIN t = 1..N
    BY LenProperties DEF TrailOf
<1>2. \A i \in 1..N : u[i] = IF i = k THEN s ELSE t[i]
    BY <1>1 DEF TrailOf
<1> HIDE DEF t, u, N, k
<1>3. [t EXCEPT ![k] = s] = [i \in 1..N |-> IF i = k THEN s ELSE t[i]]
    BY <1>1
<1>4. u = [i \in 1..N |-> IF i = k THEN s ELSE t[i]]
    BY <1>1, <1>2
<1> QED
    BY <1>3, <1>4 DEF t, u, k

\* A sequence that starts with another one, cut to its length.
LEMMA CutToPrefix ==
    ASSUME NEW S, NEW t \in Seq(S), NEW a \in Seq(S), NEW n \in Nat,
           n >= 1, n = Len(a), n <= Len(t), \A i \in 1..n : t[i] = a[i]
    PROVE  /\ SubSeq(t, 1, n) = a
           /\ SubSeq(t, 2, n) = Tail(a)
<1>1. \A i \in 1..n : t[i] \in S
    BY LenProperties, ElementOfSeq
<1>2. /\ SubSeq(t, 1, n) \in Seq(S)
      /\ Len(SubSeq(t, 1, n)) = IF 1 <= n THEN n - 1 + 1 ELSE 0
      /\ \A i \in 1..(n - 1 + 1) : SubSeq(t, 1, n)[i] = t[1 + i - 1]
    BY <1>1, SubSeqProperties
<1>3. /\ SubSeq(t, 2, n) \in Seq(S)
      /\ Len(SubSeq(t, 2, n)) = IF 2 <= n THEN n - 2 + 1 ELSE 0
      /\ \A i \in 1..(n - 2 + 1) : SubSeq(t, 2, n)[i] = t[2 + i - 1]
    BY <1>1, SubSeqProperties
<1>4. a /= <<>>
    OBVIOUS
<1>5. /\ Tail(a) \in Seq(S)
      /\ Len(Tail(a)) = n - 1
      /\ \A i \in 1..(n - 1) : Tail(a)[i] = a[i + 1]
    BY <1>4, HeadTailProperties
<1> DEFINE p == SubSeq(t, 1, n)
           q == SubSeq(t, 2, n)
           r == Tail(a)
<1> HIDE DEF p, q, r
<1>6. p \in Seq(S) /\ Len(p) = n /\ \A i \in 1..n : p[i] = a[i]
    BY <1>2, Z3 DEF p
<1>7. q \in Seq(S) /\ Len(q) = n - 1
    BY <1>3, Z3 DEF q
<1>8. \A i \in 1..(n - 1) : q[i] = t[i + 1]
    <2>1. \A i \in 1..(n - 2 + 1) : q[i] = t[2 + i - 1]
        BY <1>3 DEF q
    <2> QED
        BY <2>1
<1>9. r \in Seq(S) /\ Len(r) = n - 1 /\ \A i \in 1..(n - 1) : r[i] = a[i + 1]
    BY <1>5 DEF r
<1>10. p = a
    BY <1>6, SeqEqual
<1>11. \A i \in 1..(n - 1) : q[i] = r[i]
    BY <1>8, <1>9
<1>12. q = r
    BY <1>7, <1>9, <1>11, SeqEqual
<1> QED
    BY <1>10, <1>12 DEF p, q, r

\* The trail up to the position is what a push puts on the backward stack.
LEMMA TrailKept ==
    ASSUME NEW S, NEW b \in Seq(S), NEW c \in S, NEW f \in Seq(S)
    PROVE  /\ SubSeq(TrailOf(b, c, f), 1, Len(b) + 1) = Append(b, c)
           /\ SubSeq(TrailOf(b, c, f), 2, Len(b) + 1) = Tail(Append(b, c))
<1> DEFINE t == TrailOf(b, c, f)
           n == Len(b) + 1
<1>1. /\ Len(b) \in Nat /\ Len(f) \in Nat
      /\ t \in Seq(S) /\ Len(t) = n + Len(f)
    BY TrailShape
<1>2. \A i \in 1..n : t[i] = Append(b, c)[i]
    BY <1>1 DEF TrailOf
<1>3. Append(b, c) \in Seq(S) /\ Len(Append(b, c)) = n
    BY <1>1
<1>4. n \in Nat /\ n >= 1 /\ n <= Len(t)
    BY <1>1
<1> HIDE DEF t, n
<1> QED
  <2>1. SubSeq(t, 1, n) = Append(b, c) /\ SubSeq(t, 2, n) = Tail(Append(b, c))
    BY <1>1, <1>2, <1>3, <1>4, CutToPrefix
  <2> QED BY <2>1 DEF t, n

\* With nothing ahead the current view is the last of the trail.
LEMMA TrailEnd ==
    ASSUME NEW S, NEW q \in Seq(S), NEW s \in S, NEW f \in Seq(S), Len(f) = 0
    PROVE  TrailOf(q, s, f) = Append(q, s)
<1>0. /\ TrailOf(q, s, f) \in Seq(S)
      /\ Len(TrailOf(q, s, f)) = Len(q) + 1 + Len(f)
      /\ Len(q) \in Nat
    BY TrailShape
<1>1. /\ TrailOf(q, s, f) \in Seq(S)
      /\ Len(TrailOf(q, s, f)) = Len(q) + 1
      /\ Len(q) \in Nat
    BY <1>0
<1>2. /\ Append(q, s) \in Seq(S)
      /\ Len(Append(q, s)) = Len(q) + 1
    OBVIOUS
<1>3. \A i \in 1..(Len(q) + 1) : TrailOf(q, s, f)[i] = Append(q, s)[i]
    BY <1>1 DEF TrailOf
<1> QED
    BY <1>1, <1>2, <1>3, SeqEqual

\* A push cuts the trail and goes to the new view.
LEMMA PushIsGoTo ==
    ASSUME ViewTypeOK, pushViewHistory, NEW s \in ViewState, captureViewState' = s
    PROVE  Abstract!GoTo(s)
<1> DEFINE c == captureViewState
<1>1. back \in Seq(ViewState) /\ forward \in Seq(ViewState) /\ c \in ViewState
    BY CaptureType DEF ViewTypeOK
<1>2. Len(back) \in Nat /\ Len(Append(back, c)) = Len(back) + 1
    BY <1>1, LenProperties
<1>3. /\ SubSeq(TrailOf(back, c, forward), 1, Len(back) + 1) = Append(back, c)
      /\ SubSeq(TrailOf(back, c, forward), 2, Len(back) + 1) = Tail(Append(back, c))
    BY <1>1, TrailKept
<1>4. Capped(Append(back, c)) = Abstract!Kept
    BY <1>2, <1>3, Zenon DEF Capped, Abstract!Kept, Trail
<1>5. Capped(Append(back, c)) \in Seq(ViewState)
    BY <1>1 DEF Capped
<1>6. /\ Trail' = TrailOf(back', s, forward')
      /\ back' = Abstract!Kept
      /\ back' \in Seq(ViewState)
      /\ forward' \in Seq(ViewState)
      /\ Len(forward') = 0
    BY <1>4, <1>5 DEF pushViewHistory, Trail
<1>7. Trail' = Append(Abstract!Kept, s)
    BY <1>6, TrailEnd
<1> QED
    BY <1>6, <1>7 DEF Abstract!GoTo

\* Everything that leaves the stacks alone moves the camera at the position.
LEMMA QuietIsMove ==
    ASSUME ViewTypeOK, ViewTypeOK', UNCHANGED historyVars
    PROVE  Abstract!Move(captureViewState') /\ captureViewState' \in ViewState
<1>1. back \in Seq(ViewState) /\ forward \in Seq(ViewState) /\ captureViewState \in ViewState
    BY CaptureType DEF ViewTypeOK
<1>2. captureViewState' \in ViewState
    BY DEF ViewTypeOK, captureViewState, ViewState
<1>3. Trail' = TrailOf(back, captureViewState', forward)
    BY DEF Trail, historyVars
<1>4. Trail' = [Trail EXCEPT ![Len(back) + 1] = captureViewState']
    BY <1>1, <1>2, <1>3, TrailMove DEF Trail
<1> QED
    BY <1>2, <1>4 DEF Abstract!Move, historyVars

LEMMA TrailStarts == ViewInit => Abstract!TrailInit
<1> SUFFICES ASSUME ViewInit
             PROVE  Abstract!TrailInit
    OBVIOUS
<1>1. back \in Seq(ViewState) /\ Len(back) = 0 /\ back = <<>>
    BY DEF ViewInit
<1>2. forward \in Seq(ViewState) /\ Len(forward) = 0
    BY DEF ViewInit
<1>3. captureViewState \in ViewState
    BY DEF ViewInit, captureViewState, ViewState
<1>4. Trail = Append(back, captureViewState)
    BY <1>1, <1>2, <1>3, TrailEnd DEF Trail
<1>5. Trail = <<captureViewState>>
    BY <1>1, <1>4
<1> QED
    BY <1>1, <1>3, <1>5 DEF Abstract!TrailInit

LEMMA TrailStep ==
    ASSUME HistoryInv, HistoryInv', [ViewNext]_viewVars
    PROVE  [Abstract!TrailNext]_(Abstract!trailVars)
<1> USE DEF HistoryInv
<1>0. captureViewState' \in ViewState
    BY DEF ViewTypeOK, captureViewState, ViewState
<1>1. CASE pushViewHistory
    BY <1>0, <1>1, PushIsGoTo DEF Abstract!TrailNext
<1>2. CASE UNCHANGED historyVars
    BY <1>2, QuietIsMove DEF Abstract!TrailNext
<1>3. CASE goPreviousView
    <2> DEFINE c == captureViewState
    <2>1. /\ back \in Seq(ViewState) /\ forward \in Seq(ViewState) /\ c \in ViewState
          /\ back /= <<>>
        BY <1>3, CaptureType DEF goPreviousView, ViewTypeOK
    <2>2. Len(Popped(back)) = Len(back) - 1 /\ Len(back) > 0 /\ Top(back) \in ViewState
        BY <2>1, PoppedStack
    <2>3. Capped(Append(forward, c)) = Append(forward, c)
        BY <2>1, <2>2, HistoryAssumption DEF Capped, HistoryBounded
    <2>4. captureViewState' = Top(back)
        BY <1>3, <2>2 DEF goPreviousView, applyViewState, captureViewState, ViewState
    <2>5. Trail' = TrailOf(Popped(back), Top(back), Append(forward, c))
        BY <1>3, <2>3, <2>4 DEF goPreviousView, Trail
    <2>6. Trail' = Trail
        BY <2>1, <2>5, TrailBack DEF Trail
    <2>7. Len(back') = Len(back) - 1 /\ Len(back) \in Nat
        BY <1>3, <2>1, <2>2, LenProperties DEF goPreviousView
    <2>8. Abstract!Back
        BY <2>2, <2>6, <2>7 DEF Abstract!Back
    <2> QED
        BY <2>8 DEF Abstract!TrailNext
<1>4. CASE goNextView
    <2> DEFINE c == captureViewState
    <2>1. /\ back \in Seq(ViewState) /\ forward \in Seq(ViewState) /\ c \in ViewState
          /\ forward /= <<>>
        BY <1>4, CaptureType DEF goNextView, ViewTypeOK
    <2>2. Len(forward) > 0 /\ Top(forward) \in ViewState
        BY <2>1, PoppedStack
    <2>3. captureViewState' = Top(forward)
        BY <1>4, <2>2 DEF goNextView, applyViewState, captureViewState, ViewState
    <2>4. Trail' = TrailOf(Append(back, c), Top(forward), Popped(forward))
        BY <1>4, <2>3 DEF goNextView, Trail
    <2>5. Trail' = Trail
        BY <2>1, <2>4, TrailForward DEF Trail
    <2>6. /\ Len(Trail) = Len(back) + 1 + Len(forward)
          /\ Len(back) \in Nat /\ Len(forward) \in Nat
        BY <2>1, TrailShape DEF Trail
    <2>7. Len(back') = Len(back) + 1
        BY <1>4, <2>1 DEF goNextView
    <2>8. Abstract!Forward
        BY <2>2, <2>5, <2>6, <2>7 DEF Abstract!Forward
    <2> QED
        BY <2>8 DEF Abstract!TrailNext
<1> QED
    BY <1>1, <1>2, <1>3, <1>4
    DEF ViewNext, viewVars, historyVars, PushView, setAnchorView, zoomToSelected,
        MoveCamera, selectAt, clearSelection, loadScene, updateObjects, removeObjects

(***************************************************************************)
(* The two stacks implement the trail with a position (ImplementsTrail):   *)
(* the first state has a trail of one view, going back and forward leaves  *)
(* the trail alone because the bound keeps the forward stack below its     *)
(* cap, a push cuts the trail, and all else moves the current view.        *)
(***************************************************************************)
THEOREM HistoryImplementsTrail == ViewSpec => ImplementsTrail
<1>1. HistoryInv /\ HistoryInv' /\ [ViewNext]_viewVars =>
        [Abstract!TrailNext]_(Abstract!trailVars)
    BY TrailStep
<1> QED
    BY <1>1, HistoryInit, HistoryStep, TrailStarts, PTL
    DEF ViewSpec, ImplementsTrail, Abstract!TrailSpec
=============================================================================
