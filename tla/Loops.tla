------------------------------- MODULE Loops -------------------------------
(***************************************************************************)
(* Induction, and loops over sequences of any length.                      *)
(*                                                                         *)
(* FoldLeft is defined by a recursive function, that is by CHOOSE, so      *)
(* there are two things to show of a loop that it models: that a function  *)
(* with the recursion exists, and what holds of its values.  Both go by    *)
(* induction.                                                              *)
(*                                                                         *)
(* The module is instantiated once for each loop: the constants are its    *)
(* body and its loop invariant.                                            *)
(***************************************************************************)
EXTENDS Integers, SequencesExt, SequenceTheorems, WellFoundedInduction, TLAPS

CONSTANTS Step(_, _, _),    \* Step(c, b, x): b after the body was run for x
          Holds(_, _, _)    \* Holds(c, i, b): what holds of b after i steps

\* The loop over q that starts with base; c is what its body reads.
Loop(c, base, q) == FoldLeft(LAMBDA b, x : Step(c, b, x), base, q)

\* Every non-empty set of naturals has a least element.
LEMMA Least ==
  ASSUME NEW T, T \subseteq Nat, T # {}
  PROVE  \E n \in T : \A m \in T : n <= m
<1>. DEFINE R == {ss \in Nat \X Nat : ss[1] < ss[2]}
<1>1. IsWellFoundedOn(R, Nat)
  BY NatLessThanWellFounded DEF OpToRel
<1>2. PICK n \in T : \A m \in T : <<m, n>> \notin R
  <2>. HIDE DEF R
  <2>. QED BY <1>1, WFMin
<1>3. \A m \in T : <<m, n>> \in Nat \X Nat
  OBVIOUS
<1>4. \A m \in T : ~ (m < n)
  BY <1>2, <1>3
<1>. QED BY <1>4

\* A set that has 0 and, with each number up to N, the next has all of them.
LEMMA Induction ==
  ASSUME NEW N \in Nat, NEW S, 0 \in S, \A n \in 1 .. N : n - 1 \in S => n \in S
  PROVE  \A n \in 0 .. N : n \in S
<1>. DEFINE T == (0 .. N) \ S
<1>. SUFFICES ASSUME T # {} PROVE FALSE
  OBVIOUS
<1>1. T \subseteq Nat
  OBVIOUS
<1>2. PICK m \in T : \A k \in T : m <= k
  <2>. HIDE DEF T
  <2>. QED BY <1>1, Least
<1>3. m \in 1 .. N /\ m - 1 \in 0 .. N /\ m - 1 \notin T
  BY <1>2
<1>. QED BY <1>3

\* The last element of an interval.
LEMMA MaxLast ==
  ASSUME NEW n \in Nat, NEW s \in SUBSET (1 .. n), n \in s
  PROVE  Max(s) = n
<1>1. \A x \in s : x \in Int /\ n >= x
  OBVIOUS
<1>2. \A x : x \in s /\ (\A y \in s : x >= y) => x = n
  BY <1>1
<1>. QED BY <1>1, <1>2 DEF Max

\* FoldLeft goes through the sets 1 .. n.
LEMMA Intervals ==
  ASSUME NEW N \in Nat, NEW n \in 1 .. N
  PROVE  /\ 1 .. n \in SUBSET (1 .. N)
         /\ 1 .. n # {}
         /\ Max(1 .. n) = n
         /\ (1 .. n) \ {n} = 1 .. (n - 1)
<1>1. n \in Nat /\ n \in 1 .. n
  OBVIOUS
<1>2. 1 .. n \in SUBSET (1 .. N) /\ 1 .. n \in SUBSET (1 .. n)
  OBVIOUS
<1>3. Max(1 .. n) = n
  BY <1>1, <1>2, MaxLast
<1>4. (1 .. n) \ {n} = 1 .. n - 1
  OBVIOUS
<1>5. 1 .. n # {}
  BY <1>1
<1>. QED BY <1>2, <1>3, <1>4, <1>5

\* f has the recursion of FoldLeft for the first n elements of q.
Folds(f, c, base, q, n) ==
  f = [s \in SUBSET (1 .. n) |->
         IF s = {} THEN base ELSE Step(c, f[s \ {Max(s)}], q[Max(s)])]

\* There is one.
LEMMA FoldExists ==
  ASSUME NEW c, NEW base, NEW q, NEW N \in Nat
  PROVE  \E f : Folds(f, c, base, q, N)
<1>. DEFINE S == {n \in 0 .. N : \E f : Folds(f, c, base, q, n)}
<1>1. 0 \in S
  <2>. DEFINE f == [s \in SUBSET (1 .. 0) |-> base]
  <2>1. \A s \in SUBSET (1 .. 0) : s = {}
    OBVIOUS
  <2>2. Folds(f, c, base, q, 0)
    BY <2>1 DEF Folds
  <2>. QED BY <2>2
<1>2. ASSUME NEW m \in 1 .. N, m - 1 \in S
      PROVE  m \in S
  <2>0. m \in Nat
    OBVIOUS
  <2>1. PICK g : Folds(g, c, base, q, m - 1)
    BY <1>2
  <2>. HIDE DEF S
  <2>2. ASSUME NEW s \in SUBSET (1 .. m)
        PROVE  /\ m \in s => Max(s) = m /\ s \ {m} \in SUBSET (1 .. m - 1)
               /\ m \notin s => s \in SUBSET (1 .. m - 1)
    <3>1. \A x \in s : x # m => x \in 1 .. m - 1
      BY <2>0
    <3>2. m \in s => Max(s) = m
      BY <2>0, MaxLast
    <3>. QED BY <3>1, <3>2
  <2>. DEFINE f == [s \in SUBSET (1 .. m) |->
                      IF m \in s THEN Step(c, g[s \ {m}], q[m]) ELSE g[s]]
  <2>3. ASSUME NEW s \in SUBSET (1 .. m)
        PROVE  f[s] = IF s = {} THEN base ELSE Step(c, f[s \ {Max(s)}], q[Max(s)])
    <3>1. CASE m \in s
      <4>1. s \ {m} \in SUBSET (1 .. m) /\ m \notin s \ {m} /\ s # {}
        BY <3>1
      <4>. QED BY <2>2, <3>1, <4>1
    <3>2. CASE m \notin s
      <4>1. s \ {Max(s)} \in SUBSET (1 .. m) /\ m \notin s \ {Max(s)}
        BY <3>2
      <4>2. g[s] = IF s = {} THEN base ELSE Step(c, g[s \ {Max(s)}], q[Max(s)])
        BY <2>1, <2>2, <3>2 DEF Folds
      <4>3. f[s] = g[s] /\ f[s \ {Max(s)}] = g[s \ {Max(s)}]
        BY <3>2, <4>1
      <4>. QED BY <4>2, <4>3
    <3>. QED BY <3>1, <3>2
  <2>4. Folds(f, c, base, q, m)
    <3>1. f = [s \in SUBSET (1 .. m) |-> f[s]]
      OBVIOUS
    <3>. HIDE DEF f
    <3>. QED BY <2>3, <3>1 DEF Folds
  <2>5. m \in S
    <3>. HIDE DEF f
    <3>. QED BY <2>4 DEF S
  <2>. QED BY <2>5
<1>3. \A n \in 0 .. N : n \in S
  <2>. HIDE DEF S
  <2>. QED BY <1>1, <1>2, Induction
<1>. QED BY <1>3

\* A loop invariant holds in the end.
LEMMA LoopKeeps ==
  ASSUME NEW c, NEW base, NEW D, NEW q \in Seq(D), Holds(c, 0, base),
         \A b : \A i \in 1 .. Len(q) : Holds(c, i - 1, b) => Holds(c, i, Step(c, b, q[i]))
  PROVE  Holds(c, Len(q), Loop(c, base, q))
<1>. DEFINE n == Len(q)
            it == CHOOSE f : Folds(f, c, base, q, n)
            S == {i \in 0 .. n : Holds(c, i, it[1 .. i])}
<1>0. n \in Nat /\ DOMAIN q = 1 .. n
  OBVIOUS
<1>1. Folds(it, c, base, q, n)
  BY <1>0, FoldExists
<1>2. Loop(c, base, q) = it[1 .. n]
  BY <1>0 DEF Loop, FoldLeft, MapThenFoldSet, Folds
<1>. HIDE DEF it
<1>3. 0 \in S
  <2>1. 1 .. 0 = {} OBVIOUS
  <2>2. it[1 .. 0] = base
    BY <1>0, <1>1, <2>1 DEF Folds
  <2>. QED BY <1>0, <2>2
<1>4. ASSUME NEW i \in 1 .. n, i - 1 \in S PROVE i \in S
  <2>1. /\ 1 .. i \in SUBSET (1 .. n) /\ 1 .. i # {} /\ Max(1 .. i) = i
        /\ (1 .. i) \ {i} = 1 .. (i - 1)
    BY <1>0, Intervals
  <2>2. it[1 .. i] = Step(c, it[1 .. (i - 1)], q[i])
    BY <1>1, <2>1 DEF Folds
  <2>3. Holds(c, i - 1, it[1 .. (i - 1)])
    BY <1>4
  <2>4. Holds(c, i, it[1 .. i])
    BY <2>2, <2>3
  <2>. QED BY <1>0, <2>4
<1>5. \A i \in 0 .. n : i \in S
  <2>. HIDE DEF S
  <2>. QED BY <1>0, <1>3, <1>4, Induction
<1>6. Holds(c, n, it[1 .. n])
  BY <1>0, <1>5
<1>. QED BY <1>2, <1>6
=============================================================================
