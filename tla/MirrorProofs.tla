---------------------------- MODULE MirrorProofs ----------------------------
(***************************************************************************)
(* Proofs that the design of every worker that can get a job mirrors the   *)
(* leader's, for any number of workers, batches, rounds and changes.       *)
(*                                                                         *)
(* The first half is about the algorithm: addUpdate deals the updates out  *)
(* over the batches, and applyUpdates, which reads them row by row, makes  *)
(* them in the order of the leader.  The second half is about the          *)
(* protocol: the i-th broadcast the balancer has saved brings a worker up  *)
(* to change upto[i], and the files it needs are still those of that       *)
(* broadcast, or the worker is stale.                                      *)
(***************************************************************************)
EXTENDS DesignUpdatesProofs

-----------------------------------------------------------------------------
(* Updates in batches.                                                     *)

\* The updates lo + 1, lo + 2, ... as addUpdate deals them out: r to each batch
\* and one more to the first c.
Spread(lo, r, c) ==
  [b \in 1 .. Batches |-> [j \in 1 .. (IF b <= c THEN r + 1 ELSE r) |-> lo + (j - 1) * Batches + b]]

\* The batches hold the n updates after lo.
Batched(batches, lo, n) ==
  \E r \in 0 .. n, c \in 0 .. Batches - 1 : n = r * Batches + c /\ batches = Spread(lo, r, c)

\* The updates after lo, up to hi.
Run(lo, hi) == [i \in 1 .. hi - lo |-> lo + i]

\* What updates_ can be.
Column == [1 .. Batches -> Seq(Int)]

\* addUpdates for n changes after lo, when sz updates are held.
Added(batches, sz, lo, n) ==
  FoldLeft(LAMBDA b, i : addUpdate(b, sz + i - 1, lo + i), batches, [i \in 1 .. n |-> i])

\* Its loop, which starts with c[1] updates; the first of them is the one after c[2].
AddStep(c, b, i) == addUpdate(b, c[1] + i - 1, c[2] + c[1] + i)

AddHolds(c, i, b) == Batched(b, c[2], c[1] + i)

AddLoop == INSTANCE Loops WITH Step <- AddStep, Holds <- AddHolds

\* The inner loop of applyUpdates, for the row c[1]: the changes made before it
\* are those after c[2] up to c[3], and c[4] batches have an update in the row.
RowStep(c, d, batch) == IF Len(batch) >= c[1] THEN Append(d, batch[c[1]]) ELSE d

RowHolds(c, i, d) == d = Run(c[2], c[3] + IF i <= c[4] THEN i ELSE c[4])

RowLoop == INSTANCE Loops WITH Step <- RowStep, Holds <- RowHolds

\* The outer loop, for the batches c[1] with the c[4] changes after c[2], in c[3]
\* full rows.
ApplyStep(c, d, j) == ApplyRow(d, c[1], j)

ApplyHolds(c, j, d) == d = Run(c[2], c[2] + IF j <= c[3] THEN j * Batches ELSE c[4])

ApplyLoop == INSTANCE Loops WITH Step <- ApplyStep, Holds <- ApplyHolds

\* What both make is a sequence of changes, whatever the batches hold.
IsChanges(c, i, d) == d \in Seq(Int)

RowTypes == INSTANCE Loops WITH Step <- RowStep, Holds <- IsChanges

ApplyTypes == INSTANCE Loops WITH Step <- ApplyStep, Holds <- IsChanges

LEMMA AppliedType ==
  ASSUME NEW batches \in Column
  PROVE  applyUpdates(batches) \in Seq(Int)
<1>1. /\ batches \in Seq(Seq(Int)) /\ batches[1] \in Seq(Int)
      /\ \A i \in 1 .. Len(batches) : batches[i] \in Seq(Int)
  BY SizesAssumption DEF Column
<1>2. ASSUME NEW d \in Seq(Int), NEW j \in Nat \ {0} PROVE ApplyRow(d, batches, j) \in Seq(Int)
  <2>. DEFINE c == <<j>>
  <2>1. ApplyRow(d, batches, j) = RowTypes!Loop(c, d, batches)
    BY DEF ApplyRow, RowStep, RowTypes!Loop, FoldLeft, RowTypes!FoldLeft, MapThenFoldSet,
           RowTypes!MapThenFoldSet, Max, RowTypes!Max
  <2>2. ASSUME NEW x, NEW i \in 1 .. Len(batches), IsChanges(c, i - 1, x)
        PROVE  IsChanges(c, i, RowStep(c, x, batches[i]))
    BY <1>1, <2>2 DEF IsChanges, RowStep
  <2>3. IsChanges(c, 0, d)
    BY DEF IsChanges
  <2>4. IsChanges(c, Len(batches), RowTypes!Loop(c, d, batches))
    <3>. HIDE DEF c
    <3>. QED BY <1>1, <2>2, <2>3, RowTypes!LoopKeeps
  <2>. QED BY <2>1, <2>4 DEF IsChanges
<1>. DEFINE n == Len(batches[1])
            q == [j \in 1 .. n |-> j]
            c == <<batches>>
<1>3. applyUpdates(batches) = ApplyTypes!Loop(c, <<>>, q)
  BY DEF applyUpdates, ApplyStep, ApplyTypes!Loop, FoldLeft, ApplyTypes!FoldLeft, MapThenFoldSet,
         ApplyTypes!MapThenFoldSet, Max, ApplyTypes!Max
<1>4. n \in Nat
  BY <1>1
<1>. HIDE DEF n
<1>5. q \in Seq(Nat \ {0}) /\ Len(q) = n /\ \A i \in 1 .. n : q[i] \in Nat \ {0}
  BY <1>4
<1>. HIDE DEF q
<1>6. ASSUME NEW d, NEW j \in 1 .. Len(q), IsChanges(c, j - 1, d)
      PROVE  IsChanges(c, j, ApplyStep(c, d, q[j]))
  BY <1>2, <1>5, <1>6 DEF IsChanges, ApplyStep
<1>7. IsChanges(c, 0, <<>>)
  BY DEF IsChanges
<1>8. IsChanges(c, Len(q), ApplyTypes!Loop(c, <<>>, q))
  <2>. HIDE DEF c
  <2>. QED BY <1>5, <1>6, <1>7, ApplyTypes!LoopKeeps
<1>. QED BY <1>3, <1>8 DEF IsChanges

-----------------------------------------------------------------------------
\* Runs of updates.
LEMMA Runs ==
  ASSUME NEW lo \in Nat, NEW hi \in Nat, lo <= hi
  PROVE  /\ Run(lo, hi) \in Seq(Int) /\ Len(Run(lo, hi)) = hi - lo
         /\ Run(lo, lo) = <<>>
         /\ Append(Run(lo, hi), hi + 1) = Run(lo, hi + 1)
         /\ \A end \in Nat : hi <= end => Run(lo, hi) \o Run(hi, end) = Run(lo, end)
<1>1. ASSUME NEW a \in Nat, NEW b \in Nat, a <= b
      PROVE  /\ Run(a, b) \in Seq(Int) /\ Len(Run(a, b)) = b - a
             /\ \A i \in 1 .. b - a : Run(a, b)[i] = a + i
  <2>1. b - a \in Nat BY <1>1
  <2>. QED BY <2>1 DEF Run
<1>2. Run(lo, lo) = <<>>
  <2>1. Run(lo, lo) \in Seq(Int) /\ Len(Run(lo, lo)) = 0 BY <1>1
  <2>. QED BY <2>1
<1>3. Append(Run(lo, hi), hi + 1) = Run(lo, hi + 1)
  <2>. DEFINE a == Run(lo, hi)
              t == Run(lo, hi + 1)
              k == hi - lo
  <2>1. k \in Nat /\ a \in Seq(Int) /\ Len(a) = k /\ \A i \in 1 .. k : a[i] = lo + i BY <1>1
  <2>2. t \in Seq(Int) /\ Len(t) = k + 1 /\ \A i \in 1 .. k + 1 : t[i] = lo + i
    <3>1. hi + 1 \in Nat /\ lo <= hi + 1 /\ (hi + 1) - lo = k + 1 OBVIOUS
    <3>2. t \in Seq(Int) /\ Len(t) = (hi + 1) - lo /\ \A i \in 1 .. (hi + 1) - lo : t[i] = lo + i
      <4>. HIDE DEF k
      <4>. QED BY <1>1, <3>1
    <3>. HIDE DEF t
    <3>. QED BY <3>1, <3>2
  <2>3. hi + 1 = lo + (k + 1) /\ hi + 1 \in Int OBVIOUS
  <2>. HIDE DEF a, t, k
  <2>4. Append(a, hi + 1) \in Seq(Int) /\ Len(Append(a, hi + 1)) = k + 1 BY <2>1, <2>3
  <2>5. \A i \in 1 .. k + 1 : Append(a, hi + 1)[i] = t[i] BY <2>1, <2>2, <2>3, SMTT(20)
  <2>6. Append(a, hi + 1) = t BY <2>2, <2>4, <2>5, SeqEqual
  <2>. QED BY <2>6 DEF a, t
<1>4. ASSUME NEW end \in Nat, hi <= end PROVE Run(lo, hi) \o Run(hi, end) = Run(lo, end)
  <2>. DEFINE a == Run(lo, hi)
              b == Run(hi, end)
              t == Run(lo, end)
              k == hi - lo
              l == end - hi
  <2>1. k \in Nat /\ a \in Seq(Int) /\ Len(a) = k /\ \A i \in 1 .. k : a[i] = lo + i BY <1>1
  <2>2. l \in Nat /\ b \in Seq(Int) /\ Len(b) = l /\ \A i \in 1 .. l : b[i] = hi + i BY <1>1, <1>4
  <2>3. t \in Seq(Int) /\ Len(t) = k + l /\ \A i \in 1 .. k + l : t[i] = lo + i
    <3>1. lo <= end /\ end - lo = k + l BY <1>4
    <3>2. t \in Seq(Int) /\ Len(t) = end - lo /\ \A i \in 1 .. end - lo : t[i] = lo + i
      <4>. HIDE DEF k, l
      <4>. QED BY <1>1, <3>1
    <3>. HIDE DEF t, k, l
    <3>. QED BY <3>1, <3>2
  <2>4. hi = lo + k BY <1>4
  <2>. HIDE DEF a, b, t, k, l
  <2>5. a \o b \in Seq(Int) /\ Len(a \o b) = k + l BY <2>1, <2>2, ConcatProperties
  <2>6. ASSUME NEW i \in 1 .. k + l PROVE (a \o b)[i] = t[i]
    <3>1. CASE i <= k BY <2>1, <2>2, <2>3, <3>1
    <3>2. CASE i > k
      <4>1. (a \o b)[i] = b[i - k] /\ i - k \in 1 .. l BY <2>1, <2>2, <3>2
      <4>. QED BY <2>1, <2>2, <2>3, <2>4, <4>1
    <3>. QED BY <2>1, <2>2, <3>1, <3>2
  <2>7. a \o b = t BY <2>3, <2>5, <2>6, SeqEqual
  <2>. QED BY <2>7 DEF a, b, t
<1>. QED BY <1>1, <1>2, <1>3, <1>4

\* Sequence s is batch b, with len of the updates after lo.
IsBatch(s, lo, len, b) ==
  /\ s \in Seq(Int) /\ Len(s) = len
  /\ \A j \in 1 .. len : s[j] = lo + (j - 1) * Batches + b

\* Every batch of Spread is one.
LEMMA SpreadBatch ==
  ASSUME NEW lo \in Nat, NEW r \in Nat, NEW c \in 0 .. Batches, NEW b \in 1 .. Batches
  PROVE  IsBatch(Spread(lo, r, c)[b], lo, IF b <= c THEN r + 1 ELSE r, b)
<1>. DEFINE len == IF b <= c THEN r + 1 ELSE r
            s == [j \in 1 .. len |-> lo + (j - 1) * Batches + b]
<1>1. len \in Nat /\ Batches \in Nat BY SizesAssumption
<1>2. Spread(lo, r, c)[b] = s BY DEF Spread
<1>3. \A j \in 1 .. len : lo + (j - 1) * Batches + b \in Int
  <2>. HIDE DEF len
  <2>1. \A j \in 1 .. len : (j - 1) * Batches \in Int BY <1>1
  <2>. QED BY <1>1, <2>1
<1>4. IsBatch(s, lo, len, b)
  <2>. HIDE DEF len
  <2>. QED BY <1>1, <1>3 DEF IsBatch
<1>. QED BY <1>2, <1>4

\* The batches are as long as their number of updates tells.
LEMMA BatchedColumn ==
  ASSUME NEW lo \in Nat, NEW n \in Nat, NEW batches, Batched(batches, lo, n)
  PROVE  batches \in Column
<1>1. PICK r \in 0 .. n, c \in 0 .. Batches - 1 : batches = Spread(lo, r, c)
  BY DEF Batched
<1>2. r \in Nat /\ c \in 0 .. Batches BY SizesAssumption
<1>3. \A b \in 1 .. Batches : Spread(lo, r, c)[b] \in Seq(Int) BY <1>2, SpreadBatch DEF IsBatch
<1>4. batches = [b \in 1 .. Batches |-> Spread(lo, r, c)[b]] BY <1>1 DEF Spread
<1>. QED BY <1>3, <1>4 DEF Column

\* addUpdate puts the next update where it belongs.
LEMMA AddOne ==
  ASSUME NEW lo \in Nat, NEW n \in Nat, NEW batches, Batched(batches, lo, n)
  PROVE  Batched(addUpdate(batches, n, lo + n + 1), lo, n + 1)
<1>. DEFINE new == addUpdate(batches, n, lo + n + 1)
<1>0. Batches \in Nat /\ Batches > 0 BY SizesAssumption
<1>1. PICK r \in 0 .. n, c \in 0 .. Batches - 1 : n = r * Batches + c /\ batches = Spread(lo, r, c)
  BY DEF Batched
<1>2. r \in Nat /\ c \in 0 .. Batches /\ c + 1 \in 1 .. Batches /\ c + 1 \in 0 .. Batches BY <1>0
<1>3. n % Batches = c
  <2>1. (r * Batches + c) % Batches = c BY <1>0, <1>2
  <2>. QED BY <1>1, <2>1
<1>4. lo + n + 1 = lo + r * Batches + (c + 1)
  <2>1. r * Batches \in Nat BY <1>0, <1>2
  <2>. QED BY <1>1, <1>2, <2>1
<1>5. new = [batches EXCEPT ![c + 1] = Append(@, lo + n + 1)]
  BY <1>3 DEF addUpdate
<1>6. new = Spread(lo, r, c + 1)
  <2>. DEFINE old == Spread(lo, r, c)
              end == Spread(lo, r, c + 1)
  <2>1. ASSUME NEW b \in 1 .. Batches, b # c + 1 PROVE new[b] = end[b]
    <3>1. b <= c <=> b <= c + 1 BY <1>0, <1>2, <2>1
    <3>2. new[b] = old[b] BY <1>1, <1>5, <2>1 DEF Spread
    <3>. QED BY <3>1, <3>2 DEF Spread
  <2>2. new[c + 1] = end[c + 1]
    <3>1. new[c + 1] = Append(old[c + 1], lo + n + 1) BY <1>1, <1>2, <1>5 DEF Spread
    <3>2. IsBatch(old[c + 1], lo, r, c + 1)
      <4>1. ~ (c + 1 <= c) BY <1>2
      <4>2. IsBatch(old[c + 1], lo, IF c + 1 <= c THEN r + 1 ELSE r, c + 1) BY <1>2, SpreadBatch
      <4>. QED BY <4>1, <4>2
    <3>3. IsBatch(end[c + 1], lo, r + 1, c + 1)
      <4>1. c + 1 <= c + 1 BY <1>2
      <4>2. IsBatch(end[c + 1], lo, IF c + 1 <= c + 1 THEN r + 1 ELSE r, c + 1) BY <1>2, SpreadBatch
      <4>. QED BY <4>1, <4>2
    <3>. USE DEF IsBatch
    <3>4. lo + n + 1 \in Int /\ end[c + 1][r + 1] = lo + n + 1
      <4>1. r + 1 \in 1 .. r + 1 /\ (r + 1) - 1 = r BY <1>2
      <4>. QED BY <1>4, <3>3, <4>1
    <3>. HIDE DEF old, end, new
    <3>5. /\ Append(old[c + 1], lo + n + 1) \in Seq(Int)
          /\ Len(Append(old[c + 1], lo + n + 1)) = r + 1
      BY <1>2, <3>2, <3>4
    <3>6. ASSUME NEW j \in 1 .. r + 1
          PROVE  Append(old[c + 1], lo + n + 1)[j] = end[c + 1][j]
      <4>1. CASE j = r + 1
        BY <1>2, <3>2, <3>4, <4>1
      <4>2. CASE j \in 1 .. r
        <5>1. Append(old[c + 1], lo + n + 1)[j] = old[c + 1][j] BY <3>2, <3>4, <4>2
        <5>. QED BY <3>2, <3>3, <4>2, <5>1
      <4>3. j = r + 1 \/ j \in 1 .. r BY <1>2
      <4>. QED BY <4>1, <4>2, <4>3
    <3>7. Append(old[c + 1], lo + n + 1) = end[c + 1] BY <3>3, <3>5, <3>6, SeqEqual
    <3>. QED BY <3>1, <3>7
  <2>3. \A b \in 1 .. Batches : new[b] = end[b] BY <2>1, <2>2
  <2>4. DOMAIN new = 1 .. Batches /\ DOMAIN end = 1 .. Batches /\ end = [b \in 1 .. Batches |-> end[b]]
        /\ new = [b \in 1 .. Batches |-> new[b]]
    BY <1>1, <1>5 DEF Spread
  <2>. HIDE DEF new, end
  <2>. QED BY <2>3, <2>4 DEF end
<1>. HIDE DEF new
<1>7. CASE c + 1 <= Batches - 1
  <2>1. n + 1 = r * Batches + (c + 1)
    <3>1. r * Batches \in Nat BY <1>0, <1>2
    <3>. QED BY <1>1, <1>2, <3>1
  <2>2. r \in 0 .. n + 1 /\ c + 1 \in 0 .. Batches - 1 BY <1>0, <1>2, <1>7
  <2>. QED BY <1>6, <2>1, <2>2 DEF Batched, new
<1>8. CASE c + 1 = Batches
  <2>1. n + 1 = (r + 1) * Batches + 0
    <3>1. r * Batches \in Nat /\ (r + 1) * Batches = r * Batches + Batches BY <1>0, <1>2
    <3>. QED BY <1>0, <1>1, <1>2, <1>8, <3>1
  <2>2. r + 1 \in 0 .. n + 1 /\ 0 \in 0 .. Batches - 1 BY <1>0, <1>2
  <2>3. Spread(lo, r, c + 1) = Spread(lo, r + 1, 0)
    <3>1. \A b \in 1 .. Batches : (IF b <= c + 1 THEN r + 1 ELSE r) = (IF b <= 0 THEN (r + 1) + 1 ELSE r + 1)
      BY <1>0, <1>8
    <3>. QED BY <3>1 DEF Spread
  <2>. QED BY <1>6, <2>1, <2>2, <2>3 DEF Batched, new
<1>. QED BY <1>0, <1>2, <1>7, <1>8 DEF new

\* addUpdates keeps the updates in their order.
LEMMA AddedBatched ==
  ASSUME NEW lo \in Nat, NEW sz \in Nat, NEW n \in Nat, NEW batches, Batched(batches, lo, sz)
  PROVE  Batched(Added(batches, sz, lo + sz, n), lo, sz + n)
<1>. DEFINE q == [i \in 1 .. n |-> i]
            c == <<sz, lo>>
<1>1. Added(batches, sz, lo + sz, n) = AddLoop!Loop(c, batches, q)
  BY DEF Added, AddStep, AddLoop!Loop, FoldLeft, AddLoop!FoldLeft, MapThenFoldSet,
         AddLoop!MapThenFoldSet, Max, AddLoop!Max
<1>2. q \in Seq(Nat) /\ Len(q) = n /\ \A i \in 1 .. n : q[i] = i
  OBVIOUS
<1>. HIDE DEF q
<1>3. AddHolds(c, 0, batches)
  <2>1. sz + 0 = sz OBVIOUS
  <2>. QED BY <2>1 DEF AddHolds
<1>4. ASSUME NEW b, NEW i \in 1 .. Len(q), AddHolds(c, i - 1, b)
      PROVE  AddHolds(c, i, AddStep(c, b, q[i]))
  <2>1. /\ i \in 1 .. n /\ q[i] = i /\ sz + i - 1 \in Nat /\ sz + (i - 1) = sz + i - 1
        /\ lo + (sz + i - 1) + 1 = lo + sz + i /\ (sz + i - 1) + 1 = sz + i
    BY <1>2
  <2>2. Batched(b, lo, sz + i - 1) BY <1>4, <2>1 DEF AddHolds
  <2>3. Batched(addUpdate(b, sz + i - 1, lo + (sz + i - 1) + 1), lo, (sz + i - 1) + 1)
    BY <2>1, <2>2, AddOne
  <2>. QED BY <2>1, <2>3 DEF AddHolds, AddStep
<1>5. AddHolds(c, Len(q), AddLoop!Loop(c, batches, q))
  <2>. HIDE DEF c
  <2>. QED BY <1>2, <1>3, <1>4, AddLoop!LoopKeeps
<1>. QED BY <1>1, <1>2, <1>5 DEF AddHolds

\* applyUpdates goes through a row of the batches: all of them in the first r
\* rows and the first c of them in the row after.
LEMMA RowValue ==
  ASSUME NEW lo \in Nat, NEW r \in Nat, NEW c \in 0 .. Batches - 1, NEW j \in 1 .. r + 1
  PROVE  ApplyRow(Run(lo, lo + (j - 1) * Batches), Spread(lo, r, c), j)
           = Run(lo, lo + (j - 1) * Batches + IF j <= r THEN Batches ELSE c)
<1>. DEFINE batches == Spread(lo, r, c)
            base == lo + (j - 1) * Batches
            w == IF j <= r THEN Batches ELSE c
            k(i) == IF i <= w THEN i ELSE w
<1>0. Batches \in Nat /\ Batches > 0 BY SizesAssumption
<1>1. base \in Nat /\ lo <= base /\ w \in 0 .. Batches /\ c \in 0 .. Batches /\ j \in Nat \ {0}
  <2>1. (j - 1) * Batches \in Nat BY <1>0
  <2>. QED BY <1>0, <2>1
<1>2. ASSUME NEW b \in 1 .. Batches
      PROVE  /\ batches[b] \in Seq(Int) /\ (Len(batches[b]) >= j <=> b <= w)
             /\ b <= w => batches[b][j] = base + b
  <2>. DEFINE len == IF b <= c THEN r + 1 ELSE r
  <2>1. IsBatch(batches[b], lo, len, b) BY <1>1, SpreadBatch
  <2>2. len >= j <=> b <= w BY <1>0, <1>2
  <2>3. b <= w => j \in 1 .. len BY <1>0, <1>2
  <2>. HIDE DEF len, w, batches
  <2>. QED BY <2>1, <2>2, <2>3 DEF IsBatch
<1>3. batches \in Column
  <2>1. batches = [b \in 1 .. Batches |-> batches[b]] BY DEF Spread
  <2>. HIDE DEF batches
  <2>. QED BY <1>2, <2>1 DEF Column
<1>4. Run(lo, base) \in Seq(Int)
  <2>. HIDE DEF base
  <2>. QED BY <1>1, Runs
<1>. HIDE DEF batches, base, w
<1>. DEFINE x == <<j, lo, base, w>>
<1>5. batches \in Seq(Seq(Int)) /\ Len(batches) = Batches
  BY <1>0, <1>3 DEF Column
<1>6. RowHolds(x, 0, Run(lo, base))
  <2>1. k(0) = 0 /\ base + 0 = base BY <1>1
  <2>. QED BY <2>1 DEF RowHolds
<1>7. ASSUME NEW d, NEW i \in 1 .. Len(batches), RowHolds(x, i - 1, d)
      PROVE  RowHolds(x, i, RowStep(x, d, batches[i]))
  <2>. DEFINE e == RowStep(x, d, batches[i])
  <2>0. d = Run(lo, base + k(i - 1))
    BY <1>7 DEF RowHolds
  <2>1. i \in 1 .. Batches /\ i \in Int
    BY <1>5
  <2>2. /\ Len(batches[i]) >= j => e = Append(d, batches[i][j])
        /\ ~(Len(batches[i]) >= j) => e = d
    BY DEF RowStep
  <2>. HIDE DEF e, x
  <2>3. ASSUME i <= w PROVE e = Run(lo, base + k(i))
    <3>1. k(i - 1) = i - 1 /\ k(i) = i /\ base + (i - 1) \in Nat /\ lo <= base + (i - 1)
          /\ base + (i - 1) + 1 = base + i
      BY <1>0, <1>1, <2>1, <2>3
    <3>2. e = Append(d, base + i) BY <1>2, <2>1, <2>3, <2>2
    <3>3. Append(Run(lo, base + (i - 1)), base + (i - 1) + 1) = Run(lo, base + (i - 1) + 1)
      BY <3>1, Runs
    <3>. HIDE DEF k
    <3>. QED BY <2>0, <3>1, <3>2, <3>3
  <2>4. ASSUME ~ (i <= w) PROVE e = Run(lo, base + k(i))
    <3>1. k(i - 1) = w /\ k(i) = w BY <1>0, <1>1, <2>1, <2>4
    <3>2. e = d BY <1>2, <2>1, <2>4, <2>2
    <3>. HIDE DEF k
    <3>. QED BY <2>0, <3>1, <3>2
  <2>5. e = Run(lo, base + k(i)) BY <2>3, <2>4
  <2>. QED BY <2>5 DEF RowHolds, e, x
<1>8. ApplyRow(Run(lo, base), batches, j) = RowLoop!Loop(x, Run(lo, base), batches)
  BY DEF ApplyRow, RowStep, RowLoop!Loop, FoldLeft, RowLoop!FoldLeft, MapThenFoldSet,
         RowLoop!MapThenFoldSet, Max, RowLoop!Max
<1>9. RowHolds(x, Batches, RowLoop!Loop(x, Run(lo, base), batches))
  <2>1. RowHolds(x, Len(batches), RowLoop!Loop(x, Run(lo, base), batches))
    <3>. HIDE DEF x
    <3>. QED BY <1>5, <1>6, <1>7, RowLoop!LoopKeeps
  <2>. QED BY <1>5, <2>1
<1>10. k(Batches) = w BY <1>0, <1>1
<1>11. ApplyRow(Run(lo, base), batches, j) = Run(lo, base + w)
  BY <1>8, <1>9, <1>10 DEF RowHolds
<1>. QED BY <1>11 DEF batches, base, w

\* applyUpdates makes the changes in the order in which the leader made them.
LEMMA ApplyBatched ==
  ASSUME NEW lo \in Nat, NEW n \in Nat, NEW batches, Batched(batches, lo, n)
  PROVE  applyUpdates(batches) = Run(lo, lo + n)
<1>0. Batches \in Nat /\ Batches > 0 BY SizesAssumption
<1>1. PICK r \in 0 .. n, c \in 0 .. Batches - 1 : n = r * Batches + c /\ batches = Spread(lo, r, c)
  BY DEF Batched
<1>. DEFINE m == IF 1 <= c THEN r + 1 ELSE r
            to(j) == lo + IF j <= r THEN j * Batches ELSE n
<1>2. r \in Nat /\ c \in 0 .. Batches /\ 1 \in 1 .. Batches /\ m \in Nat BY <1>0
<1>3. Len(batches[1]) = m
  <2>1. IsBatch(Spread(lo, r, c)[1], lo, m, 1) BY <1>2, SpreadBatch
  <2>. QED BY <1>1, <2>1 DEF IsBatch
<1>. DEFINE q == [j \in 1 .. Len(batches[1]) |-> j]
            x == <<batches, lo, r, n>>
<1>4. applyUpdates(batches) = ApplyLoop!Loop(x, <<>>, q)
  BY DEF applyUpdates, ApplyStep, ApplyLoop!Loop, FoldLeft, ApplyLoop!FoldLeft, MapThenFoldSet,
         ApplyLoop!MapThenFoldSet, Max, ApplyLoop!Max
<1>5. q \in Seq(Nat) /\ Len(q) = m /\ \A i \in 1 .. m : q[i] = i
  <2>. HIDE DEF m
  <2>. QED BY <1>2, <1>3
<1>. HIDE DEF q
<1>6. ApplyHolds(x, 0, <<>>)
  <2>1. to(0) = lo BY <1>0, <1>2
  <2>2. Run(lo, lo) = <<>>
    <3>. HIDE DEF to, m
    <3>1. lo <= lo OBVIOUS
    <3>. QED BY <3>1, Runs
  <2>. QED BY <2>1, <2>2 DEF ApplyHolds
<1>7. ASSUME NEW d, NEW j \in 1 .. Len(q), ApplyHolds(x, j - 1, d)
      PROVE  ApplyHolds(x, j, ApplyStep(x, d, q[j]))
  <2>1. j \in 1 .. r + 1 /\ j - 1 <= r /\ j \in Nat /\ q[j] = j BY <1>2, <1>5
  <2>2. d = Run(lo, lo + (j - 1) * Batches)
    <3>1. to(j - 1) = lo + (j - 1) * Batches BY <2>1
    <3>2. d = Run(lo, to(j - 1)) BY <1>7 DEF ApplyHolds
    <3>. HIDE DEF to
    <3>. QED BY <3>1, <3>2
  <2>3. ApplyRow(d, batches, j) = Run(lo, lo + (j - 1) * Batches + IF j <= r THEN Batches ELSE c)
    BY <1>1, <1>2, <2>1, <2>2, RowValue
  <2>4. lo + (j - 1) * Batches + (IF j <= r THEN Batches ELSE c) = to(j)
    <3>1. CASE j <= r
      <4>1. (j - 1) * Batches + Batches = j * Batches /\ (j - 1) * Batches \in Int BY <1>0, <2>1
      <4>. QED BY <1>0, <3>1, <4>1
    <3>2. CASE ~ (j <= r)
      <4>1. j - 1 = r BY <1>2, <2>1, <3>2
      <4>2. r * Batches \in Nat BY <1>0, <1>2
      <4>. QED BY <1>1, <3>2, <4>1, <4>2
    <3>. QED BY <3>1, <3>2
  <2>5. ApplyRow(d, batches, j) = Run(lo, to(j))
    <3>. HIDE DEF to, m
    <3>. QED BY <2>3, <2>4
  <2>6. ApplyStep(x, d, q[j]) = ApplyRow(d, batches, j) BY <2>1 DEF ApplyStep
  <2>. QED BY <2>5, <2>6 DEF ApplyHolds
<1>8. ApplyHolds(x, m, ApplyLoop!Loop(x, <<>>, q))
  <2>1. ApplyHolds(x, Len(q), ApplyLoop!Loop(x, <<>>, q))
    <3>. HIDE DEF x
    <3>. QED BY <1>5, <1>6, <1>7, ApplyLoop!LoopKeeps
  <2>. HIDE DEF m
  <2>. QED BY <1>5, <2>1
<1>9. applyUpdates(batches) = Run(lo, to(m))
  BY <1>4, <1>8 DEF ApplyHolds
<1>10. to(m) = lo + n
  <2>1. CASE c = 0
    <3>1. r * Batches \in Nat BY <1>0, <1>2
    <3>2. m = r /\ n = r * Batches BY <1>1, <2>1, <3>1
    <3>. QED BY <1>2, <3>2
  <2>2. CASE c >= 1
    <3>1. m = r + 1 /\ ~ (m <= r) BY <1>2, <2>2
    <3>. QED BY <3>1
  <2>. QED BY <1>0, <2>1, <2>2
<1>. HIDE DEF to, m
<1>. QED BY <1>9, <1>10

-----------------------------------------------------------------------------
(* The inductive invariant.                                                *)

\* Some thread is at stage x of sending updates, when main is at p, the pool
\* has the tasks q and the threads are at the stages st.
Sending(p, q, st, x) ==
  \/ p = "send" /\ st["main"] = x
  \/ q # <<>> /\ Head(q) = "updates" /\ st["pool"] = x

\* The changes broadcast so far: those that are not in updates_, and these too
\* between their broadcast and clearUpdates.
Delivered == IF Sending(pc, pool, stage, "sent") THEN made ELSE made - updatesSz

\* Types of what the proofs are about.
DesignTypes ==
  /\ made \in Nat /\ taMade \in Nat /\ updatesSz \in 0 .. made
  /\ updatesFile \in Column
  /\ savedFiles \in Seq(Column) /\ Len(savedFiles) = Len(saved)
  /\ applied \in [Worker -> Seq(Int)]
  /\ stale \subseteq known
  /\ \A w \in Worker \ known : applied[w] = <<>>

\* The first round has not sent its jobs.
FirstRound == pc \in {"dr", "batch"} /\ iter = 0 /\ version = 0

\* main adds no updates while another thread sends some, and the files are
\* those that were written when they are broadcast.
Leader ==
  /\ pc = "check" \/ (pc \in {"dr", "batch"} /\ (iter > 0 \/ version > 0)) => pool = <<>>
  /\ pc \in Early \/ FirstRound \/ pool # <<>> => made = taMade
  /\ pc \in {"start", "initDesign", "pa"} \/ paThread # <<>> => made = 0
  /\ pc = "jobs" => updatesSz = 0
  /\ Batched(updates, made - updatesSz, updatesSz)
  /\ Sending(pc, pool, stage, "written") => updatesFile = updates

\* The i-th saved broadcast brings the workers up to change upto[i].
Spans(upto) ==
  /\ \A i \in 0 .. Len(saved) : upto[i] \in Nat /\ upto[0] <= upto[i]
  /\ \A i \in 1 .. Len(saved) :
       IF saved[i].kind = "updates"
       THEN upto[i - 1] <= upto[i] /\ Batched(savedFiles[i], upto[i - 1], upto[i] - upto[i - 1])
       ELSE upto[i] = upto[i - 1]

\* The workers hold what they were sent; upto[0] changes were lost.
Mirrored(upto) ==
  /\ Spans(upto)
  /\ upto[0] <= IF doPA THEN 0 ELSE taMade
  /\ upto[Len(saved)] = Delivered
  /\ \A w \in members \ stale : applied[w] = Run(upto[0], upto[Len(saved)])
  /\ joiner.worker # NoWorker /\ joiner.worker \notin stale =>
       applied[joiner.worker] = Run(upto[0], upto[joiner.next - 1])

\* The whole invariant.
Mirroring == DesignTypes /\ Leader /\ \E upto : Mirrored(upto)

MirrorInv == faults = 0 => Mirroring

-----------------------------------------------------------------------------
\* A step that leaves the workers and what was delivered alone.
LEMMA MirrorFrame ==
  ASSUME DesignTypes, \E upto : Mirrored(upto),
         UNCHANGED <<doPA, saved, savedFiles, members, stale, applied, joiner>>,
         taMade' \in Nat, taMade <= taMade', Delivered' = Delivered
  PROVE  \E upto : Mirrored(upto)'
<1>1. PICK upto : Mirrored(upto) OBVIOUS
<1>2. Spans(upto)' BY <1>1 DEF Mirrored, Spans
<1>3. upto[0] <= IF doPA' THEN 0 ELSE taMade'
  <2>1. upto[0] \in Nat
    <3>1. Len(saved) \in Nat BY DEF DesignTypes
    <3>2. 0 \in 0 .. Len(saved) BY <3>1
    <3>. QED BY <1>1, <3>2 DEF Mirrored, Spans
  <2>. QED BY <1>1, <2>1 DEF Mirrored, DesignTypes
<1>4. Mirrored(upto)' BY <1>1, <1>2, <1>3 DEF Mirrored
<1>. QED BY <1>4

\* A broadcast: the members make the changes of the files, up to hi.
LEMMA DeliverMirror ==
  ASSUME IInv, WorkersReady, DesignTypes, NEW upto, Mirrored(upto),
         NEW m \in Message, m.kind \in KindsAt(Len(saved) + 1), Deliver(m, FALSE),
         UNCHANGED <<doPA, joiner, known, stale, taMade, made, updatesSz, updatesFile>>,
         NEW hi \in Nat, upto[Len(saved)] <= hi,
         IF m.kind = "updates" THEN Batched(updatesFile, upto[Len(saved)], hi - upto[Len(saved)])
         ELSE hi = upto[Len(saved)],
         Delivered' = hi
  PROVE  DesignTypes' /\ \E up : Mirrored(up)'
<1>. DEFINE n == Len(saved)
            lo == upto[n]
<1>0. n \in Nat /\ Len(savedFiles) = n BY DEF IInv, Types, DesignTypes
<1>1. PICK failed \in SUBSET members :
        /\ members' = members \ failed
        /\ applied' = [w \in Worker |-> IF w \notin members \ failed THEN applied[w]
                                        ELSE applied[w] \o Changes(worker[w], m) \o <<>>]
  BY DEF Deliver
<1>2. /\ saved' = Append(saved, m) /\ Len(saved') = n + 1 /\ saved'[n + 1] = m
      /\ \A i \in 1 .. n : saved'[i] = saved[i]
  BY <1>0 DEF Deliver, IInv, Types
<1>3. /\ savedFiles' \in Seq(Column) /\ Len(savedFiles') = n + 1
      /\ savedFiles'[n + 1] = updatesFile /\ \A i \in 1 .. n : savedFiles'[i] = savedFiles[i]
  <2>1. savedFiles' = savedFiles \o <<updatesFile>> BY DEF Deliver
  <2>2. savedFiles \in Seq(Column) /\ updatesFile \in Column BY DEF DesignTypes
  <2>. QED BY <1>0, <2>1, <2>2
<1>4. lo \in Nat /\ upto[0] \in Nat /\ upto[0] <= lo
  <2>1. n \in 0 .. n /\ 0 \in 0 .. n BY <1>0
  <2>. QED BY <2>1 DEF Mirrored, Spans
<1>5. ASSUME NEW w \in members
      PROVE  Changes(worker[w], m) = Run(lo, hi)
  <2>1. CASE m.kind = "updates"
    <3>1. n >= SetupLen BY <1>0, <2>1 DEF KindsAt, SetupLen
    <3>2. worker[w].prepared = TRUE BY <3>1 DEF WorkersReady, Ready
    <3>3. Changes(worker[w], m) = applyUpdates(updatesFile) BY <2>1, <3>2 DEF Changes
    <3>4. Batched(updatesFile, lo, hi - lo) BY <2>1
    <3>5. hi - lo \in Nat /\ lo + (hi - lo) = hi BY <1>4
    <3>6. applyUpdates(updatesFile) = Run(lo, lo + (hi - lo))
      <4>. HIDE DEF lo
      <4>. QED BY <1>4, <3>4, <3>5, ApplyBatched
    <3>. QED BY <3>3, <3>5, <3>6
  <2>2. CASE m.kind # "updates"
    <3>1. Changes(worker[w], m) = <<>> /\ hi = lo BY <2>2 DEF Changes
    <3>2. lo <= lo /\ Run(lo, lo) = <<>>
      <4>. HIDE DEF lo
      <4>1. lo <= lo BY <1>4
      <4>. QED BY <1>4, <4>1, Runs
    <3>. QED BY <3>1, <3>2
  <2>. QED BY <2>1, <2>2
<1>6. lo <= hi OBVIOUS
<1>a. PICK up : up = [i \in 0 .. n + 1 |-> IF i = n + 1 THEN hi ELSE upto[i]] OBVIOUS
<1>7. up[0] = upto[0] /\ up[n] = lo /\ up[n + 1] = hi /\ \A i \in 0 .. n : up[i] = upto[i]
  BY <1>0, <1>a
<1>8. upto[n] = lo OBVIOUS
<1>. HIDE DEF lo
<1>9. Run(lo, hi) \in Seq(Int) BY <1>4, <1>6, Runs
<1>10. ASSUME NEW w \in members, w \notin failed
       PROVE  applied'[w] = applied[w] \o Run(lo, hi) /\ applied'[w] \in Seq(Int)
  <2>1. w \in Worker /\ applied[w] \in Seq(Int) BY DEF IInv, Types, DesignTypes
  <2>2. applied'[w] = applied[w] \o Changes(worker[w], m) \o <<>> BY <1>1, <1>10, <2>1
  <2>3. applied'[w] = applied[w] \o Run(lo, hi) \o <<>> BY <1>5, <2>2
  <2>. QED BY <1>9, <2>1, <2>3
<1>11. \A w \in Worker : w \notin members' => applied'[w] = applied[w] BY <1>1
<1>12. DesignTypes'
  <2>1. applied' \in [Worker -> Seq(Int)]
    <3>1. applied' = [w \in Worker |-> applied'[w]] BY <1>1
    <3>2. \A w \in Worker : applied'[w] \in Seq(Int) BY <1>1, <1>10, <1>11 DEF DesignTypes
    <3>. QED BY <3>1, <3>2
  <2>2. \A w \in Worker \ known' : applied'[w] = <<>>
    <3>1. members' \subseteq known BY <1>1 DEF IInv, Types
    <3>. QED BY <1>11, <3>1 DEF DesignTypes
  <2>. QED BY <1>2, <1>3, <2>1, <2>2 DEF DesignTypes
<1>13. Spans(up)'
  <2>1. \A i \in 0 .. n + 1 : up[i] \in Nat /\ up[0] <= up[i]
    BY <1>0, <1>4, <1>6, <1>7 DEF Mirrored, Spans
  <2>2. ASSUME NEW i \in 1 .. n + 1
        PROVE  IF saved'[i].kind = "updates"
               THEN up[i - 1] <= up[i] /\ Batched(savedFiles'[i], up[i - 1], up[i] - up[i - 1])
               ELSE up[i] = up[i - 1]
    <3>1. CASE i \in 1 .. n
      <4>1. up[i] = upto[i] /\ up[i - 1] = upto[i - 1] BY <1>0, <1>7, <3>1
      <4>. QED BY <1>2, <1>3, <3>1, <4>1 DEF Mirrored, Spans
    <3>2. CASE i = n + 1
      <4>1. up[i] = hi /\ up[i - 1] = lo BY <1>0, <1>7, <3>2
      <4>2. IF m.kind = "updates" THEN Batched(updatesFile, lo, hi - lo) ELSE hi = lo BY <1>8
      <4>. QED BY <1>2, <1>3, <1>6, <3>2, <4>1, <4>2
    <3>. QED BY <1>0, <3>1, <3>2
  <2>. QED BY <1>2, <2>1, <2>2 DEF Spans
<1>14. ASSUME NEW w \in members' \ stale' PROVE applied'[w] = Run(up[0], up[n + 1])
  <2>1. w \in members \ stale /\ w \notin failed BY <1>1
  <2>2. applied[w] = Run(upto[0], lo) BY <1>8, <2>1 DEF Mirrored
  <2>3. Run(upto[0], lo) \o Run(lo, hi) = Run(upto[0], hi) BY <1>4, <1>6, Runs
  <2>. QED BY <1>7, <1>10, <2>1, <2>2, <2>3
<1>15. joiner'.worker = NoWorker BY DEF Deliver
<1>16. up[0] <= IF doPA' THEN 0 ELSE taMade' BY <1>7 DEF Mirrored
<1>17. Mirrored(up)' BY <1>2, <1>7, <1>13, <1>14, <1>15, <1>16 DEF Mirrored
<1>. QED BY <1>12, <1>17

\* A worker that joins replays the broadcasts and, if their files are still the
\* same, makes the changes of each.
LEMMA ReplayMirror ==
  ASSUME IInv, WorkersReady, DesignTypes, \E upto : Mirrored(upto), ReplayBroadcast
  PROVE  DesignTypes' /\ \E upto : Mirrored(upto)'
<1>. DEFINE w == joiner.worker
            k == joiner.next
            m == saved[k]
<1>0. PICK upto : Mirrored(upto) OBVIOUS
<1>1. /\ w # NoWorker /\ k <= Len(saved)
      /\ applied' = [applied EXCEPT ![w] = @ \o Changes(worker[w], m)]
      /\ stale' = IF m.kind = "updates" /\ savedFiles[k] # updatesFile THEN stale \cup {w} ELSE stale
      /\ joiner' = [joiner EXCEPT !.next = @ + 1]
      /\ UNCHANGED <<doPA, saved, savedFiles, members, known, taMade, made, updatesSz, updatesFile>>
      /\ Delivered' = Delivered
  BY DEF ReplayBroadcast, mainVars, designVars, fileVars, Delivered
<1>2. w \in known \ members /\ w \in Worker /\ k \in 1 .. Len(saved) + 1
  BY <1>1 DEF IInv, Followers, Types
<1>3. /\ Len(saved) \in Nat /\ k \in Nat /\ k \in 1 .. Len(saved) /\ k - 1 \in 0 .. Len(saved)
      /\ k \in 0 .. Len(saved) /\ (k - 1) + 1 = k
  BY <1>1, <1>2 DEF IInv, Types
<1>4. m \in Message /\ m.kind \in KindsAt(k) /\ applied[w] \in Seq(Int) /\ worker[w] \in WState
  BY <1>2, <1>3 DEF WorkersReady, Ordered, IInv, Types, DesignTypes
<1>5. Ready(worker[w], k - 1) BY <1>1 DEF WorkersReady
<1>6. Changes(worker[w], m) \in Seq(Int)
  <2>1. CASE m.kind = "updates" /\ worker[w].prepared
    <3>1. Changes(worker[w], m) = applyUpdates(updatesFile) BY <2>1 DEF Changes
    <3>2. updatesFile \in Column BY DEF DesignTypes
    <3>. QED BY <3>1, <3>2, AppliedType
  <2>2. CASE ~ (m.kind = "updates" /\ worker[w].prepared)
    BY <2>2 DEF Changes
  <2>. QED BY <2>1, <2>2
<1>7. /\ joiner'.worker = w /\ joiner'.next - 1 = k
      /\ applied'[w] = applied[w] \o Changes(worker[w], m)
      /\ \A v \in Worker : v # w => applied'[v] = applied[v]
      /\ applied' \in [Worker -> Seq(Int)]
  <2>1. joiner'.worker = w /\ joiner'.next - 1 = k
    BY <1>1, <1>3 DEF IInv, Types
  <2>2. applied[w] \o Changes(worker[w], m) \in Seq(Int)
    <3>. HIDE DEF w, k, m
    <3>. QED BY <1>4, <1>6
  <2>. HIDE DEF w, k, m
  <2>3. /\ applied'[w] = applied[w] \o Changes(worker[w], m)
        /\ \A v \in Worker : v # w => applied'[v] = applied[v]
        /\ applied' \in [Worker -> Seq(Int)]
    BY <1>1, <1>2, <2>2 DEF DesignTypes
  <2>. QED BY <2>1, <2>3
<1>8. ASSUME w \notin stale'
      PROVE  Changes(worker[w], m) = Run(upto[k - 1], upto[k])
  <2>. HIDE DEF w, k
  <2>0. upto[k - 1] \in Nat /\ upto[k] \in Nat BY <1>0, <1>3 DEF Mirrored, Spans
  <2>1. CASE m.kind = "updates"
    <3>1. savedFiles[k] = updatesFile BY <1>1, <1>8, <2>1
    <3>2. upto[k - 1] <= upto[k] /\ Batched(savedFiles[k], upto[k - 1], upto[k] - upto[k - 1])
      BY <1>0, <1>3, <2>1 DEF Mirrored, Spans
    <3>3. upto[k] - upto[k - 1] \in Nat /\ upto[k - 1] + (upto[k] - upto[k - 1]) = upto[k]
      BY <2>0, <3>2
    <3>4. applyUpdates(updatesFile) = Run(upto[k - 1], upto[k - 1] + (upto[k] - upto[k - 1]))
      BY <2>0, <3>1, <3>2, <3>3, ApplyBatched
    <3>5. k - 1 >= SetupLen BY <1>3, <1>4, <2>1 DEF KindsAt, SetupLen
    <3>6. worker[w].prepared = TRUE BY <1>5, <3>5 DEF Ready
    <3>. QED BY <2>1, <3>3, <3>4, <3>6 DEF Changes
  <2>2. CASE m.kind # "updates"
    <3>1. upto[k] = upto[k - 1] BY <1>0, <1>3, <2>2 DEF Mirrored, Spans
    <3>2. upto[k] <= upto[k] BY <2>0
    <3>3. Run(upto[k], upto[k]) = <<>> BY <2>0, <3>2, Runs
    <3>. QED BY <2>2, <3>1, <3>3 DEF Changes
  <2>. QED BY <2>1, <2>2
<1>. HIDE DEF w, k, m
<1>9. ASSUME w \notin stale' PROVE applied'[w] = Run(upto[0], upto[k])
  <2>1. applied[w] = Run(upto[0], upto[k - 1])
    BY <1>0, <1>1, <1>9 DEF Mirrored, w, k
  <2>2. /\ upto[0] \in Nat /\ upto[k - 1] \in Nat /\ upto[k] \in Nat
        /\ upto[0] <= upto[k - 1] /\ upto[k - 1] <= upto[k]
    <3>1. 0 \in 0 .. Len(saved) BY <1>3
    <3>. QED BY <1>0, <1>3, <3>1 DEF Mirrored, Spans
  <2>3. Run(upto[0], upto[k - 1]) \o Run(upto[k - 1], upto[k]) = Run(upto[0], upto[k])
    BY <2>2, Runs
  <2>. QED BY <1>7, <1>8, <1>9, <2>1, <2>3
<1>10. \A v \in members : v # w /\ v \in Worker BY <1>2 DEF IInv, Types
<1>11. Spans(upto)' BY <1>0, <1>1 DEF Mirrored, Spans
<1>12. \A v \in members' \ stale' : applied'[v] = Run(upto[0], upto[Len(saved)])
  <2>1. \A v \in members' \ stale' : v \in members \ stale BY <1>1
  <2>. QED BY <1>0, <1>7, <1>10, <2>1 DEF Mirrored
<1>13. upto[0] <= IF doPA' THEN 0 ELSE taMade' BY <1>0, <1>1 DEF Mirrored
<1>14. upto[Len(saved')] = Delivered' BY <1>0, <1>1 DEF Mirrored
<1>15. Mirrored(upto)'
  BY <1>1, <1>7, <1>9, <1>11, <1>12, <1>13, <1>14 DEF Mirrored
<1>16. DesignTypes'
  <2>1. stale' \subseteq known' BY <1>1, <1>2 DEF DesignTypes
  <2>2. \A v \in Worker \ known' : applied'[v] = <<>> BY <1>1, <1>2, <1>7 DEF DesignTypes
  <2>. QED BY <1>1, <1>7, <2>1, <2>2 DEF DesignTypes
<1>. QED BY <1>15, <1>16

\* The other steps of addWorker.
LEMMA JoinMirror ==
  ASSUME IInv, DesignTypes, \E upto : Mirrored(upto),
         ReplayFails \/ EndJoin \/ \E w \in Worker : StartJoin(w)
  PROVE  DesignTypes' /\ \E upto : Mirrored(upto)'
<1>0. PICK upto : Mirrored(upto) OBVIOUS
<1>1. /\ UNCHANGED <<doPA, saved, savedFiles, applied, stale, taMade, made, updatesSz, updatesFile>>
      /\ Delivered' = Delivered
  BY DEF ReplayFails, EndJoin, StartJoin, mainVars, cloudVars, designVars, fileVars, Delivered
<1>2. /\ Spans(upto)' /\ upto[0] <= (IF doPA' THEN 0 ELSE taMade') /\ upto[Len(saved')] = Delivered'
  BY <1>0, <1>1 DEF Mirrored, Spans
<1>3. CASE ReplayFails
  <2>1. joiner'.worker = NoWorker /\ UNCHANGED <<members, known>> BY <1>3 DEF ReplayFails
  <2>2. Mirrored(upto)' BY <1>0, <1>1, <1>2, <2>1 DEF Mirrored
  <2>3. DesignTypes' BY <1>1, <2>1 DEF DesignTypes
  <2>. QED BY <2>2, <2>3
<1>4. CASE EndJoin
  <2>1. /\ joiner'.worker = NoWorker /\ members' = members \cup {joiner.worker} /\ UNCHANGED known
        /\ joiner.worker # NoWorker /\ joiner.next > Len(saved)
    BY <1>4 DEF EndJoin
  <2>2. joiner.next \in 1 .. Len(saved) + 1 /\ Len(saved) \in Nat
    BY <2>1 DEF IInv, Followers, Types
  <2>3. joiner.next - 1 = Len(saved) BY <2>1, <2>2
  <2>4. \A v \in members' \ stale' : applied'[v] = Run(upto[0], upto[Len(saved)])
    BY <1>0, <1>1, <2>1, <2>3 DEF Mirrored
  <2>5. Mirrored(upto)' BY <1>1, <1>2, <2>1, <2>4 DEF Mirrored
  <2>6. DesignTypes' BY <1>1, <2>1 DEF DesignTypes
  <2>. QED BY <2>5, <2>6
<1>5. ASSUME NEW w \in Worker, StartJoin(w)
      PROVE  DesignTypes' /\ \E up : Mirrored(up)'
  <2>1. /\ joiner' = [worker |-> w, next |-> 1] /\ w \notin known /\ known' = known \cup {w}
        /\ UNCHANGED members
    BY <1>5 DEF StartJoin, cloudVars
  <2>2. joiner'.worker = w /\ joiner'.next - 1 = 0 BY <2>1
  <2>3. applied'[w] = Run(upto[0], upto[0])
    <3>1. Len(saved) \in Nat BY DEF IInv, Types
    <3>2. 0 \in 0 .. Len(saved) BY <3>1
    <3>3. upto[0] \in Nat /\ upto[0] <= upto[0] BY <1>0, <3>2 DEF Mirrored, Spans
    <3>4. Run(upto[0], upto[0]) = <<>> BY <3>3, Runs
    <3>. QED BY <1>1, <2>1, <3>4 DEF DesignTypes
  <2>4. Mirrored(upto)' BY <1>0, <1>1, <1>2, <2>1, <2>2, <2>3 DEF Mirrored
  <2>5. DesignTypes' BY <1>1, <2>1 DEF DesignTypes
  <2>. QED BY <2>4, <2>5
<1>. QED BY <1>3, <1>4, <1>5

-----------------------------------------------------------------------------
(* The leader.                                                             *)

\* Nobody sends updates.
LEMMA NoSending ==
  ASSUME NEW p, NEW q, NEW st, NEW x, p # "send" \/ st["main"] # x,
         q \in {<<>>, <<Setup>>, <<Setup, "updates">>} \/ st["pool"] # x
  PROVE  ~ Sending(p, q, st, x)
<1>1. Setup # "updates" BY DEF Setup
<1>. QED BY <1>1, QueueFacts DEF Sending, PoolFacts

\* main goes on.
LEMMA MainMirror ==
  ASSUME IInv, Queues, Mirroring,
         StartMain \/ InitDesign \/ NoRoutableNets \/ EndTA \/ SendUpdates
  PROVE  Mirroring'
<1>. USE QueueFacts DEF PoolFacts, PaFacts
<1>1. UNCHANGED <<doPA, iter, stage, updates, updatesSz, made, taMade, updatesFile, saved, savedFiles,
                  members, applied, known, joiner, stale>>
  BY DEF StartMain, InitDesign, NoRoutableNets, EndTA, SendUpdates, designVars, fileVars, cloudVars, joinVars
<1>2. Setup' = Setup /\ doPA \in BOOLEAN BY <1>1 DEF Setup, IInv, Types
<1>3. /\ stage["pool"] # "begin" => pool # <<>>
      /\ stage["main"] # "begin" => pc \in {"send", "failed"}
      /\ stage \in [Actor -> {"begin", "written", "sent"}]
  BY DEF IInv, Control, Types
<1>4. ASSUME NEW x \in {"sent", "written"}
      PROVE  ~ Sending(pc, pool, stage, x) /\ ~ Sending(pc', pool', stage', x)
  <2>1. CASE pc \in Early
    <3>1. pool \in {<<>>, <<Setup>>} BY <2>1 DEF Queues, Tasks
    <3>2. pc # "send" /\ pc' # "send"
      BY <2>1 DEF Early, StartMain, InitDesign, NoRoutableNets, EndTA, SendUpdates
    <3>3. pool' \in {<<>>, <<Setup>>, <<Setup, "updates">>} \/ stage'["pool"] # x
      <4>1. CASE StartMain
        <5>1. pool = <<>> BY <4>1 DEF StartMain, Queues, Tasks
        <5>. QED BY <1>2, <4>1, <5>1 DEF StartMain, post, Setup
      <4>2. CASE EndTA
        <5>1. pool' = Append(pool, "updates") BY <4>2 DEF EndTA, post
        <5>2. CASE pool = <<>> BY <1>1, <1>3, <5>2
        <5>3. CASE pool = <<Setup>> BY <5>1, <5>3
        <5>. QED BY <3>1, <5>2, <5>3
      <4>3. CASE InitDesign \/ NoRoutableNets \/ SendUpdates
        BY <3>1, <4>3 DEF InitDesign, NoRoutableNets, SendUpdates
      <4>. QED BY <4>1, <4>2, <4>3
    <3>. QED BY <3>1, <3>2, <3>3, NoSending
  <2>2. CASE pc \notin Early
    <3>1. SendUpdates BY <2>2 DEF Early, StartMain, InitDesign, NoRoutableNets, EndTA
    <3>2. pc = "batch" /\ pool = <<>> /\ pool' = <<>> BY <3>1 DEF SendUpdates, joinPool
    <3>3. stage["main"] # x BY <1>3, <3>2
    <3>. QED BY <1>1, <3>2, <3>3, NoSending
  <2>. QED BY <2>1, <2>2
<1>5. Delivered' = Delivered BY <1>1, <1>4 DEF Delivered
<1>6. DesignTypes' BY <1>1 DEF Mirroring, DesignTypes
<1>7. \E upto : Mirrored(upto)'
  <2>1. taMade \in Nat BY DEF Mirroring, DesignTypes
  <2>. QED BY <1>1, <1>5, <2>1, MirrorFrame DEF Mirroring
<1>8. Leader'
  <2>1. pc \in Early => made = taMade /\ iter = 0 /\ version = 0
    BY DEF Mirroring, Leader, IInv, Rounds
  <2>2. /\ pc' = "check" \/ (pc' \in {"dr", "batch"} /\ (iter' > 0 \/ version' > 0)) => pool' = <<>>
        /\ pc' \in Early \/ FirstRound' \/ pool' # <<>> => made' = taMade'
        /\ pc' \in {"start", "initDesign", "pa"} \/ paThread' # <<>> => made' = 0
        /\ pc' # "jobs"
    <3>1. CASE StartMain
      BY <1>1, <2>1, <3>1 DEF StartMain, Mirroring, Leader, FirstRound, Early
    <3>2. CASE InitDesign
      BY <1>1, <2>1, <3>2 DEF InitDesign, Mirroring, Leader, FirstRound, Early
    <3>3. CASE NoRoutableNets
      BY <1>1, <2>1, <3>3 DEF NoRoutableNets, Mirroring, Leader, FirstRound, Early
    <3>4. CASE EndTA
      BY <1>1, <2>1, <3>4 DEF EndTA, Mirroring, Leader, FirstRound, Early
    <3>5. CASE SendUpdates
      BY <1>1, <3>5 DEF SendUpdates, joinPool, Mirroring, Leader, FirstRound, Early
    <3>. QED BY <3>1, <3>2, <3>3, <3>4, <3>5
  <2>3. Batched(updates, made - updatesSz, updatesSz)' BY <1>1 DEF Mirroring, Leader, Batched, Spread
  <2>. QED BY <1>4, <2>2, <2>3 DEF Leader
<1>. QED BY <1>6, <1>7, <1>8 DEF Mirroring

\* The changes the leader makes go to the batches they belong to.
LEMMA AddKeeps ==
  ASSUME DesignTypes, Leader, NEW n \in Nat, addUpdates(n)
  PROVE  /\ made' = made + n /\ updatesSz' \in 0 .. made' /\ made' \in Nat
         /\ made' - updatesSz' = made - updatesSz
         /\ Batched(updates, made - updatesSz, updatesSz)'
<1>1. made' = made + n /\ updatesSz' = updatesSz + n BY DEF addUpdates
<1>2. made \in Nat /\ updatesSz \in Nat /\ updatesSz <= made BY DEF DesignTypes
<1>3. /\ made' - updatesSz' = made - updatesSz /\ made - updatesSz \in Nat
      /\ (made - updatesSz) + updatesSz = made /\ updatesSz' \in 0 .. made' /\ made' \in Nat
  BY <1>1, <1>2
<1>4. updates' = Added(updates, updatesSz, made, n)
  BY DEF addUpdates, Added, FoldLeft, MapThenFoldSet
<1>. DEFINE lo == made - updatesSz
<1>5. lo \in Nat /\ lo + updatesSz = made /\ Batched(updates, lo, updatesSz) BY <1>3 DEF Leader
<1>. HIDE DEF lo
<1>6. Batched(Added(updates, updatesSz, lo + updatesSz, n), lo, updatesSz + n)
  BY <1>2, <1>5, AddedBatched
<1>7. Batched(updates', lo, updatesSz') BY <1>1, <1>4, <1>5, <1>6
<1>8. lo = made' - updatesSz' BY <1>3 DEF lo
<1>9. Batched(updates', made' - updatesSz', updatesSz') BY <1>7, <1>8
<1>. QED BY <1>1, <1>3, <1>9 DEF Batched, Spread

\* Track assignment, the rounds of the leader, the results of the jobs and the
\* connectivity checker change it when nobody sends updates.
LEMMA AddMirror ==
  ASSUME IInv, Queues, Mirroring,
         AssignTrack \/ SearchRepair \/ EndWorkersBatch \/ CheckConnectivity
  PROVE  Mirroring'
<1>. USE QueueFacts DEF PoolFacts, PaFacts
<1>1. UNCHANGED <<doPA, paThread, pool, stage, updatesFile, saved, savedFiles,
                  members, applied, known, joiner, stale>>
  BY DEF AssignTrack, SearchRepair, EndWorkersBatch, CheckConnectivity, mainVars, fileVars, cloudVars, joinVars
<1>2. /\ made \in Nat /\ taMade \in Nat /\ updatesSz \in 0 .. made /\ paThread = <<>>
      /\ iter \in Nat /\ version \in Nat
  BY DEF Mirroring, DesignTypes, AssignTrack, SearchRepair, EndWorkersBatch, CheckConnectivity,
         IInv, Control, Types, Routing
<1>3. CASE SearchRepair /\ pc' = "batch" /\ UNCHANGED <<updates, updatesSz, made>>
  <2>1. pc = "dr" /\ version' = 0 /\ UNCHANGED <<taMade, iter>>
    BY <1>3 DEF SearchRepair
  <2>2. \A x : Sending(pc', pool', stage', x) = Sending(pc, pool, stage, x)
    BY <1>1, <1>3, <2>1 DEF Sending
  <2>3. Delivered' = Delivered BY <1>3, <2>2 DEF Delivered
  <2>4. DesignTypes' BY <1>1, <1>3, <2>1 DEF Mirroring, DesignTypes
  <2>5. \E upto : Mirrored(upto)' BY <1>1, <1>2, <2>1, <2>3, MirrorFrame DEF Mirroring
  <2>6. iter = 0 => version = 0 BY <2>1 DEF IInv, Rounds
  <2>7. Batched(updates, made - updatesSz, updatesSz)' BY <1>3 DEF Mirroring, Leader, Batched, Spread
  <2>8. Sending(pc', pool', stage', "written") => updatesFile' = updates'
    BY <1>1, <1>3, <2>2 DEF Mirroring, Leader
  <2>9. Leader'
    BY <1>1, <1>2, <1>3, <2>1, <2>6, <2>7, <2>8 DEF Mirroring, Leader, FirstRound, Early
  <2>. QED BY <2>4, <2>5, <2>9 DEF Mirroring
<1>4. CASE \E n \in Nat : addUpdates(n) /\ pc' # "send" /\ pc' # "jobs"
             /\ \/ AssignTrack /\ n = 1
                \/ SearchRepair /\ pc' = "check" /\ iter > 0
                \/ EndWorkersBatch
                \/ CheckConnectivity
  <2>0. PICK n \in Nat : addUpdates(n) /\ pc' # "send" /\ pc' # "jobs"
             /\ \/ AssignTrack /\ n = 1
                \/ SearchRepair /\ pc' = "check" /\ iter > 0
                \/ EndWorkersBatch
                \/ CheckConnectivity
    BY <1>4
  <2>1. /\ made' = made + n /\ updatesSz' \in 0 .. made' /\ made' \in Nat
        /\ made' - updatesSz' = made - updatesSz
        /\ Batched(updates, made - updatesSz, updatesSz)'
    BY <2>0, AddKeeps DEF Mirroring
  <2>2. pc # "send" /\ pool \in {<<>>, <<Setup>>}
    <3>1. CASE AssignTrack BY <3>1 DEF AssignTrack, Queues, Tasks, Early
    <3>2. CASE SearchRepair /\ iter > 0 BY <3>2 DEF SearchRepair, Mirroring, Leader
    <3>3. CASE EndWorkersBatch BY <3>3 DEF EndWorkersBatch, IInv, Control
    <3>4. CASE CheckConnectivity BY <3>4 DEF CheckConnectivity, Mirroring, Leader
    <3>. QED BY <2>0, <3>1, <3>2, <3>3, <3>4
  <2>3. \A x : ~ Sending(pc, pool, stage, x) /\ ~ Sending(pc', pool', stage', x)
    <3>. SUFFICES ASSUME NEW x
                  PROVE  ~ Sending(pc, pool, stage, x) /\ ~ Sending(pc', pool', stage', x)
      OBVIOUS
    <3>1. pc' # "send" BY <2>0
    <3>. QED BY <1>1, <2>2, <3>1, NoSending
  <2>4. Delivered' = Delivered BY <2>1, <2>3 DEF Delivered
  <2>5. taMade' \in Nat /\ taMade <= taMade' /\ (AssignTrack => taMade' = taMade + 1)
        /\ (~ AssignTrack => taMade' = taMade)
    BY <1>2, <2>0 DEF AssignTrack, SearchRepair, EndWorkersBatch, CheckConnectivity
  <2>6. DesignTypes' BY <1>1, <2>1, <2>5 DEF Mirroring, DesignTypes
  <2>7. \E upto : Mirrored(upto)' BY <1>1, <2>4, <2>5, MirrorFrame DEF Mirroring
  <2>8. /\ pc' = "check" \/ (pc' \in {"dr", "batch"} /\ (iter' > 0 \/ version' > 0)) => pool' = <<>>
        /\ pc' \in Early \/ FirstRound' \/ pool' # <<>> => made' = taMade'
        /\ pc' \notin {"start", "initDesign", "pa"}
    <3>1. CASE AssignTrack /\ n = 1
      <4>1. pc = "ta" /\ pc' = "ta" /\ made = taMade
        BY <3>1 DEF AssignTrack, mainVars, Mirroring, Leader, Early
      <4>. QED BY <2>1, <2>5, <3>1, <4>1
    <3>2. CASE SearchRepair /\ pc' = "check" /\ iter > 0
      BY <1>1, <3>2 DEF SearchRepair, Mirroring, Leader, FirstRound, Early
    <3>3. CASE EndWorkersBatch
      BY <1>1, <1>2, <3>3 DEF EndWorkersBatch, IInv, Control, FirstRound, Early
    <3>4. CASE CheckConnectivity
      BY <1>1, <1>2, <3>4 DEF CheckConnectivity, Mirroring, Leader, FirstRound, Early
    <3>. QED BY <2>0, <3>1, <3>2, <3>3, <3>4
  <2>9. Leader' BY <1>1, <1>2, <2>0, <2>1, <2>3, <2>8 DEF Leader
  <2>. QED BY <2>6, <2>7, <2>9 DEF Mirroring
<1>5. 0 .. 2 \subseteq Nat /\ 0 .. 1 \subseteq Nat /\ 1 \in Nat OBVIOUS
<1>6. CASE AssignTrack
  <2>1. addUpdates(1) /\ pc' # "send" /\ pc' # "jobs" BY <1>6 DEF AssignTrack, mainVars
  <2>. QED BY <1>4, <1>5, <1>6, <2>1
<1>7. CASE SearchRepair
  <2>1. \/ pc' = "batch" /\ UNCHANGED <<updates, updatesSz, made>>
        \/ iter > 0 /\ pc' = "check" /\ \E n \in 0 .. 2 : addUpdates(n)
    BY <1>7 DEF SearchRepair
  <2>. QED BY <1>3, <1>4, <1>5, <1>7, <2>1
<1>8. CASE EndWorkersBatch
  <2>1. (\E n \in 0 .. 2 : addUpdates(n)) /\ pc' # "send" /\ pc' # "jobs" BY <1>8 DEF EndWorkersBatch
  <2>. QED BY <1>4, <1>5, <1>8, <2>1
<1>9. CASE CheckConnectivity
  <2>1. (\E n \in 0 .. 1 : addUpdates(n)) /\ pc' # "send" /\ pc' # "jobs" BY <1>9 DEF CheckConnectivity
  <2>. QED BY <1>4, <1>5, <1>9, <2>1
<1>. QED BY <1>6, <1>7, <1>8, <1>9

\* A thread writes the files, or finds no updates to send.
LEMMA WriteMirror ==
  ASSUME IInv, Queues, Mirroring, NEW a \in Actor, WriteDesign(a) \/ WriteUpdates(a)
  PROVE  Mirroring'
<1>. USE QueueFacts DEF PoolFacts, PaFacts
<1>1. UNCHANGED <<doPA, iter, version, updates, updatesSz, made, taMade, saved, savedFiles,
                  members, applied, known, joiner, stale>>
  BY DEF WriteDesign, WriteUpdates, Finish, mainVars, designVars, cloudVars, joinVars
<1>2. /\ Alive /\ stage[a] = "begin" /\ stage \in [Actor -> {"begin", "written", "sent"}]
      /\ made \in Nat /\ taMade \in Nat /\ updatesSz \in 0 .. made
  BY DEF WriteDesign, WriteUpdates, IInv, Types, Mirroring, DesignTypes
<1>3. Batched(updates, made - updatesSz, updatesSz)' BY <1>1 DEF Mirroring, Leader, Batched, Spread
<1>4. CASE /\ stage' = [stage EXCEPT ![a] = "written"] /\ UNCHANGED <<pc, paThread, pool>>
           /\ \/ Doing(a, "design") /\ updatesFile' = updatesFile
              \/ updatesFile' = updates
  <2>1. Sending(pc', pool', stage', "sent") = Sending(pc, pool, stage, "sent")
    BY <1>2, <1>4 DEF Sending, Actor
  <2>2. Delivered' = Delivered BY <1>1, <2>1 DEF Delivered
  <2>3. updatesFile' \in Column
    <3>1. updates \in Column
      <4>1. made - updatesSz \in Nat /\ updatesSz \in Nat BY <1>2
      <4>. QED BY <4>1, BatchedColumn DEF Mirroring, Leader
    <3>. QED BY <1>4, <3>1 DEF Mirroring, DesignTypes
  <2>4. DesignTypes' BY <1>1, <2>3 DEF Mirroring, DesignTypes
  <2>5. \E upto : Mirrored(upto)' BY <1>1, <1>2, <2>2, MirrorFrame DEF Mirroring
  <2>6. Sending(pc', pool', stage', "written") => updatesFile' = updates'
    <3>1. CASE updatesFile' = updates BY <1>1, <3>1
    <3>2. CASE Doing(a, "design") /\ updatesFile' = updatesFile
      <4>1. Sending(pc', pool', stage', "written") => Sending(pc, pool, stage, "written")
        <5>1. a # "main" /\ (a = "pool" => Head(pool) = "design") BY <3>2 DEF Doing, Actor
        <5>. QED BY <1>2, <1>4, <5>1 DEF Sending, Actor
      <4>. QED BY <1>1, <3>2, <4>1 DEF Mirroring, Leader
    <3>. QED BY <1>4, <3>1, <3>2
  <2>7. Leader' BY <1>1, <1>3, <1>4, <2>6 DEF Mirroring, Leader, FirstRound
  <2>. QED BY <2>4, <2>5, <2>7 DEF Mirroring
<1>5. CASE Doing(a, "updates") /\ ~ hasUpdates /\ Finish(a) /\ updatesFile' = updatesFile
  <2>1. updatesSz = 0 BY <1>5 DEF hasUpdates
  <2>2. Delivered' = Delivered BY <1>1, <1>2, <2>1 DEF Delivered
  <2>3. DesignTypes' BY <1>1, <1>5 DEF Mirroring, DesignTypes
  <2>4. \E upto : Mirrored(upto)' BY <1>1, <1>2, <2>2, MirrorFrame DEF Mirroring
  <2>5. CASE a = "main"
    <3>1. /\ pc = "send" /\ pc' = "jobs" /\ pool = <<>> /\ UNCHANGED <<pool, paThread>>
      BY <1>5, <2>5 DEF Finish, Doing, IInv, Control
    <3>2. ~ Sending(pc', pool', stage', "written") BY <3>1, NoSending
    <3>3. Leader' BY <1>1, <1>3, <2>1, <3>1, <3>2 DEF Mirroring, Leader, FirstRound, Early
    <3>. QED BY <2>3, <2>4, <3>3 DEF Mirroring
  <2>6. CASE a = "pool"
    <3>1. "updates" \in Task BY DEF Task
    <3>2. pool = <<"updates">> BY <1>5, <2>6, <3>1, DoingTasks
    <3>3. pool' = <<>> /\ UNCHANGED <<pc, paThread>> BY <1>5, <2>6, <3>2 DEF Finish
    <3>4. pc # "send" BY <3>2 DEF IInv, Control
    <3>5. ~ Sending(pc', pool', stage', "written") BY <3>3, <3>4, NoSending
    <3>6. Leader' BY <1>1, <1>3, <2>1, <3>2, <3>3, <3>5 DEF Mirroring, Leader, FirstRound, Early
    <3>. QED BY <2>3, <2>4, <3>6 DEF Mirroring
  <2>7. CASE a = "pa"
    <3>1. "updates" \in Task BY DEF Task
    <3>. QED BY <1>5, <2>7, <3>1, DoingTasks
  <2>. QED BY <2>5, <2>6, <2>7 DEF Actor
<1>. QED BY <1>4, <1>5 DEF WriteDesign, WriteUpdates, mainVars

\* No updates.
LEMMA NothingBatched == ASSUME NEW lo \in Nat PROVE Batched(NoUpdates, lo, 0)
<1>1. Batches \in Nat \ {0} BY SizesAssumption
<1>2. Spread(lo, 0, 0) = NoUpdates
  <2>1. \A b \in 1 .. Batches : [j \in 1 .. (IF b <= 0 THEN 0 + 1 ELSE 0) |-> lo + (j - 1) * Batches + b] = <<>>
    <3>. SUFFICES ASSUME NEW b \in 1 .. Batches
                  PROVE  [j \in 1 .. (IF b <= 0 THEN 0 + 1 ELSE 0) |-> lo + (j - 1) * Batches + b] = <<>>
      OBVIOUS
    <3>1. (IF b <= 0 THEN 0 + 1 ELSE 0) = 0 BY <1>1
    <3>2. [j \in 1 .. 0 |-> lo + (j - 1) * Batches + b] = <<>> OBVIOUS
    <3>. QED BY <3>1, <3>2
  <2>. QED BY <2>1 DEF Spread, NoUpdates
<1>3. 0 = 0 * Batches + 0 /\ 0 \in 0 .. 0 /\ 0 \in 0 .. Batches - 1 BY <1>1
<1>. QED BY <1>2, <1>3 DEF Batched

\* clearUpdates of sendDesignDist in the pool: the changes that track assignment
\* has made are lost, and no worker has any.
LEMMA LosesUpdates ==
  ASSUME IInv, WorkersReady, Queues, Mirroring, ClearUpdates("pool"), Head(pool) # "updates",
         Delivered' = made
  PROVE  \E upto : Mirrored(upto)'
<1>0. PICK upto : Mirrored(upto) BY DEF Mirroring
<1>1. /\ UNCHANGED <<doPA, made, taMade, saved, savedFiles, members, applied, known, joiner, stale>>
      /\ stage["pool"] = "sent"
  BY DEF ClearUpdates, Finish, cloudVars, joinVars
<1>2. /\ pool # <<>> /\ doPA \in BOOLEAN /\ made \in Nat /\ made = taMade
  BY <1>1 DEF IInv, Control, Types, Mirroring, DesignTypes, Leader
<1>3. ~ doPA
  <2>1. ASSUME doPA PROVE FALSE
    <3>1. pool = <<"updates">> BY <1>1, <2>1 DEF Queues, Tasks
    <3>. QED BY <3>1, QueueFacts DEF PoolFacts
  <2>. QED BY <2>1
<1>4. AtSetup
  <2>1. pool \in {<<>>, <<Setup>>, <<Setup, "updates">>, <<"updates">>} BY DEF Queues, Tasks
  <2>. QED BY <1>2, <2>1, QueueFacts DEF PoolFacts, AtSetup
<1>5. pc # "start" BY <1>2 DEF Queues, Tasks
<1>6. Len(saved) = 1 BY <1>1, <1>3, <1>4, <1>5 DEF Queues, Progress, SentBy
<1>7. saved[1].kind = "design" BY <1>3, <1>6 DEF WorkersReady, Ordered, KindsAt, SetupLen
<1>8. upto[1] = upto[0] /\ upto[0] \in Nat
  BY <1>0, <1>6, <1>7 DEF Mirrored, Spans
<1>9. Run(upto[0], upto[0]) = <<>>
  <2>1. upto[0] <= upto[0] BY <1>8
  <2>. QED BY <1>8, <2>1, Runs
<1>10. Run(made, made) = <<>>
  <2>1. made <= made BY <1>2
  <2>. QED BY <1>2, <2>1, Runs
<1>11. PICK up : up = [i \in 0 .. 1 |-> made] OBVIOUS
<1>12. up[0] = made /\ up[1] = made BY <1>11
<1>13. Spans(up)'
  <2>1. \A i \in 0 .. 1 : up[i] \in Nat /\ up[0] <= up[i] BY <1>2, <1>11
  <2>2. \A i \in 1 .. 1 : saved[i].kind # "updates" /\ up[i] = up[i - 1] BY <1>7, <1>12
  <2>. QED BY <1>1, <1>6, <2>1, <2>2 DEF Spans
<1>14. \A w \in members \ stale : applied[w] = <<>>
  BY <1>0, <1>6, <1>8, <1>9 DEF Mirrored
<1>15. joiner.worker # NoWorker => joiner.next - 1 \in {0, 1}
  <2>1. joiner.worker # NoWorker => joiner.next \in 1 .. 2 BY <1>6 DEF IInv, Followers
  <2>. QED BY <2>1
<1>16. joiner.worker # NoWorker /\ joiner.worker \notin stale => applied[joiner.worker] = <<>>
  BY <1>0, <1>8, <1>9, <1>15 DEF Mirrored
<1>17. joiner.worker # NoWorker => Run(up[0], up[joiner.next - 1]) = <<>> BY <1>10, <1>12, <1>15
<1>18. up[0] <= IF doPA' THEN 0 ELSE taMade' BY <1>1, <1>2, <1>3, <1>12
<1>19. Mirrored(up)'
  BY <1>1, <1>6, <1>10, <1>12, <1>13, <1>14, <1>16, <1>17, <1>18 DEF Mirrored
<1>. QED BY <1>19

\* A thread clears the updates it has sent.
LEMMA ClearMirror ==
  ASSUME IInv, WorkersReady, Queues, Mirroring, NEW a \in Actor, ClearUpdates(a)
  PROVE  Mirroring'
<1>. USE QueueFacts DEF PoolFacts, PaFacts
<1>1. /\ UNCHANGED <<doPA, iter, version, made, taMade, saved, savedFiles, updatesFile,
                     members, applied, known, joiner, stale>>
      /\ Alive /\ stage[a] = "sent" /\ updates' = NoUpdates /\ updatesSz' = 0
      /\ stage' = [stage EXCEPT ![a] = "begin"]
      /\ pc' = IF a = "main" THEN "jobs" ELSE pc
      /\ pool' = IF a = "pool" THEN Tail(pool) ELSE pool
      /\ paThread' = IF a = "pa" THEN Tail(paThread) ELSE paThread
  BY DEF ClearUpdates, clearUpdates, Finish, fileVars, cloudVars, joinVars
<1>2. /\ made \in Nat /\ taMade \in Nat /\ updatesSz \in 0 .. made
      /\ stage \in [Actor -> {"begin", "written", "sent"}]
  BY DEF IInv, Types, Mirroring, DesignTypes
<1>3. Batched(updates, made - updatesSz, updatesSz)'
  <2>1. made - 0 = made /\ Batched(NoUpdates, made, 0) BY <1>2, NothingBatched
  <2>2. made' - updatesSz' = made BY <1>1, <2>1
  <2>3. Batched(updates', made' - updatesSz', updatesSz') BY <1>1, <2>1, <2>2
  <2>. QED BY <2>3 DEF Batched, Spread
<1>4. Delivered' = made BY <1>1, <1>2 DEF Delivered
<1>5. DesignTypes' BY <1>1, <1>2 DEF Mirroring, DesignTypes
<1>6. CASE a = "main"
  <2>1. pc = "send" BY <1>1, <1>6 DEF IInv, Control, Alive
  <2>2. pc' = "jobs" /\ pool = <<>> /\ UNCHANGED <<pool, paThread>>
    BY <1>1, <1>6, <2>1 DEF IInv, Control
  <2>3. Delivered = made BY <1>1, <1>6, <2>1 DEF Delivered, Sending
  <2>4. \E upto : Mirrored(upto)' BY <1>1, <1>2, <1>4, <2>3, MirrorFrame DEF Mirroring
  <2>5. ~ Sending(pc', pool', stage', "written") BY <2>2, NoSending
  <2>6. Leader' BY <1>1, <1>3, <2>2, <2>5 DEF Mirroring, Leader, FirstRound, Early
  <2>. QED BY <1>5, <2>4, <2>6 DEF Mirroring
<1>7. CASE a = "pool"
  <2>1. pool # <<>> BY <1>1, <1>7 DEF IInv, Control
  <2>2. pc # "send" /\ UNCHANGED <<pc, paThread>> /\ stage'["pool"] = "begin"
    BY <1>1, <1>2, <1>7, <2>1 DEF IInv, Control, Actor
  <2>3. \E upto : Mirrored(upto)'
    <3>1. CASE Head(pool) = "updates"
      <4>1. Delivered = made BY <1>1, <1>7, <2>1, <3>1 DEF Delivered, Sending
      <4>. QED BY <1>1, <1>2, <1>4, <4>1, MirrorFrame DEF Mirroring
    <3>2. CASE Head(pool) # "updates"
      BY <1>4, <1>7, <3>2, LosesUpdates
    <3>. QED BY <3>1, <3>2
  <2>4. ~ Sending(pc', pool', stage', "written") BY <2>2, NoSending
  <2>5. made = taMade BY <2>1 DEF Mirroring, Leader
  <2>6. pc' = "check" \/ (pc' \in {"dr", "batch"} /\ (iter' > 0 \/ version' > 0)) => pool' = <<>>
    BY <1>1, <2>1, <2>2 DEF Mirroring, Leader
  <2>7. Leader' BY <1>1, <1>3, <2>2, <2>4, <2>5, <2>6 DEF Mirroring, Leader
  <2>. QED BY <1>5, <2>3, <2>7 DEF Mirroring
<1>8. CASE a = "pa"
  <2>1. paThread # <<>> BY <1>1, <1>8 DEF IInv, Control
  <2>2. made = 0 /\ updatesSz = 0 BY <1>2, <2>1 DEF Mirroring, Leader
  <2>3. Delivered = made BY <2>2 DEF Delivered
  <2>4. \E upto : Mirrored(upto)' BY <1>1, <1>2, <1>4, <2>3, MirrorFrame DEF Mirroring
  <2>5. doPA /\ pc \in {"initDesign", "pa"}
    BY <1>1, <2>1 DEF Queues, Tasks, Alive
  <2>6. pool = <<>> BY <2>5 DEF Queues, Tasks, PoolUnused
  <2>7. pool' = <<>> /\ pc' = pc BY <1>1, <1>8, <2>6
  <2>8. ~ Sending(pc', pool', stage', "written") BY <2>5, <2>7, NoSending
  <2>9. made = taMade BY <2>5 DEF Mirroring, Leader, Early
  <2>10. Leader' BY <1>1, <1>3, <2>2, <2>5, <2>7, <2>8, <2>9 DEF Leader
  <2>. QED BY <1>5, <2>4, <2>10 DEF Mirroring
<1>. QED BY <1>6, <1>7, <1>8 DEF Actor

\* A broadcast without updates.
LEMMA PlainMirror ==
  ASSUME IInv, WorkersReady, DesignTypes, \E upto : Mirrored(upto),
         NEW m \in Message, m.kind # "updates", m.kind \in KindsAt(Len(saved) + 1), Deliver(m, FALSE),
         UNCHANGED <<doPA, joiner, known, stale, taMade, made, updatesSz, updatesFile>>,
         Delivered' = Delivered
  PROVE  DesignTypes' /\ \E upto : Mirrored(upto)'
<1>1. PICK upto : Mirrored(upto) OBVIOUS
<1>2. Len(saved) \in Nat BY DEF IInv, Types
<1>3. Len(saved) \in 0 .. Len(saved) BY <1>2
<1>4. upto[Len(saved)] \in Nat /\ Delivered' = upto[Len(saved)] BY <1>1, <1>3 DEF Mirrored, Spans
<1>5. upto[Len(saved)] <= upto[Len(saved)] BY <1>4
<1>6. PICK hi \in Nat : hi = upto[Len(saved)] BY <1>4
<1>. QED BY <1>1, <1>4, <1>5, <1>6, DeliverMirror

\* sendDesignDist and sendDesignUpdates broadcast.
LEMMA BroadcastMirror ==
  ASSUME IInv, WorkersReady, Queues, Mirroring, Smooth, NEW a \in Actor,
         NEW task \in {"design", "updates"}, Broadcast(a, task)
  PROVE  Mirroring'
<1>. DEFINE m == MsgOf(a, task)
<1>1. /\ Alive /\ Doing(a, task) /\ stage[a] = "written" /\ Deliver(m, FALSE)
      /\ stage' = [stage EXCEPT ![a] = "sent"]
      /\ UNCHANGED <<mainVars, pool, designVars, fileVars, joinVars>>
  BY SmoothSend DEF Broadcast
<1>2. task \in Task /\ m \in Message /\ m.kind = task
  BY DEF MsgOf, Msg, Message, Kind, Task, IInv, Types, Paths
<1>3. task \in KindsAt(Len(saved) + 1) BY <1>1, <1>2, TurnOK
<1>4. UNCHANGED <<doPA, pc, iter, version, paThread, pool, known, joiner, stale, updates, updatesSz,
                  made, taMade, updatesFile>>
  BY <1>1 DEF mainVars, joinVars, designVars, fileVars
<1>. HIDE DEF m
<1>5. stage \in [Actor -> {"begin", "written", "sent"}] /\ made \in Nat /\ updatesSz \in 0 .. made
  BY DEF IInv, Types, Mirroring, DesignTypes
<1>6. Batched(updates, made - updatesSz, updatesSz)' BY <1>4 DEF Mirroring, Leader, Batched, Spread
<1>7. Sending(pc', pool', stage', "written") => Sending(pc, pool, stage, "written")
  BY <1>1, <1>4, <1>5 DEF Sending, Actor
<1>8. Leader' BY <1>4, <1>6, <1>7 DEF Mirroring, Leader, FirstRound
<1>9. CASE task = "design"
  <2>1. a # "main" /\ (a = "pool" => Head(pool) = "design") BY <1>1, <1>9 DEF Doing, Actor
  <2>2. Sending(pc', pool', stage', "sent") = Sending(pc, pool, stage, "sent")
    BY <1>1, <1>4, <1>5, <2>1 DEF Sending, Actor
  <2>3. Delivered' = Delivered BY <1>4, <2>2 DEF Delivered
  <2>4. m.kind # "updates" /\ m.kind \in KindsAt(Len(saved) + 1) BY <1>2, <1>3, <1>9
  <2>5. DesignTypes' /\ \E upto : Mirrored(upto)'
    BY <1>1, <1>2, <1>4, <2>3, <2>4, PlainMirror DEF Mirroring
  <2>. QED BY <1>8, <2>5 DEF Mirroring
<1>10. CASE task = "updates"
  <2>1. \/ a = "main" /\ pc = "send" /\ pool = <<>>
        \/ a = "pool" /\ pool # <<>> /\ Head(pool) = "updates" /\ pc # "send"
    <3>1. CASE a = "main" BY <1>1, <3>1 DEF Doing, IInv, Control
    <3>2. CASE a = "pool" BY <1>1, <1>10, <3>2 DEF Doing, IInv, Control
    <3>3. CASE a = "pa" BY <1>1, <1>2, <1>10, <3>3, DoingTasks
    <3>. QED BY <3>1, <3>2, <3>3 DEF Actor
  <2>2. /\ Sending(pc, pool, stage, "written") /\ ~ Sending(pc, pool, stage, "sent")
        /\ Sending(pc', pool', stage', "sent")
    BY <1>1, <1>4, <1>5, <2>1 DEF Sending, Actor
  <2>3. Delivered = made - updatesSz /\ Delivered' = made BY <1>4, <2>2 DEF Delivered
  <2>4. PICK upto : Mirrored(upto) BY DEF Mirroring
  <2>5. upto[Len(saved)] = made - updatesSz BY <2>3, <2>4 DEF Mirrored
  <2>6. upto[Len(saved)] <= made /\ made - upto[Len(saved)] = updatesSz BY <1>5, <2>5
  <2>7. Batched(updatesFile, upto[Len(saved)], made - upto[Len(saved)])
    BY <2>2, <2>5, <2>6 DEF Mirroring, Leader
  <2>8. m.kind = "updates" /\ m.kind \in KindsAt(Len(saved) + 1) BY <1>2, <1>3, <1>10
  <2>9. DesignTypes' /\ \E up : Mirrored(up)'
    <3>1. PICK hi \in Nat : hi = made BY <1>5
    <3>. QED BY <1>1, <1>2, <1>4, <2>3, <2>4, <2>6, <2>7, <2>8, <3>1, DeliverMirror DEF Mirroring
  <2>. QED BY <1>8, <2>9 DEF Mirroring
<1>. QED BY <1>9, <1>10

\* INIT_PA and kGrdrInit.
LEMMA BroadcastUncheckedMirror ==
  ASSUME IInv, WorkersReady, Queues, Mirroring, Smooth, NEW a \in Actor,
         NEW kind \in {"initPA", "grdrInit"}, BroadcastUnchecked(a, kind)
  PROVE  Mirroring'
<1>. USE QueueFacts DEF PoolFacts, PaFacts
<1>. DEFINE m == Msg(kind, None, FALSE)
<1>1. /\ Alive /\ Doing(a, kind) /\ Deliver(m, FALSE) /\ Finish(a)
      /\ UNCHANGED <<designVars, fileVars, joinVars>>
  BY SmoothSend DEF BroadcastUnchecked
<1>2. kind \in Task /\ m \in Message /\ m.kind = kind
  BY DEF Msg, Message, Kind, Task
<1>3. kind \in KindsAt(Len(saved) + 1) BY <1>1, <1>2, TurnOK
<1>4. /\ UNCHANGED <<doPA, iter, version, known, joiner, stale, updates, updatesSz, made, taMade,
                     updatesFile>>
      /\ stage' = [stage EXCEPT ![a] = "begin"]
      /\ pc' = IF a = "main" THEN "jobs" ELSE pc
      /\ pool' = IF a = "pool" THEN Tail(pool) ELSE pool
      /\ paThread' = IF a = "pa" THEN Tail(paThread) ELSE paThread
  BY <1>1 DEF Finish, joinVars, designVars, fileVars
<1>. HIDE DEF m
<1>5. stage \in [Actor -> {"begin", "written", "sent"}] BY DEF IInv, Types
<1>6. Batched(updates, made - updatesSz, updatesSz)' BY <1>4 DEF Mirroring, Leader, Batched, Spread
<1>7. \/ a = "pool" /\ pool # <<>> /\ pc # "send" /\ Head(pool) # "updates" /\ AtSetup
      \/ a = "pa" /\ paThread # <<>> /\ pc # "send" /\ pool = <<>>
  <2>1. CASE a = "main" BY <1>1, <2>1 DEF Doing
  <2>2. CASE a = "pool"
    <3>1. pool # <<>> /\ Head(pool) = kind BY <1>1, <2>2 DEF Doing
    <3>2. AtSetup BY <1>1, <1>2, <2>2, DoingTasks
    <3>. QED BY <2>2, <3>1, <3>2 DEF IInv, Control
  <2>3. CASE a = "pa"
    <3>1. doPA /\ pc \in {"initDesign", "pa", "failed"} BY <1>1, <1>2, <2>3, DoingTasks
    <3>2. paThread # <<>> BY <1>1, <2>3 DEF Doing
    <3>3. pool = <<>> BY <3>1 DEF Queues, Tasks, PoolUnused
    <3>. QED BY <2>3, <3>1, <3>2, <3>3
  <2>. QED BY <2>1, <2>2, <2>3 DEF Actor
<1>8. pc' = pc BY <1>4, <1>7
<1>9. ASSUME NEW x \in {"written", "sent"}
      PROVE  ~ Sending(pc, pool, stage, x) /\ ~ Sending(pc', pool', stage', x)
  <2>1. CASE a = "pool"
    <3>1. stage'["pool"] # x /\ pc' # "send" /\ pc # "send" BY <1>4, <1>5, <1>7, <1>8, <2>1 DEF Actor
    <3>2. ~ Sending(pc, pool, stage, x) BY <1>7, <2>1, <3>1 DEF Sending
    <3>. QED BY <3>1, <3>2, NoSending
  <2>2. CASE a = "pa"
    <3>1. pool = <<>> /\ pool' = <<>> /\ pc' # "send" /\ pc # "send" BY <1>4, <1>7, <1>8, <2>2
    <3>. QED BY <3>1, NoSending
  <2>. QED BY <1>7, <2>1, <2>2
<1>10. Delivered' = Delivered BY <1>4, <1>9 DEF Delivered
<1>11. DesignTypes' /\ \E upto : Mirrored(upto)'
  <2>1. m.kind # "updates" /\ m.kind \in KindsAt(Len(saved) + 1) BY <1>2, <1>3
  <2>. QED BY <1>1, <1>2, <1>4, <1>10, <2>1, PlainMirror DEF Mirroring
<1>12. Leader'
  <2>1. pool' # <<>> => pool # <<>> BY <1>4, <1>7
  <2>2. paThread' # <<>> => paThread # <<>> BY <1>4, <1>7
  <2>3. pool = <<>> => pool' = <<>> BY <1>4, <1>7
  <2>. QED BY <1>4, <1>6, <1>8, <1>9, <2>1, <2>2, <2>3 DEF Mirroring, Leader, FirstRound
<1>. QED BY <1>11, <1>12 DEF Mirroring

\* The results of pin access.
LEMMA PinAccessMirror ==
  ASSUME IInv, WorkersReady, Queues, Mirroring, Smooth, PinAccess
  PROVE  Mirroring'
<1>. USE QueueFacts DEF PoolFacts, PaFacts
<1>. DEFINE m == Msg("updatePA", None, FALSE)
<1>1. /\ pc = "pa" /\ paThread = <<>> /\ Deliver(m, FALSE) /\ pool' = Append(pool, "grdrInit")
      /\ pc' = "ta" /\ UNCHANGED <<doPA, paThread, iter, version, stage, known, joiner, stale,
                                   updates, updatesSz, made, taMade, updatesFile>>
  BY SmoothSend DEF PinAccess, post, joinVars, designVars, fileVars
<1>2. doPA /\ pool = <<>> BY <1>1 DEF Queues, Tasks, PoolUnused, IInv, Types
<1>3. Len(saved) = 2 BY <1>1, <1>2 DEF Queues, Progress
<1>4. m \in Message /\ m.kind = "updatePA" BY DEF Msg, Message, Kind
<1>5. "updatePA" \in KindsAt(Len(saved) + 1) BY <1>2, <1>3 DEF KindsAt, SetupLen
<1>. HIDE DEF m
<1>6. pool' = <<Setup>> BY <1>1, <1>2 DEF Setup
<1>7. \A x : ~ Sending(pc, pool, stage, x) /\ ~ Sending(pc', pool', stage', x)
  <2>. SUFFICES ASSUME NEW x PROVE ~ Sending(pc, pool, stage, x) /\ ~ Sending(pc', pool', stage', x)
    OBVIOUS
  <2>. QED BY <1>1, <1>2, <1>6, NoSending
<1>8. Delivered' = Delivered BY <1>1, <1>7 DEF Delivered
<1>9. DesignTypes' /\ \E upto : Mirrored(upto)'
  <2>1. m.kind # "updates" /\ m.kind \in KindsAt(Len(saved) + 1) BY <1>4, <1>5
  <2>. QED BY <1>1, <1>4, <1>8, <2>1, PlainMirror DEF Mirroring
<1>10. Batched(updates, made - updatesSz, updatesSz)' BY <1>1 DEF Mirroring, Leader, Batched, Spread
<1>11. Leader' BY <1>1, <1>7, <1>10 DEF Mirroring, Leader, FirstRound, Early
<1>. QED BY <1>9, <1>11 DEF Mirroring

\* Globals and via data of a round.
LEMMA SendGlobalsMirror ==
  ASSUME IInv, WorkersReady, Queues, Mirroring, Smooth, SendGlobals
  PROVE  Mirroring'
<1>. USE QueueFacts DEF PoolFacts, PaFacts
<1>. DEFINE m == Msg("globals", path, TRUE)
<1>1. /\ pc = "batch" /\ pool = <<>> /\ updatesSz = 0 /\ Deliver(m, FALSE) /\ pc' = "jobs"
      /\ UNCHANGED <<doPA, paThread, pool, stage, known, joiner, stale, updates, updatesSz, made, taMade,
                     updatesFile>>
  BY SmoothSend DEF SendGlobals, joinPool, GlobalsOnly, hasUpdates, joinVars, designVars, fileVars
<1>2. /\ doPA \in BOOLEAN /\ Len(saved) \in Nat /\ ~ AtSetup /\ paThread = <<>>
  BY <1>1 DEF AtSetup, IInv, Types, Control, Routing
<1>3. Len(saved) >= SetupLen BY <1>1, <1>2 DEF Queues, Progress, PoolUnused, SetupLen
<1>4. m \in Message /\ m.kind = "globals"
  BY DEF Msg, Message, Kind, IInv, Types, Paths
<1>5. "globals" \in KindsAt(Len(saved) + 1) BY <1>2, <1>3 DEF KindsAt, SetupLen
<1>. HIDE DEF m
<1>6. \A x : ~ Sending(pc, pool, stage, x) /\ ~ Sending(pc', pool', stage', x)
  <2>. SUFFICES ASSUME NEW x PROVE ~ Sending(pc, pool, stage, x) /\ ~ Sending(pc', pool', stage', x)
    OBVIOUS
  <2>. QED BY <1>1, NoSending
<1>7. Delivered' = Delivered BY <1>1, <1>6 DEF Delivered
<1>8. DesignTypes' /\ \E upto : Mirrored(upto)'
  <2>1. m.kind # "updates" /\ m.kind \in KindsAt(Len(saved) + 1) BY <1>4, <1>5
  <2>. QED BY <1>1, <1>4, <1>7, <2>1, PlainMirror DEF Mirroring
<1>9. Batched(updates, made - updatesSz, updatesSz)' BY <1>1 DEF Mirroring, Leader, Batched, Spread
<1>10. Leader' BY <1>1, <1>2, <1>6, <1>9 DEF Mirroring, Leader, FirstRound, Early
<1>. QED BY <1>8, <1>10 DEF Mirroring

-----------------------------------------------------------------------------
\* Nobody has changed anything.
LEMMA MirrorInit == Init => MirrorInv
<1>. SUFFICES ASSUME Init PROVE Mirroring
  BY DEF MirrorInv
<1>1. DesignTypes
  <2>1. NoUpdates \in Column BY DEF NoUpdates, Column
  <2>. QED BY <2>1 DEF Init, DesignTypes
<1>2. Leader
  <2>1. Batched(NoUpdates, 0, 0) BY NothingBatched
  <2>2. updates = NoUpdates /\ made - updatesSz = 0 /\ updatesSz = 0 BY DEF Init
  <2>3. ~ Sending(pc, pool, stage, "written") BY NoSending DEF Init
  <2>. QED BY <2>1, <2>2, <2>3 DEF Init, Leader, FirstRound
<1>3. \E upto : Mirrored(upto)
  <2>1. PICK upto : upto = [i \in 0 .. 0 |-> 0] OBVIOUS
  <2>2. upto[0] = 0 /\ Len(saved) = 0 BY <2>1 DEF Init
  <2>3. Spans(upto) BY <2>1, <2>2 DEF Spans
  <2>4. Delivered = 0 BY DEF Init, Delivered
  <2>5. Run(0, 0) = <<>> BY Runs
  <2>6. \A w \in members : applied[w] = <<>> BY SizesAssumption DEF Init
  <2>7. joiner.worker = NoWorker /\ taMade = 0 BY DEF Init
  <2>8. Mirrored(upto) BY <2>2, <2>3, <2>4, <2>5, <2>6, <2>7 DEF Mirrored
  <2>. QED BY <2>8
<1>. QED BY <1>1, <1>2, <1>3 DEF Mirroring

\* The invariant is inductive.
LEMMA MirrorNext == IInv /\ HandlersInv /\ MirrorInv /\ [Next]_vars => MirrorInv'
<1>. SUFFICES ASSUME IInv, HandlersInv, MirrorInv, [Next]_vars, faults' = 0 PROVE Mirroring'
  BY DEF MirrorInv
<1>1. faults \in Nat /\ (faults' = faults \/ faults' = faults + 1)
  BY FaultsCount DEF HandlersInv
<1>2. faults = 0 BY <1>1
<1>3. Smooth /\ WorkersReady /\ Queues /\ Mirroring
  BY <1>2 DEF Smooth, HandlersInv, Queues, MirrorInv
<1>4. CASE LeaderStep
  <2>1. CASE SendUpdatesStep
    BY <1>3, <2>1, WriteMirror, ClearMirror, BroadcastMirror DEF SendUpdatesStep, Actor
  <2>2. CASE PinAccess BY <1>3, <2>2, PinAccessMirror
  <2>3. CASE SendGlobals BY <1>3, <2>3, SendGlobalsMirror
  <2>4. CASE StartMain \/ InitDesign \/ NoRoutableNets \/ EndTA \/ SendUpdates
    BY <1>3, <2>4, MainMirror
  <2>5. CASE AssignTrack \/ SearchRepair \/ EndWorkersBatch \/ CheckConnectivity
    BY <1>3, <2>5, AddMirror
  <2>. QED BY <1>4, <2>1, <2>2, <2>3, <2>4, <2>5 DEF LeaderStep
<1>5. CASE BackgroundStep
  BY <1>3, <1>5, WriteMirror, ClearMirror, BroadcastMirror, BroadcastUncheckedMirror
     DEF BackgroundStep, Actor
<1>6. CASE JoinStep
  <2>1. DesignTypes' /\ \E upto : Mirrored(upto)'
    BY <1>3, <1>6, ReplayMirror, JoinMirror DEF JoinStep, Mirroring
  <2>2. UNCHANGED <<doPA, pc, paThread, pool, stage, iter, version, updates, updatesSz, made, taMade,
                    updatesFile>>
    BY <1>6 DEF JoinStep, StartJoin, ReplayBroadcast, ReplayFails, EndJoin, mainVars, designVars, fileVars
  <2>3. Leader' BY <1>3, <2>2 DEF Mirroring, Leader, FirstRound, Sending, Batched, Spread
  <2>. QED BY <2>1, <2>3 DEF Mirroring
<1>7. CASE UNCHANGED vars
  <2>1. UNCHANGED <<doPA, pc, paThread, pool, stage, iter, version, updates, updatesSz, made, taMade,
                    updatesFile, saved, savedFiles, members, applied, known, joiner, stale>>
    BY <1>7 DEF vars, mainVars, designVars, fileVars, cloudVars, joinVars
  <2>2. Leader' BY <1>3, <2>1 DEF Mirroring, Leader, FirstRound, Sending, Batched, Spread
  <2>3. DesignTypes' BY <1>3, <2>1 DEF Mirroring, DesignTypes
  <2>4. Delivered' = Delivered BY <2>1 DEF Delivered
  <2>5. taMade' \in Nat /\ taMade <= taMade' BY <1>3, <2>1 DEF Mirroring, DesignTypes
  <2>6. \E upto : Mirrored(upto)' BY <1>3, <2>1, <2>4, <2>5, MirrorFrame DEF Mirroring
  <2>. QED BY <2>2, <2>3, <2>6 DEF Mirroring
<1>. QED BY <1>4, <1>5, <1>6, <1>7 DEF Next

\* While jobs are out and no call of sendJob has gone wrong, every worker that
\* can get one, unless it joined after the files it replayed were overwritten,
\* has made all changes of the leader once each and in order, but for the first
\* ones of track assignment when pin access was not done; for any number of
\* workers, batches, rounds and changes (sendDesignUpdates, applyUpdates).
THEOREM DesignsAlwaysMatch == Spec => []DesignsMatch
<1>1. IInv /\ MirrorInv => DesignsMatch
  <2>. SUFFICES ASSUME IInv, MirrorInv, pc = "jobs", faults = 0, NEW w \in members \ stale
                PROVE  Mirrors(w)
    BY DEF DesignsMatch
  <2>1. Mirroring BY DEF MirrorInv
  <2>2. PICK upto : Mirrored(upto) BY <2>1 DEF Mirroring
  <2>3. made \in Nat /\ taMade \in Nat /\ updatesSz = 0 /\ pool = <<>> /\ Len(saved) \in Nat
    BY <2>1 DEF Mirroring, DesignTypes, Leader, IInv, Control, Types
  <2>4. Delivered = made BY <2>3 DEF Delivered
  <2>5. 0 \in 0 .. Len(saved) BY <2>3
  <2>6. upto[0] \in Nat /\ upto[0] <= IF doPA THEN 0 ELSE taMade BY <2>2, <2>5 DEF Mirrored, Spans
  <2>7. applied[w] = Run(upto[0], made) BY <2>2, <2>4 DEF Mirrored
  <2>8. upto[0] \in 0 .. IF doPA THEN 0 ELSE taMade BY <2>3, <2>6
  <2>. QED BY <2>7, <2>8 DEF Mirrors, Run
<1>2. Init => IInv /\ HandlersInv /\ MirrorInv BY InitOK, HandlersInit, MirrorInit
<1>3. IInv /\ HandlersInv /\ MirrorInv /\ [Next]_vars => (IInv /\ HandlersInv /\ MirrorInv)'
  BY StepOK, HandlersNext, MirrorNext
<1>. QED BY <1>1, <1>2, <1>3, PTL DEF Spec
=============================================================================
