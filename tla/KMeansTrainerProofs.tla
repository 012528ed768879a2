------------------------- MODULE KMeansTrainerProofs -------------------------
(***************************************************************************)
(* What is proved of the trainer, for every sample of points, every number *)
(* of clusters, every cap and every draw of the generator.                 *)
(***************************************************************************)
EXTENDS KMeansTrainer, SharedLemmas

-----------------------------------------------------------------------------
(* Coordinates and distances *)

LEMMA SequenceOf ==
  ASSUME NEW S, NEW s \in Seq(S)
  PROVE  /\ Len(s) \in Nat
         /\ DOMAIN s = 1..Len(s)
         /\ s \in [1..Len(s) -> S]
         /\ \A i \in 1..Len(s) : s[i] \in S
         /\ s = <<>> <=> Len(s) = 0
OBVIOUS

LEMMA CoordinatesAreIntegers ==
  Low \in Int /\ High \in Int /\ \A p \in Coordinates : p \in Int
<1>1. Low \in Int /\ High \in Int
  BY KMeansAssumption, Zenon
<1> QED  BY <1>1 DEF Coordinates

LEMMA DistanceIsSquare ==
  ASSUME NEW p \in Coordinates, NEW v \in Coordinates
  PROVE  SquaredL2[p, v] = (p - v) * (p - v)
BY KMeansAssumption, Zenon

LEMMA PointsDiffer ==
  ASSUME NEW p \in Coordinates, NEW v \in Coordinates
  PROVE  SquaredL2[p, v] \in Nat /\ (SquaredL2[p, v] = 0 <=> p = v)
<1>1. p \in Int /\ v \in Int
  BY CoordinatesAreIntegers
<1>2. \A x \in Int : x * x \in Nat /\ (x * x = 0 <=> x = 0)
  OBVIOUS
<1>3. p - v \in Int /\ (p - v = 0 <=> p = v)
  BY <1>1
<1>4. (p - v) * (p - v) \in Nat /\ ((p - v) * (p - v) = 0 <=> p - v = 0)
  BY <1>2, <1>3
<1> QED  BY <1>3, <1>4, DistanceIsSquare, Zenon

LEMMA MinIsLeast ==
  ASSUME NEW T \in SUBSET Nat, T # {}
  PROVE  Min(T) \in T /\ \A n \in T : Min(T) <= n
<1>1. \E m \in T : \A n \in T : m <= n
  BY LeastNatural
<1> QED  BY <1>1, Zenon DEF Min

\* A point's weight is zero exactly when the point is a centroid.
LEMMA NearestSqFacts ==
  ASSUME NEW cents \in Seq(Coordinates), cents # <<>>, NEW v \in Coordinates
  PROVE  /\ NearestSq(cents, v) \in Nat
         /\ NearestSq(cents, v) = 0 <=> v \in Range(cents)
         /\ \A c \in DOMAIN cents : NearestSq(cents, v) <= SquaredL2[cents[c], v]
<1> DEFINE T == {SquaredL2[cents[c], v] : c \in DOMAIN cents}
<1>1. /\ DOMAIN cents # {} /\ \A c \in DOMAIN cents : cents[c] \in Coordinates
  BY SequenceOf
<1>2. \A c \in DOMAIN cents : /\ SquaredL2[cents[c], v] \in Nat
                              /\ SquaredL2[cents[c], v] = 0 <=> cents[c] = v
  BY <1>1, PointsDiffer
<1>3. T \in SUBSET Nat /\ T # {}
  BY <1>1, <1>2
<1>4. Min(T) \in T /\ \A n \in T : Min(T) <= n
  <2> HIDE DEF T
  <2> QED  BY <1>3, MinIsLeast
<1>5. NearestSq(cents, v) = Min(T)
  BY DEF NearestSq
<1>6. \A c \in DOMAIN cents : SquaredL2[cents[c], v] \in T
  OBVIOUS
<1>7. PICK c \in DOMAIN cents : Min(T) = SquaredL2[cents[c], v]
  BY <1>4
<1> HIDE DEF T
<1>8. NearestSq(cents, v) = 0 => v \in Range(cents)
  BY <1>2, <1>5, <1>7 DEF Range
<1>9. v \in Range(cents) => NearestSq(cents, v) = 0
  <2> SUFFICES ASSUME NEW d \in DOMAIN cents, cents[d] = v
               PROVE  NearestSq(cents, v) = 0
    BY DEF Range
  <2>1. SquaredL2[cents[d], v] = 0
    BY <1>2
  <2>2. Min(T) <= SquaredL2[cents[d], v] /\ Min(T) \in Nat
    BY <1>3, <1>4, <1>6
  <2>3. Min(T) <= 0
    BY <2>1, <2>2, Zenon
  <2>4. Min(T) \in Nat
    BY <2>2, Zenon
  <2> QED  BY <1>5, <2>3, <2>4
<1> QED  BY <1>2, <1>4, <1>5, <1>6, <1>7, <1>8, <1>9

-----------------------------------------------------------------------------
(* Seeding *)

\* The running weight: a natural, one term more at each index.
LEMMA RunningFacts ==
  ASSUME NEW ws \in Seq(Coordinates), NEW cents \in Seq(Coordinates), cents # <<>>
  PROVE  /\ Running(ws, cents, 0) = 0
         /\ \A i \in 0..Len(ws) : /\ Running(ws, cents, i) \in Nat
                                  /\ Running(ws, cents, i) <= Running(ws, cents, Len(ws))
         /\ \A i \in 1..Len(ws) : /\ NearestSq(cents, ws[i]) \in Nat
                                  /\ Running(ws, cents, i) =
                                       NearestSq(cents, ws[i]) + Running(ws, cents, i - 1)
<1> DEFINE n == Len(ws)
           w == [j \in DOMAIN ws |-> NearestSq(cents, ws[j])]
           sum(i) == SumFunctionOnSet(w, 1..i)
<1>1. n \in Nat /\ DOMAIN ws = 1..n /\ \A j \in 1..n : ws[j] \in Coordinates
  BY SequenceOf
<1>2. \A j \in 1..n : NearestSq(cents, ws[j]) \in Nat
  BY <1>1, NearestSqFacts
<1>3. w \in [1..n -> Nat] /\ w \in [1..n -> Int] /\ \A j \in 1..n : w[j] = NearestSq(cents, ws[j])
  BY <1>1, <1>2
<1>4. IsFiniteSet(1..n)
  BY <1>1, FS_Interval
<1>5. \A i \in 0..n : 1..i \in SUBSET (1..n) /\ 1..n \in SUBSET (1..n)
  BY <1>1
<1>6. \A i : Running(ws, cents, i) = sum(i)
  BY DEF Running
<1> HIDE DEF w, n
<1>7. sum(0) = 0
  <2>1. 1..0 = {}
    OBVIOUS
  <2> QED  BY <1>3, <1>4, <2>1, SumEmpty
<1>8. ASSUME NEW i \in 0..n
      PROVE  sum(i) \in Nat /\ sum(i) <= sum(n)
  BY <1>3, <1>4, <1>5, SumGrows
<1>9. ASSUME NEW i \in 1..n
      PROVE  sum(i) = w[i] + sum(i - 1)
  BY <1>1, <1>3, SumTerm
<1> HIDE DEF sum
<1>10. \A i \in 0..n : Running(ws, cents, i) \in Nat /\ Running(ws, cents, i) <= Running(ws, cents, n)
  BY <1>6, <1>8
<1>11. \A i \in 1..n : Running(ws, cents, i) = NearestSq(cents, ws[i]) + Running(ws, cents, i - 1)
  BY <1>3, <1>6, <1>9
<1> QED  BY <1>2, <1>6, <1>7, <1>10, <1>11 DEF n

\* The weighted pick finds an index, and while some point is no centroid it
\* finds one that is none.
LEMMA WeightedPickFacts ==
  ASSUME NEW ws \in Seq(Coordinates), ws # <<>>, NEW cents \in Seq(Coordinates), cents # <<>>,
         NEW u \in 1..Resolution, Running(ws, cents, Len(ws)) # 0
  PROVE  /\ WeightedPick(ws, cents, u) \in DOMAIN ws
         /\ ws[WeightedPick(ws, cents, u)] \notin Range(cents)
<1> DEFINE n == Len(ws)
           R(i) == Running(ws, cents, i)
           target == u * R(n)
           enough == {i \in 1..n : R(i) * Resolution >= target}
           chosen(i) == R(i) * Resolution >= target /\ (i = 1 \/ R(i - 1) * Resolution < target)
<1>1. n \in Nat \ {0} /\ DOMAIN ws = 1..n /\ \A i \in 1..n : ws[i] \in Coordinates
  BY SequenceOf
<1>2. /\ R(0) = 0
      /\ \A i \in 0..n : R(i) \in Nat
      /\ \A i \in 1..n : NearestSq(cents, ws[i]) \in Nat /\ R(i) = NearestSq(cents, ws[i]) + R(i - 1)
  <2> HIDE DEF R
  <2> QED  BY RunningFacts DEF R
<1>3. Resolution \in Nat /\ u \in Nat /\ 1 <= u /\ u <= Resolution /\ R(n) \in Nat /\ 1 <= R(n)
  <2>1. Resolution \in Nat \ {0}
    BY KMeansAssumption, Zenon
  <2>2. n \in 0..n /\ R(n) # 0
    BY <1>1
  <2> HIDE DEF R, n
  <2> QED  BY <1>2, <2>1, <2>2
<1> HIDE DEF R
<1>4. R(n) * Resolution >= target /\ target \in Nat /\ 1 <= target
  <2>1. \A a, b, c \in Nat : 1 <= b /\ 1 <= a /\ b <= c => a * c >= b * a /\ b * a \in Nat /\ 1 <= b * a
    <3> SUFFICES ASSUME NEW a \in Nat, NEW b \in Nat, NEW c \in Nat, 1 <= b, 1 <= a, b <= c
                 PROVE  a * c >= b * a /\ b * a \in Nat /\ 1 <= b * a
      OBVIOUS
    <3>1. PICK d \in Nat : c = b + d
      <4>1. c - b \in Nat /\ c = b + (c - b)
        OBVIOUS
      <4> QED  BY <4>1
    <3>2. a * c = b * a + a * d /\ a * d \in Nat
      BY <3>1
    <3> QED  BY <3>2
  <2> QED  BY <1>3, <2>1
<1>5. enough \in SUBSET Nat /\ enough # {}
  BY <1>1, <1>4
<1>6. PICK m \in enough : \A l \in enough : m <= l
  <2> HIDE DEF enough
  <2> QED  BY <1>5, LeastNatural
<1>7. m \in 1..n /\ R(m) * Resolution >= target
  BY <1>6
<1>8. m = 1 \/ R(m - 1) * Resolution < target
  <2> SUFFICES ASSUME m # 1 PROVE R(m - 1) * Resolution < target
    OBVIOUS
  <2>1. m - 1 \in 1..n /\ ~(m <= m - 1)
    BY <1>1, <1>7
  <2>2. m - 1 \notin enough
    <3> HIDE DEF enough
    <3> QED  BY <1>6, <2>1
  <2>3. R(m - 1) \in Nat
    BY <1>2, <2>1
  <2>4. R(m - 1) * Resolution \in Int
    BY <1>3, <2>3
  <2> HIDE DEF target
  <2> QED  BY <1>4, <2>1, <2>2, <2>4
<1> DEFINE i == WeightedPick(ws, cents, u)
<1>9. i \in 1..n /\ chosen(i)
  <2>1. i = CHOOSE j \in DOMAIN ws : chosen(j)
    BY Zenon DEF WeightedPick, R
  <2>2. m \in DOMAIN ws /\ chosen(m)
    BY <1>1, <1>7, <1>8
  <2> HIDE DEF chosen, i
  <2> QED  BY <1>1, <2>1, <2>2, Zenon
<1> HIDE DEF i, target
<1>10. NearestSq(cents, ws[i]) # 0
  <2> SUFFICES ASSUME NearestSq(cents, ws[i]) = 0 PROVE FALSE
    OBVIOUS
  <2>1. R(i) = R(i - 1)
    <3>1. i - 1 \in 0..n
      BY <1>1, <1>9
    <3>2. R(i - 1) \in Nat
      BY <1>2, <3>1
    <3>3. R(i) = NearestSq(cents, ws[i]) + R(i - 1)
      BY <1>2, <1>9
    <3>4. R(i) = 0 + R(i - 1)
      BY <3>3, Zenon
    <3> QED  BY <3>2, <3>4
  <2>2. CASE i = 1
    <3>1. i - 1 = 0 /\ R(i) = R(0)
      <4>1. i - 1 = 0
        BY <2>2
      <4> QED  BY <2>1, <4>1, Zenon
    <3>2. R(i) * Resolution = 0
      BY <1>2, <1>3, <3>1
    <3> QED  BY <1>4, <1>9, <3>2
  <2>3. CASE i # 1
    <3>1. R(i - 1) * Resolution \in Int
      <4>1. i - 1 \in 0..n
        BY <1>1, <1>9
      <4> QED  BY <1>2, <1>3, <4>1
    <3> QED  BY <1>4, <1>9, <2>1, <2>3, <3>1
  <2> QED  BY <2>2, <2>3
<1>11. ws[i] \in Coordinates
  BY <1>1, <1>9
<1>12. ws[i] \notin Range(cents)
  BY <1>10, <1>11, NearestSqFacts
<1> QED  BY <1>1, <1>9, <1>12 DEF i

\* A draw of the generator, reduced to an index.
LEMMA IndexDrawn ==
  ASSUME NEW n \in Nat \ {0}, NEW d \in Nat
  PROVE  1 + (d % n) \in 1..n
OBVIOUS

\* A seed is one of the points, and a new one while there is one.
LEMMA NextSeedFacts ==
  ASSUME NEW ws \in Seq(Coordinates), ws # <<>>, NEW cents \in Seq(Coordinates),
         NEW d \in 0..(Resolution - 1)
  PROVE  /\ NextSeed(ws, cents, d) \in Range(ws)
         /\ ~(Range(ws) \subseteq Range(cents)) => NextSeed(ws, cents, d) \notin Range(cents)
<1> DEFINE n == Len(ws)
           u == IF d = 0 THEN 1 ELSE d
           total == Running(ws, cents, n)
<1>1. n \in Nat \ {0} /\ DOMAIN ws = 1..n /\ \A i \in 1..n : ws[i] \in Coordinates
  BY SequenceOf
<1>2. Resolution \in Nat \ {0}
  BY KMeansAssumption
<1>3. 1 + (d % n) \in 1..n
  <2> HIDE DEF n
  <2> QED  BY <1>1, IndexDrawn
<1>4. CASE cents = <<>>
  <2>1. NextSeed(ws, cents, d) = ws[1 + (d % n)]
    BY <1>4, Zenon DEF NextSeed
  <2>2. Range(cents) = {}
    BY <1>4 DEF Range
  <2> QED  BY <1>1, <1>3, <2>1, <2>2 DEF Range
<1>5. CASE cents # <<>> /\ total = 0
  <2>1. NextSeed(ws, cents, d) = ws[1 + (d % n)]
    BY <1>5, Zenon DEF NextSeed
  <2>2. NextSeed(ws, cents, d) \in Range(ws)
    BY <1>1, <1>3, <2>1 DEF Range
  <2>3. ASSUME NEW i \in 1..n
        PROVE  ws[i] \in Range(cents)
    <3>1. /\ Running(ws, cents, i) \in Nat /\ Running(ws, cents, i - 1) \in Nat
          /\ Running(ws, cents, i) <= total
          /\ NearestSq(cents, ws[i]) \in Nat
          /\ Running(ws, cents, i) = NearestSq(cents, ws[i]) + Running(ws, cents, i - 1)
      <4>1. i \in 0..n /\ i - 1 \in 0..n
        BY <1>1
      <4> QED  BY <1>5, <4>1, RunningFacts
    <3>2. NearestSq(cents, ws[i]) = 0
      <4> HIDE DEF total
      <4> QED  BY <1>5, <3>1
    <3> QED  BY <1>1, <1>5, <3>2, NearestSqFacts
  <2>4. Range(ws) \subseteq Range(cents)
    <3>1. Range(ws) = {ws[i] : i \in 1..n}
      BY <1>1 DEF Range
    <3> QED  BY <2>3, <3>1
  <2> QED  BY <2>2, <2>4
<1>6. CASE cents # <<>> /\ total # 0
  <2>1. u \in 1..Resolution
    BY <1>2
  <2>2. NextSeed(ws, cents, d) = ws[WeightedPick(ws, cents, u)]
    BY <1>6, Zenon DEF NextSeed
  <2> HIDE DEF u
  <2>3. /\ WeightedPick(ws, cents, u) \in DOMAIN ws
        /\ ws[WeightedPick(ws, cents, u)] \notin Range(cents)
    BY <1>6, <2>1, WeightedPickFacts
  <2> QED  BY <2>2, <2>3 DEF Range
<1> QED  BY <1>4, <1>5, <1>6

-----------------------------------------------------------------------------
(* The cap on the sample *)

\* Where the n vectors of the sample are: each index at exactly one position.
Shuffles(n) == {g \in [1..n -> 1..n] : \A i, j \in 1..n : g[i] = g[j] => i = j}

\* One turn of the shuffle: positions i and p change places.
LEMMA SwapShuffles ==
  ASSUME NEW n \in Nat, NEW g \in Shuffles(n), NEW i \in 1..n, NEW p \in 1..n
  PROVE  [g EXCEPT ![i] = g[p], ![p] = g[i]] \in Shuffles(n)
<1> DEFINE h == [g EXCEPT ![i] = g[p], ![p] = g[i]]
<1>1. g \in [1..n -> 1..n] /\ \A j, l \in 1..n : g[j] = g[l] => j = l
  BY DEF Shuffles
<1>2. h \in [1..n -> 1..n]
  BY <1>1
<1>3. \A j \in 1..n : h[j] = IF j = p THEN g[i] ELSE IF j = i THEN g[p] ELSE g[j]
  BY <1>1
<1> HIDE DEF h
<1>4. \A j, l \in 1..n : h[j] = h[l] => j = l
  BY <1>1, <1>3
<1> QED  BY <1>2, <1>4 DEF Shuffles, h

\* The cap keeps as many indices as it allows, no index twice.
LEMMA SubsampleIndicesFacts ==
  ASSUME NEW n \in Nat, TrainingSampleSize < n,
         NEW draws \in SubsampleDraws(n)
  PROVE  /\ SubsampleIndices(n, draws) \in [1..TrainingSampleSize -> 1..n]
         /\ \A i, j \in 1..TrainingSampleSize :
              SubsampleIndices(n, draws)[i] = SubsampleIndices(n, draws)[j] => i = j
<1> DEFINE len == TrainingSampleSize
           pick(i) == i + draws[i]
           turn(g, i) == IF i = 0 THEN [j \in 1..n |-> j]
                         ELSE [g[i - 1] EXCEPT ![i] = g[i - 1][pick(i)],
                                               ![pick(i)] = g[i - 1][i]]
           D == Shuffles(n)
           start == [j \in 1..n |-> j]
           step == [x \in D \X (1..len) |->
                      [x[1] EXCEPT ![x[2]] = x[1][pick(x[2])], ![pick(x[2])] = x[1][x[2]]]]
           p == CHOOSE g : g = [i \in 0..len |-> turn(g, i)]
           reached == {m \in 0..len : p[m] \in D}
<1>1. /\ len \in Nat /\ len \in 0..len
      /\ \A i \in 1..len : i \in 1..n /\ draws[i] \in Nat /\ draws[i] <= n - i
  <2>1. TrainingSampleSize \in Nat \ {0}
    BY KMeansAssumption, Zenon
  <2> QED  BY <2>1 DEF SubsampleDraws
<1>2. \A i \in 1..len : i \in 1..n /\ pick(i) \in 1..n
  BY <1>1
<1>3. SubsampleIndices(n, draws) = [i \in 1..len |-> p[len][i]]
  BY Zenon DEF SubsampleIndices
<1> HIDE DEF pick
<1>4. start \in D
  BY DEF Shuffles
<1>5. \A g \in D, i \in 1..len : [g EXCEPT ![i] = g[pick(i)], ![pick(i)] = g[i]] \in D
  <2> HIDE DEF D, len
  <2> QED  BY <1>2, SwapShuffles DEF D
<1>6. \E g : g = [i \in 0..len |-> turn(g, i)]
  <2>1. step \in [D \X (1..len) -> D]
    <3> HIDE DEF D, len
    <3> QED  BY <1>5
  <2>2. PICK g : Computed(g, D, start, len, step)
    <3> HIDE DEF step, len, D, start
    <3> QED  BY <1>1, <1>4, <2>1, StepByStep
  <2>3. ASSUME NEW i \in 0..len
        PROVE  g[i] = turn(g, i)
    <3>1. CASE i = 0
      BY <2>2, <3>1 DEF Computed
    <3>2. CASE i # 0
      <4>1. i \in 1..len /\ i - 1 \in 0..len
        BY <1>1, <3>2
      <4>2. g[i - 1] \in D /\ g[i] = step[<<g[i - 1], i>>]
        <5> HIDE DEF step, len, D, start
        <5> QED  BY <2>2, <4>1 DEF Computed
      <4>3. step[<<g[i - 1], i>>] = turn(g, i)
        <5> HIDE DEF D, len
        <5> QED  BY <3>2, <4>1, <4>2
      <4> QED  BY <4>2, <4>3, Zenon
    <3> QED  BY <3>1, <3>2
  <2>4. g = [i \in 0..len |-> g[i]]
    BY <2>2, Zenon DEF Computed
  <2> HIDE DEF turn
  <2> QED  BY <2>3, <2>4
<1>7. \A i \in 0..len : p[i] = turn(p, i)
  <2> HIDE DEF turn
  <2>1. p = [i \in 0..len |-> turn(p, i)]
    BY <1>6, Zenon
  <2> HIDE DEF p
  <2> QED  BY <2>1
<1> HIDE DEF p
<1>8. 0 \in reached
  <2>1. 0 \in 0..len
    BY <1>1
  <2>2. p[0] = turn(p, 0)
    <3> HIDE DEF turn, len
    <3> QED  BY <1>7, <2>1, Zenon
  <2>3. p[0] = start
    BY <2>2, Zenon
  <2> HIDE DEF D, start, len
  <2> QED  BY <1>4, <2>1, <2>3
<1>9. ASSUME NEW m \in 1..len, m - 1 \in reached
      PROVE  m \in reached
  <2>1. m \in 0..len /\ m # 0
    BY <1>1
  <2>2. p[m - 1] \in D
    BY <1>9
  <2>3. p[m] = [p[m - 1] EXCEPT ![m] = p[m - 1][pick(m)], ![pick(m)] = p[m - 1][m]]
    <3> HIDE DEF len
    <3> QED  BY <1>7, <2>1
  <2>4. p[m] \in D
    <3> HIDE DEF D, len
    <3> QED  BY <1>5, <2>2, <2>3
  <2> HIDE DEF D, len
  <2> QED  BY <2>1, <2>4
<1>10. p[len] \in D
  <2>1. len \in reached
    <3> HIDE DEF reached, len
    <3> QED  BY <1>1, <1>8, <1>9, UpTo
  <2> QED  BY <2>1
<1>11. p[len] \in [1..n -> 1..n] /\ \A i, j \in 1..n : p[len][i] = p[len][j] => i = j
  BY <1>10 DEF Shuffles
<1> HIDE DEF len
<1> QED  BY <1>1, <1>3, <1>11 DEF len

\* The lesser of two numbers.
LEMMA MinOfTwo ==
  ASSUME NEW a \in Nat, NEW b \in Nat
  PROVE  Min({a, b}) = IF a <= b THEN a ELSE b
<1> DEFINE T == {a, b}
<1>1. T \in SUBSET Nat /\ T # {}
  OBVIOUS
<1>2. Min(T) \in T /\ \A n \in T : Min(T) <= n
  <2> HIDE DEF T
  <2> QED  BY <1>1, MinIsLeast
<1> QED  BY <1>2

\* What CapTakesEachOnce says of a working set and its sample.
KeptOnce(ws, s) ==
  /\ Len(ws) = Min({Len(s), TrainingSampleSize})
  /\ \A v \in Range(ws) :
       Cardinality({i \in DOMAIN ws : ws[i] = v}) <= Cardinality({i \in DOMAIN s : s[i] = v})

\* The capped working set takes vectors of the sample, none of them twice.
LEMMA SubsampleRefsFacts ==
  ASSUME NEW s \in Seq(Coordinates), TrainingSampleSize < Len(s),
         NEW draws \in SubsampleDraws(Len(s))
  PROVE  /\ SubsampleRefs(s, draws) \in Seq(Range(s))
         /\ SubsampleRefs(s, draws) # <<>>
         /\ KeptOnce(SubsampleRefs(s, draws), s)
<1> DEFINE n == Len(s)
           len == TrainingSampleSize
           kept == SubsampleIndices(n, draws)
           ws == SubsampleRefs(s, draws)
<1>1. n \in Nat /\ DOMAIN s = 1..n
  BY SequenceOf
<1>2. kept \in [1..len -> 1..n] /\ \A i, j \in 1..len : kept[i] = kept[j] => i = j
  <2> HIDE DEF n
  <2> QED  BY <1>1, SubsampleIndicesFacts DEF n
<1>3. len \in Nat \ {0}
  BY KMeansAssumption, Zenon
<1>4. ws = [i \in 1..len |-> s[kept[i]]]
  BY Zenon DEF SubsampleRefs
<1> HIDE DEF kept, ws
<1>5. \A i \in 1..len : ws[i] = s[kept[i]] /\ kept[i] \in 1..n /\ s[kept[i]] \in Range(s)
  <2>1. \A j \in 1..n : s[j] \in Range(s)
    BY <1>1 DEF Range
  <2> HIDE DEF n, len
  <2> QED  BY <1>2, <1>4, <2>1
<1>6. ws \in Seq(Range(s)) /\ Len(ws) = len /\ DOMAIN ws = 1..len
  <2> HIDE DEF n, len
  <2>1. ws \in [1..len -> Range(s)]
    BY <1>4, <1>5
  <2>2. ws \in Seq(Range(s))
    BY <1>3, <2>1
  <2> QED  BY <1>3, <2>1, <2>2
<1>7. len = Min({n, len})
  <2>1. ~(n <= len)
    BY <1>1, <1>3
  <2> HIDE DEF n, len
  <2> QED  BY <1>1, <1>3, <2>1, MinOfTwo
<1>8. ASSUME NEW v
      PROVE  Cardinality({i \in DOMAIN ws : ws[i] = v}) <= Cardinality({i \in DOMAIN s : s[i] = v})
  <2> DEFINE A == {i \in DOMAIN ws : ws[i] = v}
             B == {i \in DOMAIN s : s[i] = v}
             f == [i \in A |-> kept[i]]
  <2>1. IsFiniteSet(B)
    <3>1. B \in SUBSET (1..n)
      BY <1>1
    <3>2. IsFiniteSet(1..n)
      BY <1>1, FS_Interval
    <3> QED  BY <3>1, <3>2, FS_Subset
  <2>2. \A i \in A : i \in 1..len /\ kept[i] \in B
    BY <1>1, <1>5, <1>6
  <2> HIDE DEF A, B, len
  <2>3. f \in [A -> B] /\ \A i, j \in A : f[i] = f[j] => i = j
    BY <1>2, <2>2
  <2>4. f \in Injection(A, B)
    BY <2>3 DEF Injection, IsInjective
  <2> QED  BY <2>1, <2>4, FS_Injection DEF A, B
<1>9. KeptOnce(ws, s)
  BY <1>6, <1>7, <1>8 DEF KeptOnce
<1> QED  BY <1>3, <1>6, <1>9 DEF ws

\* Below the cap the working set is the sample.
LEMMA WholeSampleKept ==
  ASSUME NEW s \in Seq(Coordinates), Len(s) <= TrainingSampleSize
  PROVE  s \in Seq(Range(s)) /\ KeptOnce(s, s)
<1>1. Len(s) \in Nat /\ DOMAIN s = 1..Len(s)
  BY SequenceOf
<1>2. TrainingSampleSize \in Nat
  BY KMeansAssumption, Zenon
<1>3. Len(s) = Min({Len(s), TrainingSampleSize})
  BY <1>1, <1>2, MinOfTwo
<1>4. ASSUME NEW v
      PROVE  Cardinality({i \in DOMAIN s : s[i] = v}) \in Nat
  <2>1. {i \in DOMAIN s : s[i] = v} \in SUBSET (1..Len(s))
    BY <1>1
  <2>2. IsFiniteSet(1..Len(s))
    BY <1>1, FS_Interval
  <2> QED  BY <2>1, <2>2, FS_Subset, FS_CardinalityType
<1>5. KeptOnce(s, s)
  <2>1. \A m \in Nat : m <= m
    OBVIOUS
  <2> QED  BY <1>3, <1>4, <2>1, Zenon DEF KeptOnce
<1>6. s \in [1..Len(s) -> Range(s)]
  BY <1>1 DEF Range
<1> QED  BY <1>1, <1>5, <1>6

-----------------------------------------------------------------------------
(* Lloyd's iterations *)

\* A value that is the greatest of a non-empty sequence of naturals, at the first
\* index where it is.
LEMMA FirstGreatest ==
  ASSUME NEW n \in Nat \ {0}, NEW w \in [1..n -> Nat], NEW top \in Nat,
         \A i \in 1..n : w[i] <= top
  PROVE  \E i \in 1..n : \A j \in 1..n : w[i] >= w[j] /\ (j < i => w[i] > w[j])
<1> DEFINE gaps == {top - w[i] : i \in 1..n}
<1>1. \A i \in 1..n : w[i] \in Nat /\ top - w[i] \in Nat
  OBVIOUS
<1>2. gaps \in SUBSET Nat /\ gaps # {}
  <2>1. 1 \in 1..n
    OBVIOUS
  <2> QED  BY <1>1, <2>1
<1>3. PICK g \in gaps : \A h \in gaps : g <= h
  <2> HIDE DEF gaps
  <2> QED  BY <1>2, LeastNatural
<1>4. PICK k \in 1..n : g = top - w[k]
  BY <1>3
<1>5. \A j \in 1..n : w[j] <= w[k]
  <2> SUFFICES ASSUME NEW j \in 1..n PROVE w[j] <= w[k]
    OBVIOUS
  <2>1. top - w[j] \in gaps
    OBVIOUS
  <2>2. top - w[k] <= top - w[j]
    <3> HIDE DEF gaps
    <3> QED  BY <1>3, <1>4, <2>1
  <2> HIDE DEF gaps
  <2> QED  BY <1>1, <2>2
<1> DEFINE greatest == {i \in 1..n : w[i] = w[k]}
<1>6. greatest \in SUBSET Nat /\ greatest # {}
  OBVIOUS
<1>7. PICK i \in greatest : \A j \in greatest : i <= j
  <2> HIDE DEF greatest
  <2> QED  BY <1>6, LeastNatural
<1>8. i \in 1..n /\ w[i] = w[k]
  BY <1>7
<1>9. ASSUME NEW j \in 1..n
      PROVE  w[i] >= w[j] /\ (j < i => w[i] > w[j])
  <2>1. w[j] <= w[k] /\ w[j] \in Nat /\ w[k] \in Nat
    BY <1>1, <1>5
  <2>2. j < i => w[j] # w[k]
    BY <1>7, <1>8
  <2> HIDE DEF greatest
  <2> QED  BY <1>8, <2>1, <2>2
<1> QED  BY <1>8, <1>9

\* The recovery of an empty cluster always finds a point, and no point is
\* farther from the centroids.
LEMMA IsolatedFacts ==
  ASSUME NEW ws \in Seq(Coordinates), ws # <<>>, NEW cents \in Seq(Coordinates), cents # <<>>
  PROVE  /\ Isolated(ws, cents) \in 1..Len(ws)
         /\ \A j \in 1..Len(ws) :
              NearestSq(cents, ws[j]) <= NearestSq(cents, ws[Isolated(ws, cents)])
<1> DEFINE n == Len(ws)
           w == [j \in 1..n |-> NearestSq(cents, ws[j])]
           top == Running(ws, cents, n)
           far(i) == \A j \in DOMAIN ws :
                       /\ NearestSq(cents, ws[i]) >= NearestSq(cents, ws[j])
                       /\ j < i => NearestSq(cents, ws[i]) > NearestSq(cents, ws[j])
<1>1. n \in Nat \ {0} /\ DOMAIN ws = 1..n
  BY SequenceOf
<1>2. \A i \in 0..n : Running(ws, cents, i) \in Nat /\ Running(ws, cents, i) <= top
  BY RunningFacts
<1>3. \A i \in 1..n : /\ NearestSq(cents, ws[i]) \in Nat
                      /\ Running(ws, cents, i) = NearestSq(cents, ws[i]) + Running(ws, cents, i - 1)
  BY RunningFacts
<1> HIDE DEF n, top
<1>4. ASSUME NEW i \in 1..n
      PROVE  NearestSq(cents, ws[i]) <= top
  <2>1. i \in 0..n /\ i - 1 \in 0..n /\ n \in 0..n
    BY <1>1
  <2>2. Running(ws, cents, i) \in Nat /\ Running(ws, cents, i) <= top
    BY <1>2, <2>1
  <2>3. Running(ws, cents, i - 1) \in Nat /\ top \in Nat
    BY <1>2, <2>1 DEF top
  <2>4. NearestSq(cents, ws[i]) \in Nat
    BY <1>3
  <2>5. Running(ws, cents, i) = NearestSq(cents, ws[i]) + Running(ws, cents, i - 1)
    BY <1>3
  <2> QED  BY <2>2, <2>3, <2>4, <2>5
<1>5. top \in Nat
  <2>1. n \in 0..n
    BY <1>1
  <2> QED  BY <1>2, <2>1 DEF top
<1>6. w \in [1..n -> Nat] /\ \A i \in 1..n : w[i] = NearestSq(cents, ws[i]) /\ w[i] <= top
  BY <1>3, <1>4
<1>7. PICK k \in 1..n : \A j \in 1..n : w[k] >= w[j] /\ (j < k => w[k] > w[j])
  <2> HIDE DEF w
  <2> QED  BY <1>1, <1>5, <1>6, FirstGreatest
<1>8. far(k)
  <2> HIDE DEF w
  <2> QED  BY <1>1, <1>6, <1>7
<1>9. Isolated(ws, cents) = CHOOSE i \in DOMAIN ws : far(i)
  BY Zenon DEF Isolated
<1>10. Isolated(ws, cents) \in DOMAIN ws /\ far(Isolated(ws, cents))
  <2>1. k \in DOMAIN ws
    BY <1>1
  <2> HIDE DEF far
  <2> QED  BY <1>8, <1>9, <2>1, Zenon
<1>11. Isolated(ws, cents) \in 1..n
  BY <1>1, <1>10, Zenon
<1>12. \A j \in 1..n : NearestSq(cents, ws[Isolated(ws, cents)]) >= NearestSq(cents, ws[j])
  BY <1>1, <1>10, Zenon
<1>13. ASSUME NEW j \in 1..n
       PROVE  NearestSq(cents, ws[j]) <= NearestSq(cents, ws[Isolated(ws, cents)])
  <2>1. \A a, b \in Nat : a >= b => b <= a
    OBVIOUS
  <2> QED  BY <1>3, <1>11, <1>12, <2>1, Zenon
<1> QED  BY <1>11, <1>13 DEF n

\* The mean of points is a point.
LEMMA MeanIsPoint ==
  ASSUME NEW ws \in Seq(Coordinates), NEW I \in SUBSET DOMAIN ws, I # {}
  PROVE  Mean(ws, I) \in Coordinates
<1> DEFINE n == Len(ws)
           m == Cardinality(I)
           total == SumFunctionOnSet(ws, I)
<1>1. n \in Nat /\ DOMAIN ws = 1..n /\ ws \in [1..n -> Coordinates]
  BY SequenceOf
<1>2. Low \in Int /\ High \in Int
  BY KMeansAssumption, Zenon
<1>3. ws \in [1..n -> Int] /\ \A i \in 1..n : Low <= ws[i] /\ ws[i] <= High
  BY <1>1, <1>2 DEF Coordinates
<1>4. IsFiniteSet(1..n)
  BY <1>1, FS_Interval
<1>5. I \in SUBSET (1..n)
  BY <1>1
<1>6. IsFiniteSet(I) /\ m \in Nat /\ m # 0
  <2>1. IsFiniteSet(I)
    BY <1>4, <1>5, FS_Subset
  <2> QED  BY <2>1, FS_CardinalityType, FS_EmptySet
<1>7. total \in Int
  BY <1>3, <1>4, <1>5, SumType
<1>8. Low * m <= total /\ total <= High * m
  <2> HIDE DEF n
  <2> QED  BY <1>2, <1>3, <1>4, <1>5, SumBounded
<1>9. Mean(ws, I) = total \div m
  BY Zenon DEF Mean
<1> HIDE DEF total, m
<1>10. Low <= total \div m /\ total \div m <= High /\ total \div m \in Int
  <2> DEFINE q == total \div m
             r == total % m
  <2>1. q \in Int /\ r \in 0..(m - 1) /\ total = m * q + r
    BY <1>6, <1>7
  <2> HIDE DEF q, r
  <2>2. ASSUME q < Low PROVE FALSE
    <3>1. q + 1 <= Low /\ m * (q + 1) <= m * Low
      <4>1. PICK d \in Nat : Low = q + 1 + d
        <5>1. Low - (q + 1) \in Nat /\ Low = q + 1 + (Low - (q + 1))
          BY <1>2, <2>1, <2>2
        <5> QED  BY <5>1
      <4>2. m * Low = m * (q + 1) + m * d /\ m * d \in Nat
        BY <1>6, <2>1, <4>1
      <4> QED  BY <1>2, <1>6, <2>1, <4>1, <4>2
    <3>2. m * (q + 1) = m * q + m /\ m * Low = Low * m
      BY <1>2, <1>6, <2>1
    <3> QED  BY <1>2, <1>6, <1>7, <1>8, <2>1, <3>1, <3>2
  <2>3. ASSUME High < q PROVE FALSE
    <3>1. PICK d \in Nat : q = High + 1 + d
      <4>1. q - (High + 1) \in Nat /\ q = High + 1 + (q - (High + 1))
        BY <1>2, <2>1, <2>3
      <4> QED  BY <4>1
    <3>2. m * q = m * High + m + m * d /\ m * d \in Nat /\ m * High = High * m
      BY <1>2, <1>6, <3>1
    <3> QED  BY <1>2, <1>6, <1>7, <1>8, <2>1, <3>1, <3>2
  <2>4. q \in Int /\ Low <= q /\ q <= High
    BY <1>2, <2>1, <2>2, <2>3
  <2> QED  BY <2>4 DEF q
<1> QED  BY <1>9, <1>10 DEF Coordinates

\* NClusters points, the centroids of a finished seeding.
Models == [Clusters -> Coordinates]

LEMMA ModelsFacts ==
  /\ NClusters \in Nat \ {0} /\ Clusters = 1..NClusters
  /\ \A cents \in Models : /\ cents \in Seq(Coordinates) /\ cents # <<>> /\ Len(cents) = NClusters
                           /\ DOMAIN cents = 1..NClusters
  /\ \A cents \in Seq(Coordinates) : Len(cents) = NClusters => cents \in Models
<1>1. NClusters \in Nat \ {0}
  BY KMeansAssumption, Zenon
<1>2. Clusters = 1..NClusters
  BY DEF Clusters
<1>3. ASSUME NEW cents \in Models
      PROVE  /\ cents \in Seq(Coordinates) /\ cents # <<>> /\ Len(cents) = NClusters
             /\ DOMAIN cents = 1..NClusters
  <2>1. cents \in [1..NClusters -> Coordinates]
    BY <1>2, <1>3 DEF Models
  <2> QED  BY <1>1, <2>1
<1>4. ASSUME NEW cents \in Seq(Coordinates), Len(cents) = NClusters
      PROVE  cents \in Models
  BY <1>2, <1>4 DEF Models
<1> QED  BY <1>1, <1>2, <1>3, <1>4

\* Where the pass moves centroid c once the ones before it have moved.
MovesTo(ws, cents, moved, c) ==
  IF Members(cents, ws, c) = {} THEN ws[Isolated(ws, moved)]
  ELSE Mean(ws, Members(cents, ws, c))

LEMMA MovesToPoint ==
  ASSUME NEW ws \in Seq(Coordinates), ws # <<>>, NEW cents, NEW moved \in Models, NEW c
  PROVE  MovesTo(ws, cents, moved, c) \in Coordinates
<1>1. moved \in Seq(Coordinates) /\ moved # <<>>
  BY ModelsFacts
<1>2. ws[Isolated(ws, moved)] \in Coordinates
  <2>1. Isolated(ws, moved) \in 1..Len(ws)
    BY <1>1, IsolatedFacts
  <2> QED  BY <2>1, SequenceOf
<1>3. Members(cents, ws, c) \in SUBSET DOMAIN ws
  BY DEF Members
<1>4. Members(cents, ws, c) # {} => Mean(ws, Members(cents, ws, c)) \in Coordinates
  BY <1>3, MeanIsPoint
<1> QED  BY <1>2, <1>4 DEF MovesTo

\* One iteration makes a model of a model, with each centroid that has members at
\* their mean; an empty cluster's is at the point that was isolated when its turn
\* came, with some of the centroids moved, and at the isolated point of the model
\* itself if the iteration leaves that alone.
LEMMA LloydPassFacts ==
  ASSUME NEW ws \in Seq(Coordinates), ws # <<>>, NEW cents \in Models
  PROVE  /\ LloydPass(ws, cents) \in Models
         /\ \A c \in Clusters : Members(cents, ws, c) # {} =>
              LloydPass(ws, cents)[c] = Mean(ws, Members(cents, ws, c))
         /\ \A c \in Clusters : Members(cents, ws, c) = {} =>
              \E mid \in Models :
                /\ mid[c] = cents[c]
                /\ LloydPass(ws, cents)[c] = ws[Isolated(ws, mid)]
                /\ \A d \in Clusters : mid[d] \in {cents[d], LloydPass(ws, cents)[d]}
         /\ LloydPass(ws, cents) = cents =>
              \A c \in Clusters : cents[c] = MovesTo(ws, cents, cents, c)
<1> DEFINE len == NClusters
           turn(g, c) == IF c = 0 THEN cents
                         ELSE [g[c - 1] EXCEPT ![c] =
                                 IF Members(cents, ws, c) = {} THEN ws[Isolated(ws, g[c - 1])]
                                 ELSE Mean(ws, Members(cents, ws, c))]
           D == Models
           step == [x \in D \X (1..len) |->
                      [x[1] EXCEPT ![x[2]] = MovesTo(ws, cents, x[1], x[2])]]
           p == CHOOSE g : g = [c \in 0..len |-> turn(g, c)]
           reached == {m \in 0..len : p[m] \in D}
           later(e) == {m \in 0..len : m < e \/ p[m][e] = p[e][e]}
           earlier(e) == {m \in 0..len : e <= m \/ p[m][e] = cents[e]}
           same == {m \in 0..len : p[m] = cents}
<1>1. len \in Nat \ {0} /\ 0 \in 0..len /\ len \in 0..len /\ Clusters = 1..len
  BY ModelsFacts
<1>2. \A g \in D : g \in [1..len -> Coordinates]
  BY <1>1 DEF Models
<1>3. LloydPass(ws, cents) = p[len]
  BY Zenon DEF LloydPass
<1>4. ASSUME NEW g \in D, NEW c \in 1..len
      PROVE  [g EXCEPT ![c] = MovesTo(ws, cents, g, c)] \in D
  <2>1. MovesTo(ws, cents, g, c) \in Coordinates
    BY MovesToPoint
  <2>2. [g EXCEPT ![c] = MovesTo(ws, cents, g, c)] \in [1..len -> Coordinates]
    BY <1>2, <2>1
  <2> QED  BY <1>1, <2>2 DEF Models
<1>5. ASSUME NEW g, NEW c, c # 0
      PROVE  turn(g, c) = [g[c - 1] EXCEPT ![c] = MovesTo(ws, cents, g[c - 1], c)]
  BY <1>5, Zenon DEF MovesTo
<1>6. \E g : g = [c \in 0..len |-> turn(g, c)]
  <2>1. step \in [D \X (1..len) -> D]
    <3> HIDE DEF D, len
    <3> QED  BY <1>4
  <2>2. PICK g : Computed(g, D, cents, len, step)
    <3> HIDE DEF step, len, D
    <3> QED  BY <1>1, <2>1, StepByStep DEF D
  <2>3. ASSUME NEW c \in 0..len
        PROVE  g[c] = turn(g, c)
    <3>1. CASE c = 0
      <4>1. g[0] = cents
        BY <2>2, Zenon DEF Computed
      <4> QED  BY <3>1, <4>1, Zenon
    <3>2. CASE c # 0
      <4>1. c \in 1..len /\ c - 1 \in 0..len
        BY <1>1, <3>2
      <4>2. g[c - 1] \in D /\ g[c] = step[<<g[c - 1], c>>]
        <5> HIDE DEF step, len, D
        <5> QED  BY <2>2, <4>1 DEF Computed
      <4>3. step[<<g[c - 1], c>>] = [g[c - 1] EXCEPT ![c] = MovesTo(ws, cents, g[c - 1], c)]
        <5> HIDE DEF D, len
        <5> QED  BY <4>1, <4>2
      <4> HIDE DEF turn
      <4> QED  BY <1>5, <3>2, <4>2, <4>3, Zenon
    <3> QED  BY <3>1, <3>2
  <2>4. g = [c \in 0..len |-> g[c]]
    BY <2>2, Zenon DEF Computed
  <2> HIDE DEF turn
  <2> QED  BY <2>3, <2>4
<1>7. \A c \in 0..len : p[c] = turn(p, c)
  <2> HIDE DEF turn
  <2>1. p = [c \in 0..len |-> turn(p, c)]
    BY <1>6, Zenon
  <2> HIDE DEF p
  <2> QED  BY <2>1
<1> HIDE DEF p
<1>8. p[0] = cents
  <2>1. p[0] = turn(p, 0)
    <3> HIDE DEF turn, len
    <3> QED  BY <1>1, <1>7, Zenon
  <2> QED  BY <2>1, Zenon
<1>9. \A c \in 1..len : p[c] = [p[c - 1] EXCEPT ![c] = MovesTo(ws, cents, p[c - 1], c)]
  <2> TAKE c \in 1..len
  <2>1. c \in 0..len /\ c # 0
    BY <1>1
  <2> HIDE DEF turn, len
  <2> QED  BY <1>5, <1>7, <2>1, Zenon
<1> HIDE DEF turn
<1>10. \A m \in 0..len : p[m] \in D
  <2>1. 0 \in reached
    BY <1>1, <1>8, Zenon
  <2>2. ASSUME NEW m \in 1..len, m - 1 \in reached
        PROVE  m \in reached
    <3>1. m \in 0..len /\ p[m - 1] \in D
      BY <1>1, <2>2
    <3>2. p[m] \in D
      <4> HIDE DEF D, len
      <4>1. [p[m - 1] EXCEPT ![m] = MovesTo(ws, cents, p[m - 1], m)] \in D
        BY <1>4, <3>1
      <4>2. p[m] = [p[m - 1] EXCEPT ![m] = MovesTo(ws, cents, p[m - 1], m)]
        BY <1>9
      <4> QED  BY <4>1, <4>2, Zenon
    <3> QED  BY <3>1, <3>2
  <2>3. \A m \in 0..len : m \in reached
    <3> HIDE DEF reached, len
    <3> QED  BY <1>1, <2>1, <2>2, UpTo
  <2> QED  BY <2>3
<1>11. ASSUME NEW e \in 1..len
       PROVE  p[len][e] = p[e][e] /\ \A m \in 0..len : m < e \/ p[m][e] = p[e][e]
  <2>1. 0 \in later(e)
    BY <1>1
  <2>2. ASSUME NEW m \in 1..len, m - 1 \in later(e)
        PROVE  m \in later(e)
    <3>1. m \in 0..len /\ m - 1 \in 0..len
      BY <1>1
    <3>2. CASE m <= e
      BY <1>1, <3>1, <3>2
    <3>3. CASE ~(m <= e)
      <4>1. p[m - 1][e] = p[e][e] /\ m # e
        BY <1>1, <2>2, <3>1, <3>3
      <4>2. p[m - 1] \in [1..len -> Coordinates]
        BY <1>2, <1>10, <3>1
      <4>3. p[m][e] = p[m - 1][e]
        <5> HIDE DEF len
        <5> QED  BY <1>9, <4>1, <4>2
      <4> QED  BY <3>1, <4>1, <4>3
    <3> QED  BY <3>2, <3>3
  <2>3. \A m \in 0..len : m \in later(e)
    <3> HIDE DEF later, len
    <3> QED  BY <1>1, <2>1, <2>2, UpTo
  <2> QED  BY <1>1, <2>3
<1>12. ASSUME p[len] = cents, NEW c \in 1..len
       PROVE  cents[c] = MovesTo(ws, cents, cents, c)
  <2>1. 0 \in same
    BY <1>1, <1>8, Zenon
  <2>2. ASSUME NEW m \in 1..len, p[m - 1] = cents
        PROVE  p[m] = cents /\ cents[m] = MovesTo(ws, cents, cents, m)
    <3>1. p[m] = [cents EXCEPT ![m] = MovesTo(ws, cents, cents, m)]
      BY <1>9, <2>2
    <3>2. cents \in [1..len -> Coordinates]
      BY <1>2
    <3>3. p[m][m] = cents[m]
      BY <1>11, <1>12
    <3>4. p[m][m] = MovesTo(ws, cents, cents, m)
      <4> HIDE DEF len
      <4> QED  BY <3>1, <3>2
    <3>5. [cents EXCEPT ![m] = cents[m]] = cents
      <4> HIDE DEF len
      <4> QED  BY <3>2
    <3> QED  BY <3>1, <3>3, <3>4, <3>5
  <2>3. ASSUME NEW m \in 1..len, m - 1 \in same
        PROVE  m \in same
    <3>1. m \in 0..len /\ p[m - 1] = cents
      BY <1>1, <2>3
    <3> QED  BY <2>2, <3>1
  <2>4. c - 1 \in same
    <3>1. c - 1 \in 0..len
      BY <1>1
    <3> HIDE DEF same, len
    <3> QED  BY <1>1, <2>1, <2>3, <3>1, UpTo
  <2>5. p[c - 1] = cents
    BY <2>4
  <2> QED  BY <2>2, <2>5
<1>13. ASSUME NEW c \in 1..len, Members(cents, ws, c) # {}
       PROVE  p[len][c] = Mean(ws, Members(cents, ws, c))
  <2>1. c - 1 \in 0..len
    BY <1>1
  <2>2. p[c - 1] \in [1..len -> Coordinates]
    BY <1>2, <1>10, <2>1
  <2>3. p[c] = [p[c - 1] EXCEPT ![c] = MovesTo(ws, cents, p[c - 1], c)]
    BY <1>9
  <2>4. p[c][c] = MovesTo(ws, cents, p[c - 1], c)
    <3> HIDE DEF len
    <3> QED  BY <2>2, <2>3
  <2>5. MovesTo(ws, cents, p[c - 1], c) = Mean(ws, Members(cents, ws, c))
    BY <1>13, Zenon DEF MovesTo
  <2>6. p[len][c] = p[c][c]
    BY <1>11
  <2> QED  BY <2>4, <2>5, <2>6, Zenon
<1>14. ASSUME NEW e \in 1..len
       PROVE  \A m \in 0..len : e <= m \/ p[m][e] = cents[e]
  <2>1. 0 \in earlier(e)
    BY <1>1, <1>8
  <2>2. ASSUME NEW m \in 1..len, m - 1 \in earlier(e)
        PROVE  m \in earlier(e)
    <3>1. m \in 0..len /\ m - 1 \in 0..len
      BY <1>1
    <3>2. CASE e <= m
      BY <3>1, <3>2
    <3>3. CASE ~(e <= m)
      <4>1. p[m - 1][e] = cents[e] /\ m # e
        BY <1>1, <2>2, <3>1, <3>3
      <4>2. p[m - 1] \in [1..len -> Coordinates]
        BY <1>2, <1>10, <3>1
      <4>3. p[m][e] = p[m - 1][e]
        <5> HIDE DEF len
        <5> QED  BY <1>9, <4>1, <4>2
      <4> QED  BY <3>1, <4>1, <4>3
    <3> QED  BY <3>2, <3>3
  <2>3. \A m \in 0..len : m \in earlier(e)
    <3> HIDE DEF earlier, len
    <3> QED  BY <1>1, <2>1, <2>2, UpTo
  <2> QED  BY <2>3
<1>15. ASSUME NEW c \in 1..len, Members(cents, ws, c) = {}
       PROVE  \E mid \in D : /\ mid[c] = cents[c]
                             /\ p[len][c] = ws[Isolated(ws, mid)]
                             /\ \A d \in 1..len : mid[d] \in {cents[d], p[len][d]}
  <2>1. c - 1 \in 0..len /\ ~(c <= c - 1)
    BY <1>1
  <2>2. p[c - 1] \in D
    BY <1>10, <2>1
  <2>3. p[c - 1] \in [1..len -> Coordinates]
    BY <1>2, <2>2
  <2>4. p[c] = [p[c - 1] EXCEPT ![c] = MovesTo(ws, cents, p[c - 1], c)]
    BY <1>9
  <2>5. p[c][c] = MovesTo(ws, cents, p[c - 1], c)
    <3> HIDE DEF len
    <3> QED  BY <2>3, <2>4
  <2>6. MovesTo(ws, cents, p[c - 1], c) = ws[Isolated(ws, p[c - 1])]
    BY <1>15, Zenon DEF MovesTo
  <2>7. p[len][c] = ws[Isolated(ws, p[c - 1])]
    BY <1>11, <2>5, <2>6, Zenon
  <2>8. p[c - 1][c] = cents[c]
    BY <1>14, <2>1, Zenon
  <2>9. ASSUME NEW d \in 1..len
        PROVE  p[c - 1][d] \in {cents[d], p[len][d]}
    <3>1. c - 1 < d \/ d <= c - 1
      BY <1>1, <2>1
    <3>2. c - 1 < d => ~(d <= c - 1)
      BY <1>1, <2>1
    <3>3. p[len][d] = p[d][d] /\ (c - 1 < d \/ p[c - 1][d] = p[d][d])
      BY <1>11, <2>1, Zenon
    <3>4. d <= c - 1 \/ p[c - 1][d] = cents[d]
      BY <1>14, <2>1, Zenon
    <3> QED  BY <3>1, <3>2, <3>3, <3>4
  <2> HIDE DEF D, len
  <2> QED  BY <2>2, <2>7, <2>8, <2>9, Zenon
<1> HIDE DEF later, earlier, reached, same, step
<1> QED  BY <1>1, <1>3, <1>10, <1>12, <1>13, <1>15

\* A point that is centroid c and no other is assigned to c.
LEMMA CentroidAssigned ==
  ASSUME NEW cents \in Models, \A d, e \in Clusters : cents[d] = cents[e] => d = e,
         NEW c \in Clusters
  PROVE  AssignToCluster(cents, cents[c]) = c
<1> DEFINE v == cents[c]
           near(e) == \A d \in Clusters :
                        /\ SquaredL2[cents[e], v] <= SquaredL2[cents[d], v]
                        /\ d < e => SquaredL2[cents[e], v] < SquaredL2[cents[d], v]
           dist == [d \in Clusters |-> SquaredL2[cents[d], v]]
<1>1. \A d \in Clusters : cents[d] \in Coordinates
  BY DEF Models
<1>2. \A d \in Clusters : /\ SquaredL2[cents[d], v] \in Nat
                          /\ SquaredL2[cents[d], v] = 0 <=> cents[d] = v
  BY <1>1, PointsDiffer
<1>3. \A d \in Clusters : dist[d] \in Nat /\ (dist[d] = 0 <=> d = c)
  <2>1. \A d \in Clusters : dist[d] = SquaredL2[cents[d], v]
    OBVIOUS
  <2>2. \A d \in Clusters : cents[d] = v <=> d = c
    BY Zenon
  <2> HIDE DEF dist, v
  <2> QED  BY <1>2, <2>1, <2>2, Zenon
<1>4. \A e \in Clusters : near(e) <=> \A d \in Clusters :
                                         dist[e] <= dist[d] /\ (d < e => dist[e] < dist[d])
  <2>1. \A d \in Clusters : dist[d] = SquaredL2[cents[d], v]
    OBVIOUS
  <2> HIDE DEF dist, v
  <2> QED  BY <2>1, Zenon
<1>5. Clusters \in SUBSET Nat
  BY ModelsFacts
<1> HIDE DEF dist, near, v
<1>6. near(c)
  <2>1. ASSUME NEW d \in Clusters
        PROVE  dist[c] <= dist[d] /\ (d < c => dist[c] < dist[d])
    BY <1>3, <1>5
  <2> QED  BY <1>4, <2>1
<1>7. ASSUME NEW e \in Clusters, near(e)
      PROVE  e = c
  <2>1. dist[e] <= dist[c]
    BY <1>4, <1>7
  <2> QED  BY <1>3, <2>1
<1>8. AssignToCluster(cents, v) = CHOOSE e \in Clusters : near(e)
  BY Zenon DEF AssignToCluster, near
<1> QED  BY <1>6, <1>7, <1>8, Zenon DEF v

\* An iteration that moves nothing leaves no cluster empty, if there are as many
\* distinct points as clusters.
LEMMA SettledCovers ==
  ASSUME NEW ws \in Seq(Coordinates), ws # <<>>, NEW cents \in Models,
         LloydPass(ws, cents) = cents, Cardinality(Range(ws)) >= NClusters,
         NEW c \in Clusters
  PROVE  Members(cents, ws, c) # {}
<1> SUFFICES ASSUME Members(cents, ws, c) = {} PROVE FALSE
  OBVIOUS
<1> DEFINE n == Len(ws)
           far == Isolated(ws, cents)
<1>1. /\ NClusters \in Nat \ {0} /\ Clusters = 1..NClusters
      /\ cents \in Seq(Coordinates) /\ cents # <<>> /\ DOMAIN cents = Clusters
  BY ModelsFacts
<1>2. n \in Nat /\ DOMAIN ws = 1..n /\ \A i \in 1..n : ws[i] \in Coordinates
  BY SequenceOf
<1>3. cents[c] = ws[far]
  <2>1. cents[c] = MovesTo(ws, cents, cents, c)
    BY LloydPassFacts
  <2> QED  BY <2>1 DEF MovesTo
<1>4. /\ far \in 1..n
      /\ \A j \in 1..n : NearestSq(cents, ws[j]) <= NearestSq(cents, ws[far])
  BY <1>1, IsolatedFacts
<1> HIDE DEF far, n
<1>5. \A j \in 1..n : ws[j] \in Range(cents)
  <2>1. ws[far] \in Range(cents)
    <3>1. \A d \in Clusters : cents[d] \in Range(cents)
      BY <1>1 DEF Range
    <3> QED  BY <1>3, <3>1
  <2>2. \A j \in 1..n : /\ NearestSq(cents, ws[j]) \in Nat
                        /\ NearestSq(cents, ws[j]) = 0 <=> ws[j] \in Range(cents)
    BY <1>1, <1>2, NearestSqFacts
  <2>3. NearestSq(cents, ws[far]) = 0
    BY <1>4, <2>1, <2>2
  <2> TAKE j \in 1..n
  <2>4. NearestSq(cents, ws[j]) <= 0
    BY <1>4, <2>3, Zenon
  <2> QED  BY <2>2, <2>4
<1>6. Range(ws) \in SUBSET Range(cents)
  <2>1. Range(ws) = {ws[j] : j \in 1..n}
    BY <1>2, Zenon DEF Range
  <2> QED  BY <1>5, <2>1
<1>7. cents \in Surjection(Clusters, Range(cents))
  BY <1>1 DEF Surjection, Range, Models
<1>8. IsFiniteSet(Clusters) /\ Cardinality(Clusters) = NClusters
  BY <1>1, FS_Interval
<1>9. /\ IsFiniteSet(Range(cents)) /\ Cardinality(Range(cents)) <= NClusters
      /\ Cardinality(Range(cents)) = NClusters => cents \in Injection(Clusters, Range(cents))
  BY <1>7, <1>8, FS_Surjection
<1>10. /\ Cardinality(Range(ws)) <= Cardinality(Range(cents))
       /\ Cardinality(Range(ws)) \in Nat /\ Cardinality(Range(cents)) \in Nat
  BY <1>6, <1>9, FS_Subset, FS_CardinalityType
<1>11. Cardinality(Range(cents)) = NClusters
  BY <1>1, <1>9, <1>10
<1>12. \A d, e \in Clusters : cents[d] = cents[e] => d = e
  BY <1>9, <1>11 DEF Injection, IsInjective
<1>13. AssignToCluster(cents, ws[far]) = c
  BY <1>3, <1>12, CentroidAssigned
<1>14. far \in Members(cents, ws, c)
  BY <1>2, <1>4, <1>13 DEF Members
<1> QED  BY <1>14

-----------------------------------------------------------------------------
(* The distortion *)

\* Every point is assigned, to a cluster no other is nearer than.
LEMMA AssignedIsNearest ==
  ASSUME NEW cents \in Models, NEW v \in Coordinates
  PROVE  /\ AssignToCluster(cents, v) \in Clusters
         /\ NearestSq(cents, v) = SquaredL2[cents[AssignToCluster(cents, v)], v]
<1> DEFINE dist == [d \in Clusters |-> SquaredL2[cents[d], v]]
           T == {dist[d] : d \in Clusters}
           near(c) == \A d \in Clusters :
                        /\ SquaredL2[cents[c], v] <= SquaredL2[cents[d], v]
                        /\ d < c => SquaredL2[cents[c], v] < SquaredL2[cents[d], v]
<1>1. /\ NClusters \in Nat \ {0} /\ Clusters = 1..NClusters
      /\ cents \in Seq(Coordinates) /\ cents # <<>> /\ DOMAIN cents = Clusters
  BY ModelsFacts
<1>2. \A d \in Clusters : dist[d] = SquaredL2[cents[d], v] /\ dist[d] \in Nat
  <2>1. \A d \in Clusters : SquaredL2[cents[d], v] \in Nat
    BY PointsDiffer DEF Models
  <2> QED  BY <2>1
<1> HIDE DEF dist
<1>3. T \in SUBSET Nat /\ T # {}
  <2>1. 1 \in Clusters
    BY <1>1
  <2> QED  BY <1>2, <2>1
<1>4. PICK least \in T : \A m \in T : least <= m
  <2> HIDE DEF T
  <2> QED  BY <1>3, LeastNatural
<1>5. \A d \in Clusters : least <= dist[d]
  BY <1>4
<1> DEFINE nearest == {d \in Clusters : dist[d] = least}
<1>6. nearest \in SUBSET Nat /\ nearest # {}
  BY <1>1, <1>4
<1>7. PICK c \in nearest : \A d \in nearest : c <= d
  <2> HIDE DEF nearest
  <2> QED  BY <1>6, LeastNatural
<1>8. near(c) /\ c \in Clusters
  <2>1. ASSUME NEW d \in Clusters
        PROVE  dist[c] <= dist[d] /\ (d < c => dist[c] < dist[d])
    <3>1. dist[c] = least /\ least <= dist[d] /\ dist[d] \in Nat /\ least \in Nat
      BY <1>2, <1>5, <1>7
    <3>2. d < c => dist[d] # least
      <4>1. d \in Nat /\ c \in Nat
        BY <1>1, <1>6, <1>7
      <4> QED  BY <1>7, <4>1
    <3> HIDE DEF T, nearest
    <3> QED  BY <3>1, <3>2
  <2>2. c \in Clusters
    BY <1>7
  <2> HIDE DEF T, nearest
  <2> QED  BY <1>2, <2>1, <2>2, Zenon
<1> DEFINE a == AssignToCluster(cents, v)
<1>9. a \in Clusters /\ near(a)
  <2>1. a = CHOOSE e \in Clusters : near(e)
    BY Zenon DEF AssignToCluster
  <2> HIDE DEF near, a
  <2> QED  BY <1>8, <2>1, Zenon
<1>10. NearestSq(cents, v) = dist[a]
  <2> DEFINE U == {SquaredL2[cents[d], v] : d \in DOMAIN cents}
  <2>1. U = T
    <3> HIDE DEF a
    <3> QED  BY <1>1, <1>2
  <2>2. Min(T) \in T /\ \A m \in T : Min(T) <= m
    <3> HIDE DEF T
    <3> QED  BY <1>3, MinIsLeast
  <2>3. NearestSq(cents, v) = Min(T)
    BY <2>1, Zenon DEF NearestSq
  <2>4. dist[a] \in T
    BY <1>9
  <2>5. \A d \in Clusters : dist[a] <= dist[d]
    BY <1>2, <1>9, Zenon
  <2> HIDE DEF a, U
  <2>6. \A m \in T : dist[a] <= m
    BY <2>5
  <2> HIDE DEF T
  <2>7. Min(T) <= dist[a] /\ dist[a] <= Min(T) /\ Min(T) \in Nat /\ dist[a] \in Nat
    BY <1>3, <2>2, <2>4, <2>6
  <2> QED  BY <2>3, <2>7
<1> QED  BY <1>2, <1>9, <1>10, Zenon

\* The squared distances of points to p.
SquaresTo(ws, p) == [i \in DOMAIN ws |-> (p - ws[i]) * (p - ws[i])]

\* Points whose sum is their number times m are nowhere closer together than
\* from m.
LEMMA MeanIsBest ==
  ASSUME NEW n \in Nat, NEW ws \in [1..n -> Int], NEW I \in SUBSET (1..n),
         NEW m \in Int, m * Cardinality(I) = SumFunctionOnSet(ws, I), NEW p \in Int
  PROVE  SumFunctionOnSet(SquaresTo(ws, m), I) <= SumFunctionOnSet(SquaresTo(ws, p), I)
<1> DEFINE g == SquaresTo(ws, p)
           h == SquaresTo(ws, m)
           a == p * p - m * m
           b == 2 * (m - p)
           size == Cardinality(I)
<1>1. IsFiniteSet(1..n)
  BY FS_Interval
<1>2. size \in Nat
  BY <1>1, FS_Subset, FS_CardinalityType
<1>3. a \in Int /\ b \in Int
  OBVIOUS
<1>4. \A q \in Int : SquaresTo(ws, q) \in [1..n -> Int]
  <2>1. \A q \in Int, x \in Int : (q - x) * (q - x) \in Int
    OBVIOUS
  <2>2. \A i \in 1..n : ws[i] \in Int
    OBVIOUS
  <2> QED  BY <2>1, <2>2 DEF SquaresTo
<1>5. \A i \in 1..n : g[i] = h[i] + a + b * ws[i]
  <2> TAKE i \in 1..n
  <2>1. g[i] = (p - ws[i]) * (p - ws[i]) /\ h[i] = (m - ws[i]) * (m - ws[i]) /\ ws[i] \in Int
    BY DEF SquaresTo
  <2>2. \A x \in Int : (p - x) * (p - x) = (m - x) * (m - x) + (p * p - m * m) + (2 * (m - p)) * x
    BY SMT
  <2> HIDE DEF g, h
  <2> QED  BY <2>1, <2>2
<1>6. g \in [1..n -> Int] /\ h \in [1..n -> Int]
  BY <1>4
<1> HIDE DEF a, b, g, h
<1>7. SumFunctionOnSet(g, I) = SumFunctionOnSet(h, I) + a * size + b * SumFunctionOnSet(ws, I)
  <2>1. Combines(g, h, a, b, ws, I)
    BY <1>1, <1>3, <1>5, <1>6, SumLinear, Zenon
  <2> QED  BY <2>1, Zenon DEF Combines
<1>8. SumFunctionOnSet(h, I) \in Int
  BY <1>1, <1>6, SumType
<1>9. a * size + b * (m * size) = ((m - p) * (m - p)) * size
  <2> HIDE DEF size
  <2> QED  BY <1>2, SMT DEF a, b
<1>10. ((m - p) * (m - p)) * size \in Nat
  <2> DEFINE d == m - p
  <2>1. d \in Int
    OBVIOUS
  <2> HIDE DEF d
  <2>2. d * d \in Nat
    BY <2>1, SMT
  <2> DEFINE e == d * d
  <2> HIDE DEF size, e
  <2>3. e * size \in Nat
    BY <1>2, <2>2, SMT DEF e
  <2> QED  BY <2>3 DEF d, e
<1> DEFINE more == ((m - p) * (m - p)) * size
           sg == SumFunctionOnSet(g, I)
           sh == SumFunctionOnSet(h, I)
<1>11. a * size \in Int /\ b * (m * size) \in Int
  <2> HIDE DEF size
  <2> QED  BY <1>2, <1>3, SMT
<1>12. sg = sh + more
  <2> DEFINE u == a * size
             v == b * (m * size)
  <2>1. sg = sh + u + v /\ u + v = more /\ u \in Int /\ v \in Int
    BY <1>7, <1>9, <1>11
  <2> HIDE DEF u, v, sg, sh, more
  <2> QED  BY <1>8, <2>1 DEF sh
<1> HIDE DEF more
<1>13. more \in Nat
  BY <1>10 DEF more
<1> HIDE DEF sg, sh
<1>14. sh <= sg
  <2>1. sh \in Int
    BY <1>8 DEF sh
  <2> QED  BY <1>12, <1>13, <2>1
<1> QED  BY <1>14 DEF sg, sh, g, h

\* Points that their number divides have their sum divided by it.
LEMMA MeanIsExact ==
  ASSUME NEW ws \in Seq(Coordinates), NEW I \in SUBSET DOMAIN ws, I # {},
         \A i \in DOMAIN ws : ws[i] % Cardinality(I) = 0
  PROVE  Mean(ws, I) * Cardinality(I) = SumFunctionOnSet(ws, I)
<1> DEFINE n == Len(ws)
           size == Cardinality(I)
           parts == [i \in 1..n |-> ws[i] \div size]
           none == [i \in 1..n |-> 0]
<1>1. n \in Nat /\ DOMAIN ws = 1..n /\ ws \in [1..n -> Int] /\ I \in SUBSET (1..n)
  <2>1. Low \in Int /\ High \in Int
    BY KMeansAssumption, Zenon
  <2>2. \A x \in Coordinates : x \in Int
    BY <2>1 DEF Coordinates
  <2> QED  BY <2>2, SequenceOf
<1>2. IsFiniteSet(1..n)
  BY <1>1, FS_Interval
<1>3. size \in Nat \ {0}
  BY <1>1, <1>2, FS_Subset, FS_CardinalityType, FS_EmptySet
<1>4. \A i \in 1..n : ws[i] = size * parts[i] /\ parts[i] \in Int
  <2> TAKE i \in 1..n
  <2>1. ws[i] \in Int /\ ws[i] % size = 0
    BY <1>1
  <2> HIDE DEF size
  <2>2. \A x \in Int : x % size = 0 => x = size * (x \div size) /\ x \div size \in Int
    BY <1>3, SMT
  <2> QED  BY <2>1, <2>2
<1>5. parts \in [1..n -> Int] /\ none \in [1..n -> Int]
  BY <1>4
<1>6. \A i \in 1..n : none[i] = 0
  OBVIOUS
<1> HIDE DEF parts, none
<1>7. SumFunctionOnSet(none, I) = 0
  <2>1. /\ 0 * size <= SumFunctionOnSet(none, I)
        /\ SumFunctionOnSet(none, I) <= 0 * size
    <3>1. 0 \in Int /\ \A i \in 1..n : 0 <= none[i] /\ none[i] <= 0
      BY <1>6
    <3> HIDE DEF n
    <3> QED  BY <1>1, <1>2, <1>5, <3>1, SumBounded
  <2>2. SumFunctionOnSet(none, I) \in Int
    BY <1>1, <1>2, <1>5, SumType
  <2> HIDE DEF size
  <2> QED  BY <1>3, <2>1, <2>2
<1>8. SumFunctionOnSet(ws, I) =
        SumFunctionOnSet(none, I) + 0 * size + size * SumFunctionOnSet(parts, I)
  <2>1. \A i \in 1..n : ws[i] = none[i] + 0 + size * parts[i]
    BY <1>3, <1>4, <1>6
  <2>2. 0 \in Int /\ size \in Int
    BY <1>3
  <2> HIDE DEF n
  <2>3. Combines(ws, none, 0, size, parts, I)
    BY <1>1, <1>2, <1>5, <2>1, <2>2, SumLinear, Zenon
  <2> QED  BY <2>3, Zenon DEF Combines
<1> DEFINE share == SumFunctionOnSet(parts, I)
<1>9. share \in Int
  BY <1>1, <1>2, <1>5, SumType
<1>10. Mean(ws, I) = SumFunctionOnSet(ws, I) \div size
  BY Zenon DEF Mean
<1> HIDE DEF share, size
<1>11. SumFunctionOnSet(ws, I) = size * share
  BY <1>3, <1>7, <1>8, <1>9 DEF share
<1>12. (size * share) \div size = share
  BY <1>3, <1>9, SMT
<1>13. Mean(ws, I) * size = SumFunctionOnSet(ws, I)
  <2>1. share * size = size * share
    BY <1>3, <1>9, SMT
  <2> QED  BY <1>10, <1>11, <1>12, <2>1
<1> QED  BY <1>13 DEF size

\* The distances of the points to the centroids they are assigned to, were these
\* at to.
AssignedSq(ws, cents, to) ==
  [i \in DOMAIN ws |-> SquaredL2[to[AssignToCluster(cents, ws[i])], ws[i]]]

LEMMA AssignedSqIsNumber ==
  ASSUME NEW ws \in Seq(Coordinates), NEW cents \in Models, NEW to \in Models
  PROVE  AssignedSq(ws, cents, to) \in [1..Len(ws) -> Int]
<1>1. DOMAIN ws = 1..Len(ws) /\ \A i \in 1..Len(ws) : ws[i] \in Coordinates
  BY SequenceOf
<1>2. ASSUME NEW i \in 1..Len(ws)
      PROVE  SquaredL2[to[AssignToCluster(cents, ws[i])], ws[i]] \in Int
  <2>1. ws[i] \in Coordinates /\ AssignToCluster(cents, ws[i]) \in Clusters
    BY <1>1, AssignedIsNearest
  <2>2. to[AssignToCluster(cents, ws[i])] \in Coordinates
    BY <2>1 DEF Models
  <2>3. SquaredL2[to[AssignToCluster(cents, ws[i])], ws[i]] \in Nat
    BY <2>1, <2>2, PointsDiffer, Zenon
  <2>4. \A x \in Nat : x \in Int
    OBVIOUS
  <2> QED  BY <2>3, <2>4, Zenon
<1> QED  BY <1>1, <1>2 DEF AssignedSq

\* One iteration brings no cluster's points farther from their centroid: those
\* that have any are at the mean, and the recovered ones nobody's.
LEMMA ClusterImproves ==
  ASSUME NEW ws \in Seq(Coordinates), ws # <<>>, NEW cents \in Models,
         \A i \in DOMAIN ws : \A n \in 1..Len(ws) : ws[i] % n = 0,
         NEW c \in Clusters
  PROVE  SumFunctionOnSet(AssignedSq(ws, cents, LloydPass(ws, cents)), Members(cents, ws, c))
           <= SumFunctionOnSet(AssignedSq(ws, cents, cents), Members(cents, ws, c))
<1> DEFINE n == Len(ws)
           I == Members(cents, ws, c)
           new == LloydPass(ws, cents)
           sum(w) == SumFunctionOnSet(w, I)
<1>1. /\ n \in Nat /\ DOMAIN ws = 1..n /\ IsFiniteSet(1..n)
      /\ ws \in [1..n -> Int] /\ \A i \in 1..n : ws[i] \in Coordinates
  <2>1. Low \in Int /\ High \in Int
    BY KMeansAssumption, Zenon
  <2>2. \A x \in Coordinates : x \in Int
    BY <2>1 DEF Coordinates
  <2>3. n \in Nat /\ DOMAIN ws = 1..n /\ ws \in [1..n -> Coordinates]
    BY SequenceOf
  <2> QED  BY <2>2, <2>3, FS_Interval
<1>2. I \in SUBSET (1..n) /\ \A i \in I : AssignToCluster(cents, ws[i]) = c
  BY <1>1 DEF Members
<1>3. new \in Models
  BY LloydPassFacts
<1>4. \A to \in Models : AssignedSq(ws, cents, to) \in [1..n -> Int]
  BY AssignedSqIsNumber
<1>5. \A p \in Coordinates : p \in Int /\ SquaresTo(ws, p) \in [1..n -> Int]
  <2> TAKE p \in Coordinates
  <2>1. p \in Int
    <3>1. Low \in Int /\ High \in Int
      BY KMeansAssumption, Zenon
    <3> QED  BY <3>1 DEF Coordinates
  <2>2. \A x \in Int : (p - x) * (p - x) \in Int
    BY <2>1
  <2> QED  BY <1>1, <2>1, <2>2 DEF SquaresTo
<1>6. ASSUME NEW to \in Models, NEW i \in I
      PROVE  AssignedSq(ws, cents, to)[i] = SquaresTo(ws, to[c])[i]
  <2>1. i \in DOMAIN ws /\ ws[i] \in Coordinates /\ AssignToCluster(cents, ws[i]) = c
    BY <1>1, <1>2
  <2>2. to[c] \in Coordinates
    BY DEF Models
  <2>3. SquaredL2[to[c], ws[i]] = (to[c] - ws[i]) * (to[c] - ws[i])
    BY <2>1, <2>2, DistanceIsSquare
  <2> QED  BY <2>1, <2>3 DEF AssignedSq, SquaresTo
<1>7. ASSUME NEW to \in Models
      PROVE  sum(AssignedSq(ws, cents, to)) = sum(SquaresTo(ws, to[c]))
  <2> DEFINE w == AssignedSq(ws, cents, to)
             v == SquaresTo(ws, to[c])
  <2>1. w \in [1..n -> Int] /\ v \in [1..n -> Int]
    BY <1>4, <1>5 DEF Models
  <2>2. \A i \in I : w[i] <= v[i] /\ v[i] <= w[i]
    <3> TAKE i \in I
    <3>1. w[i] = v[i]
      BY <1>6
    <3>2. w[i] \in Int
      BY <1>2, <2>1
    <3> HIDE DEF w, v, I
    <3> QED  BY <3>1, <3>2
  <2> HIDE DEF w, v, I, n
  <2>3. sum(w) <= sum(v)
    BY <1>1, <1>2, <2>1, <2>2, SumMonotone
  <2>4. sum(v) <= sum(w)
    BY <1>1, <1>2, <2>1, <2>2, SumMonotone
  <2>5. sum(v) \in Int /\ sum(w) \in Int
    BY <1>1, <1>2, <2>1, SumType
  <2> HIDE DEF sum
  <2>6. sum(w) = sum(v)
    BY <2>3, <2>4, <2>5
  <2> QED  BY <2>6 DEF w, v
<1>8. CASE I = {}
  <2>1. sum(AssignedSq(ws, cents, new)) = 0 /\ sum(AssignedSq(ws, cents, cents)) = 0
    <3> HIDE DEF new, n, I
    <3> QED  BY <1>1, <1>3, <1>4, <1>8, SumEmpty
  <2> QED  BY <2>1
<1>9. CASE I # {}
  <2> DEFINE m == Mean(ws, I)
             size == Cardinality(I)
  <2>1. new[c] = m
    BY <1>9, LloydPassFacts
  <2>2. size \in 1..n
    <3>1. size \in Nat /\ size # 0 /\ size <= Cardinality(1..n)
      <4> HIDE DEF I, n
      <4> QED  BY <1>1, <1>2, <1>9, FS_Subset, FS_CardinalityType, FS_EmptySet
    <3>2. Cardinality(1..n) = n
      BY <1>1, FS_Interval
    <3> HIDE DEF size, n
    <3> QED  BY <1>1, <3>1, <3>2
  <2>3. m * size = SumFunctionOnSet(ws, I)
    <3>1. I \in SUBSET DOMAIN ws
      BY <1>1, <1>2
    <3>2. \A i \in DOMAIN ws : ws[i] % size = 0
      BY <2>2
    <3> HIDE DEF I
    <3> QED  BY <1>9, <3>1, <3>2, MeanIsExact
  <2>4. new[c] \in Int /\ cents[c] \in Int
    BY <1>3, <1>5 DEF Models
  <2> HIDE DEF m, size, new, I, n
  <2>5. SumFunctionOnSet(SquaresTo(ws, new[c]), I) <= SumFunctionOnSet(SquaresTo(ws, cents[c]), I)
    <3>1. new[c] * Cardinality(I) = SumFunctionOnSet(ws, I)
      BY <2>1, <2>3, Zenon DEF size
    <3> QED  BY <1>1, <1>2, <2>4, <3>1, MeanIsBest
  <2>6. sum(AssignedSq(ws, cents, new)) = sum(SquaresTo(ws, new[c]))
    BY <1>3, <1>7
  <2>7. sum(AssignedSq(ws, cents, cents)) = sum(SquaresTo(ws, cents[c]))
    BY <1>7
  <2> QED  BY <2>5, <2>6, <2>7 DEF new, I
<1> QED  BY <1>8, <1>9

\* One iteration does not raise the distortion.
LEMMA PassImproves ==
  ASSUME NEW ws \in Seq(Coordinates), ws # <<>>, NEW cents \in Models,
         \A i \in DOMAIN ws : \A n \in 1..Len(ws) : ws[i] % n = 0
  PROVE  Running(ws, LloydPass(ws, cents), Len(ws)) <= Running(ws, cents, Len(ws))
<1> DEFINE n == Len(ws)
           k == NClusters
           new == LloydPass(ws, cents)
           before == AssignedSq(ws, cents, cents)
           after == AssignedSq(ws, cents, new)
           upTo(c) == {i \in 1..n : AssignToCluster(cents, ws[i]) <= c}
           fine(c) == SumFunctionOnSet(after, upTo(c)) <= SumFunctionOnSet(before, upTo(c))
           reached == {c \in 0..k : fine(c)}
           nearest(model) == [j \in DOMAIN ws |-> NearestSq(model, ws[j])]
<1>1. /\ n \in Nat /\ DOMAIN ws = 1..n /\ IsFiniteSet(1..n)
      /\ \A i \in 1..n : ws[i] \in Coordinates
  BY SequenceOf, FS_Interval
<1>2. /\ k \in Nat \ {0} /\ Clusters = 1..k
      /\ \A model \in Models : /\ model \in Seq(Coordinates) /\ model # <<>>
                               /\ DOMAIN model = Clusters
  BY ModelsFacts
<1>3. new \in Models
  BY LloydPassFacts
<1>4. \A i \in 1..n : AssignToCluster(cents, ws[i]) \in Clusters
  BY <1>1, AssignedIsNearest
<1>5. \A to \in Models : AssignedSq(ws, cents, to) \in [1..n -> Int]
  BY AssignedSqIsNumber
<1>6. before \in [1..n -> Int] /\ after \in [1..n -> Int]
  BY <1>3, <1>5
<1>7. \A model \in Models : nearest(model) \in [1..n -> Int]
  <2> TAKE model \in Models
  <2>1. \A i \in 1..n : NearestSq(model, ws[i]) \in Int
    <3>1. \A i \in 1..n : NearestSq(model, ws[i]) \in Nat
      BY <1>1, <1>2, NearestSqFacts
    <3> QED  BY <3>1
  <2> QED  BY <1>1, <2>1
<1>8. \A i \in 1..n : nearest(cents)[i] = before[i]
  <2> TAKE i \in 1..n
  <2>1. NearestSq(cents, ws[i]) = SquaredL2[cents[AssignToCluster(cents, ws[i])], ws[i]]
    BY <1>1, AssignedIsNearest
  <2> QED  BY <1>1, <2>1 DEF AssignedSq
<1>9. \A i \in 1..n : nearest(new)[i] <= after[i]
  <2> TAKE i \in 1..n
  <2> DEFINE a == AssignToCluster(cents, ws[i])
  <2>1. a \in DOMAIN new /\ new \in Seq(Coordinates) /\ new # <<>> /\ ws[i] \in Coordinates
    BY <1>1, <1>2, <1>3, <1>4
  <2> HIDE DEF new, a
  <2>2. NearestSq(new, ws[i]) <= SquaredL2[new[a], ws[i]]
    BY <2>1, NearestSqFacts
  <2>3. nearest(new)[i] = NearestSq(new, ws[i]) /\ after[i] = SquaredL2[new[a], ws[i]]
    BY <1>1 DEF AssignedSq, a
  <2> HIDE DEF nearest, after
  <2> QED  BY <2>2, <2>3, Zenon
<1>10. ASSUME NEW c \in 1..k
       PROVE  /\ upTo(c) = upTo(c - 1) \cup Members(cents, ws, c)
              /\ upTo(c - 1) \cap Members(cents, ws, c) = {}
              /\ upTo(c - 1) \in SUBSET (1..n) /\ Members(cents, ws, c) \in SUBSET (1..n)
              /\ c \in Clusters
  <2>1. \A i \in 1..n : AssignToCluster(cents, ws[i]) \in Nat
    BY <1>2, <1>4
  <2>2. \A a \in Nat : /\ a <= c <=> a <= c - 1 \/ a = c
                       /\ ~(a <= c - 1 /\ a = c)
    OBVIOUS
  <2>3. Members(cents, ws, c) = {i \in 1..n : AssignToCluster(cents, ws[i]) = c}
    BY <1>1, Zenon DEF Members
  <2> HIDE DEF n
  <2> QED  BY <1>2, <2>1, <2>2, <2>3
<1>11. fine(0)
  <2>1. upTo(0) = {}
    <3>1. \A i \in 1..n : ~(AssignToCluster(cents, ws[i]) <= 0)
      BY <1>2, <1>4
    <3> QED  BY <3>1
  <2> HIDE DEF upTo, before, after, n
  <2>2. SumFunctionOnSet(after, {}) = 0 /\ SumFunctionOnSet(before, {}) = 0
    BY <1>1, <1>6, SumEmpty
  <2>3. 0 <= 0
    OBVIOUS
  <2> QED  BY <2>1, <2>2, <2>3, Zenon
<1>12. ASSUME NEW c \in 1..k, c - 1 \in reached
       PROVE  fine(c)
  <2> DEFINE A == upTo(c - 1)
             B == Members(cents, ws, c)
             sum(w, X) == SumFunctionOnSet(w, X)
  <2>1. sum(after, A) <= sum(before, A)
    BY <1>12
  <2>2. sum(after, B) <= sum(before, B)
    BY <1>10, ClusterImproves
  <2>3. A \in SUBSET (1..n) /\ B \in SUBSET (1..n) /\ A \cap B = {} /\ upTo(c) = A \cup B
    BY <1>10
  <2> HIDE DEF A, B, before, after, n, upTo
  <2>4. ASSUME NEW w \in [1..n -> Int]
        PROVE  /\ sum(w, A \cup B) = sum(w, A) + sum(w, B)
               /\ sum(w, A) \in Int /\ sum(w, B) \in Int
    <3>1. sum(w, A \cup B) = sum(w, A) + sum(w, B)
      <4>1. Joins(w, A, B)
        BY <1>1, <2>3, SumUnion, Zenon
      <4> QED  BY <4>1 DEF Joins
    <3>2. sum(w, A) \in Int /\ sum(w, B) \in Int
      BY <1>1, <2>3, SumType
    <3> QED  BY <3>1, <3>2
  <2> HIDE DEF sum
  <2>5. sum(after, A \cup B) <= sum(before, A \cup B)
    <3>1. /\ sum(after, A \cup B) = sum(after, A) + sum(after, B)
          /\ sum(after, A) \in Int /\ sum(after, B) \in Int
      BY <1>6, <2>4, Zenon
    <3>2. /\ sum(before, A \cup B) = sum(before, A) + sum(before, B)
          /\ sum(before, A) \in Int /\ sum(before, B) \in Int
      BY <1>6, <2>4, Zenon
    <3> QED  BY <2>1, <2>2, <3>1, <3>2
  <2> QED  BY <2>3, <2>5 DEF sum
<1>13. fine(k)
  <2>1. 0 \in reached
    <3> HIDE DEF fine
    <3> QED  BY <1>2, <1>11
  <2>2. \A c \in 1..k : c - 1 \in reached => c \in reached
    <3> TAKE c \in 1..k
    <3>1. c \in 0..k
      BY <1>2
    <3> HIDE DEF fine
    <3> QED  BY <1>12, <3>1
  <2>3. k \in reached
    <3>1. k \in Nat /\ k \in 0..k
      BY <1>2
    <3> HIDE DEF reached, k
    <3> QED  BY <2>1, <2>2, <3>1, UpTo
  <2> HIDE DEF fine
  <2> QED  BY <2>3
<1>14. upTo(k) = 1..n
  <2>1. \A i \in 1..n : AssignToCluster(cents, ws[i]) <= k
    BY <1>2, <1>4
  <2> QED  BY <2>1
<1> DEFINE sum(w) == SumFunctionOnSet(w, 1..n)
<1>15. sum(after) <= sum(before)
  BY <1>13, <1>14
<1>16. Running(ws, new, n) = sum(nearest(new)) /\ Running(ws, cents, n) = sum(nearest(cents))
  BY DEF Running
<1> HIDE DEF before, after, nearest, n, new
<1>17. 1..n \in SUBSET (1..n)
  OBVIOUS
<1>18. sum(nearest(new)) <= sum(after)
  BY <1>1, <1>3, <1>6, <1>7, <1>9, <1>17, SumMonotone
<1>19. sum(before) <= sum(nearest(cents))
  <2>1. \A i \in 1..n : before[i] <= nearest(cents)[i]
    <3>1. \A i \in 1..n : before[i] \in Int
      BY <1>6
    <3> QED  BY <1>8, <3>1
  <2> QED  BY <1>1, <1>6, <1>7, <1>17, <2>1, SumMonotone
<1>20. /\ sum(nearest(new)) \in Int /\ sum(after) \in Int
       /\ sum(before) \in Int /\ sum(nearest(cents)) \in Int
  BY <1>1, <1>3, <1>6, <1>7, <1>17, SumType
<1> HIDE DEF sum
<1>21. Running(ws, new, n) <= Running(ws, cents, n)
  BY <1>15, <1>16, <1>18, <1>19, <1>20
<1> QED  BY <1>21 DEF n, new

-----------------------------------------------------------------------------
(* What train_kmeans returns *)

\* One more seed.
LEMMA SeedAppended ==
  ASSUME NEW ws \in Seq(Coordinates), ws # <<>>, NEW cents \in Seq(Coordinates),
         NEW d \in 0..(Resolution - 1)
  PROVE  /\ Append(cents, NextSeed(ws, cents, d)) \in Seq(Coordinates)
         /\ Len(Append(cents, NextSeed(ws, cents, d))) = Len(cents) + 1
<1>1. NextSeed(ws, cents, d) \in Range(ws)
  BY NextSeedFacts
<1>2. NextSeed(ws, cents, d) \in Coordinates
  BY <1>1, SequenceOf DEF Range
<1> QED  BY <1>2, AppendProperties

\* k-means++ draws one seed for each cluster.
LEMMA SeedsModel ==
  ASSUME NEW ws \in Seq(Coordinates), ws # <<>>,
         NEW draws \in [1..NClusters -> 0..(Resolution - 1)]
  PROVE  KMeansPlusPlus(ws, draws) \in Models
<1> DEFINE len == NClusters
           turn(g, k) == IF k = 0 THEN <<>>
                         ELSE Append(g[k - 1], NextSeed(ws, g[k - 1], draws[k]))
           D == Seq(Coordinates)
           step == [x \in D \X (1..len) |-> Append(x[1], NextSeed(ws, x[1], draws[x[2]]))]
           p == CHOOSE g : g = [k \in 0..len |-> turn(g, k)]
           reached == {m \in 0..len : p[m] \in D /\ Len(p[m]) = m}
<1>1. len \in Nat /\ 0 \in 0..len /\ len \in 0..len
  BY ModelsFacts
<1>2. KMeansPlusPlus(ws, draws) = p[len]
  BY Zenon DEF KMeansPlusPlus
<1>3. ASSUME NEW g \in D, NEW k \in 1..len
      PROVE  /\ Append(g, NextSeed(ws, g, draws[k])) \in D
             /\ Len(Append(g, NextSeed(ws, g, draws[k]))) = Len(g) + 1
  <2>1. draws[k] \in 0..(Resolution - 1)
    OBVIOUS
  <2> QED  BY <2>1, SeedAppended
<1>4. <<>> \in D /\ Len(<<>>) = 0
  BY EmptySeq
<1>5. \E g : g = [k \in 0..len |-> turn(g, k)]
  <2>1. step \in [D \X (1..len) -> D]
    <3> HIDE DEF D, len
    <3> QED  BY <1>3
  <2>2. PICK g : Computed(g, D, <<>>, len, step)
    <3> HIDE DEF step, len, D
    <3> QED  BY <1>1, <1>4, <2>1, StepByStep
  <2>3. ASSUME NEW k \in 0..len
        PROVE  g[k] = turn(g, k)
    <3>1. CASE k = 0
      <4>1. g[0] = <<>>
        BY <2>2, Zenon DEF Computed
      <4> QED  BY <3>1, <4>1, Zenon
    <3>2. CASE k # 0
      <4>1. k \in 1..len /\ k - 1 \in 0..len
        BY <1>1, <3>2
      <4>2. g[k - 1] \in D /\ g[k] = step[<<g[k - 1], k>>]
        <5> HIDE DEF step, len, D
        <5> QED  BY <2>2, <4>1 DEF Computed
      <4>3. step[<<g[k - 1], k>>] = Append(g[k - 1], NextSeed(ws, g[k - 1], draws[k]))
        <5> HIDE DEF D, len
        <5> QED  BY <4>1, <4>2
      <4> QED  BY <3>2, <4>2, <4>3, Zenon
    <3> QED  BY <3>1, <3>2
  <2>4. g = [k \in 0..len |-> g[k]]
    BY <2>2, Zenon DEF Computed
  <2> HIDE DEF turn
  <2> QED  BY <2>3, <2>4
<1>6. \A k \in 0..len : p[k] = turn(p, k)
  <2> HIDE DEF turn
  <2>1. p = [k \in 0..len |-> turn(p, k)]
    BY <1>5, Zenon
  <2> HIDE DEF p
  <2> QED  BY <2>1
<1> HIDE DEF p
<1>7. 0 \in reached
  <2>1. p[0] = turn(p, 0)
    <3> HIDE DEF turn, len
    <3> QED  BY <1>1, <1>6, Zenon
  <2>2. p[0] = <<>>
    BY <2>1, Zenon
  <2> HIDE DEF D
  <2> QED  BY <1>1, <1>4, <2>2
<1>8. ASSUME NEW m \in 1..len, m - 1 \in reached
      PROVE  m \in reached
  <2>1. m \in 0..len /\ m # 0
    BY <1>1
  <2>2. p[m - 1] \in D /\ Len(p[m - 1]) = m - 1
    BY <1>8
  <2>3. p[m] = Append(p[m - 1], NextSeed(ws, p[m - 1], draws[m]))
    <3> HIDE DEF len
    <3> QED  BY <1>6, <2>1
  <2>4. p[m] \in D /\ Len(p[m]) = m - 1 + 1
    <3> HIDE DEF D, len
    <3> QED  BY <1>3, <2>2, <2>3
  <2>5. m - 1 + 1 = m
    BY <1>1
  <2> HIDE DEF D, len
  <2> QED  BY <2>1, <2>4, <2>5
<1>9. p[len] \in D /\ Len(p[len]) = len
  <2>1. len \in reached
    <3> HIDE DEF reached, len
    <3> QED  BY <1>1, <1>7, <1>8, UpTo
  <2> QED  BY <2>1
<1> QED  BY <1>2, <1>9, ModelsFacts

\* The iterations make a model of a model.
LEMMA LloydModel ==
  ASSUME NEW ws \in Seq(Coordinates), ws # <<>>, NEW seeds \in Models
  PROVE  Lloyd(ws, seeds) \in Models
<1> DEFINE len == MaxIters
           D == [cents : Models, settled : BOOLEAN]
           start == [cents |-> seeds, settled |-> FALSE]
           moved(r) == LloydPass(ws, r.cents)
           next(r) == IF r.settled THEN r
                      ELSE [cents |-> moved(r), settled |-> Converged(r.cents, moved(r))]
           turn(g, n) == IF n = 0 THEN start ELSE next(g[n - 1])
           step == [x \in D \X (1..len) |-> next(x[1])]
           p == CHOOSE g : g = [n \in 0..len |-> turn(g, n)]
           reached == {m \in 0..len : p[m] \in D}
<1>1. len \in Nat /\ 0 \in 0..len /\ len \in 0..len
  <2>1. MaxIters \in Nat
    BY KMeansAssumption, Zenon
  <2> QED  BY <2>1
<1>2. Lloyd(ws, seeds) = p[len].cents
  BY Zenon DEF Lloyd
<1>3. start \in D /\ \A r \in D : next(r) \in D
  <2>1. start \in D
    OBVIOUS
  <2>2. ASSUME NEW r \in D
        PROVE  next(r) \in D
    <3>1. r.cents \in Models
      BY <2>2
    <3>2. moved(r) \in Models /\ Converged(r.cents, moved(r)) \in BOOLEAN
      BY <3>1, LloydPassFacts DEF Converged
    <3> HIDE DEF moved
    <3>3. [cents |-> moved(r), settled |-> Converged(r.cents, moved(r))] \in D
      BY <3>2
    <3> QED  BY <2>2, <3>3
  <2> QED  BY <2>1, <2>2
<1> HIDE DEF next, start
<1>4. \E g : g = [n \in 0..len |-> turn(g, n)]
  <2>1. step \in [D \X (1..len) -> D]
    <3> HIDE DEF D, len
    <3> QED  BY <1>3
  <2>2. PICK g : Computed(g, D, start, len, step)
    <3> HIDE DEF step, len, D
    <3> QED  BY <1>1, <1>3, <2>1, StepByStep
  <2>3. ASSUME NEW n \in 0..len
        PROVE  g[n] = turn(g, n)
    <3>1. CASE n = 0
      <4>1. g[0] = start
        BY <2>2, Zenon DEF Computed
      <4> QED  BY <3>1, <4>1, Zenon
    <3>2. CASE n # 0
      <4>1. n \in 1..len /\ n - 1 \in 0..len
        BY <1>1, <3>2
      <4>2. g[n - 1] \in D /\ g[n] = step[<<g[n - 1], n>>]
        <5> HIDE DEF step, len, D
        <5> QED  BY <2>2, <4>1 DEF Computed
      <4>3. step[<<g[n - 1], n>>] = next(g[n - 1])
        <5> HIDE DEF D, len
        <5> QED  BY <4>1, <4>2
      <4> QED  BY <3>2, <4>2, <4>3, Zenon
    <3> QED  BY <3>1, <3>2
  <2>4. g = [n \in 0..len |-> g[n]]
    BY <2>2, Zenon DEF Computed
  <2> HIDE DEF turn
  <2> QED  BY <2>3, <2>4
<1>5. \A n \in 0..len : p[n] = turn(p, n)
  <2> HIDE DEF turn
  <2>1. p = [n \in 0..len |-> turn(p, n)]
    BY <1>4, Zenon
  <2> HIDE DEF p
  <2> QED  BY <2>1
<1> HIDE DEF p
<1>6. 0 \in reached
  <2>1. p[0] = turn(p, 0)
    <3> HIDE DEF turn, len
    <3> QED  BY <1>1, <1>5, Zenon
  <2>2. p[0] = start
    BY <2>1, Zenon
  <2> QED  BY <1>1, <1>3, <2>2
<1>7. ASSUME NEW m \in 1..len, m - 1 \in reached
      PROVE  m \in reached
  <2>1. m \in 0..len /\ m # 0
    BY <1>1
  <2>2. p[m] = next(p[m - 1])
    <3> HIDE DEF len
    <3> QED  BY <1>5, <2>1
  <2> HIDE DEF len, D
  <2> QED  BY <1>3, <1>7, <2>1, <2>2
<1>8. len \in reached
  <2> HIDE DEF reached, len
  <2> QED  BY <1>1, <1>6, <1>7, UpTo
<1>9. p[len] \in D
  BY <1>8
<1> QED  BY <1>2, <1>9

\* train_kmeans returns as many centroids as there are clusters, points all of
\* them, for every working set and every draw; the cap selects vectors of the
\* sample (train.rs train_kmeans).  It is what an index assumes of its trainer.
THEOREM TrainerDelivers ==
  /\ \A ws \in Seq(Coordinates), draws \in [1..NClusters -> 0..(Resolution - 1)] :
       ws # <<>> => TrainKMeans(ws, draws) \in [Clusters -> Coordinates]
  /\ \A n \in Nat : \A draws \in SubsampleDraws(n) :
       TrainingSampleSize < n =>
         SubsampleIndices(n, draws) \in [1..TrainingSampleSize -> 1..n]
<1>1. ASSUME NEW ws \in Seq(Coordinates), NEW draws \in [1..NClusters -> 0..(Resolution - 1)],
             ws # <<>>
      PROVE  TrainKMeans(ws, draws) \in [Clusters -> Coordinates]
  <2>1. KMeansPlusPlus(ws, draws) \in Models
    BY <1>1, SeedsModel
  <2>2. Lloyd(ws, KMeansPlusPlus(ws, draws)) \in Models
    BY <1>1, <2>1, LloydModel
  <2> QED  BY <2>2 DEF TrainKMeans, Models
<1>2. ASSUME NEW n \in Nat, NEW draws \in SubsampleDraws(n),
             TrainingSampleSize < n
      PROVE  SubsampleIndices(n, draws) \in [1..TrainingSampleSize -> 1..n]
  BY <1>2, SubsampleIndicesFacts
<1> QED  BY <1>1, <1>2

-----------------------------------------------------------------------------
(* A pass that converges *)

LEMMA AbsFacts ==
  /\ \A x \in Int : Abs(x) \in Nat /\ Abs(x) = Abs(-x) /\ Abs(x) * Abs(x) = x * x
  /\ \A x, y, z \in Int : Abs(x - z) <= Abs(x - y) + Abs(y - z)
  /\ Abs(0) = 0
BY DEF Abs

LEMMA SquareOrder ==
  ASSUME NEW x \in Int, NEW y \in Int, x * x <= y * y
  PROVE  Abs(x) <= Abs(y)
<1> DEFINE a == Abs(x)
           b == Abs(y)
<1>1. a \in Nat /\ b \in Nat /\ a * a <= b * b
  BY AbsFacts
<1> HIDE DEF a, b
<1> SUFFICES ASSUME b < a PROVE FALSE
  BY <1>1 DEF a, b
<1>2. PICK d \in Nat : a = b + 1 + d
  <2>1. a - (b + 1) \in Nat /\ a = b + 1 + (a - (b + 1))
    BY <1>1
  <2> QED  BY <2>1
<1>3. a * a = b * b + (2 * b * (1 + d) + (1 + d) * (1 + d))
  BY <1>1, <1>2
<1>4. b * (1 + d) \in Nat /\ (1 + d) * (1 + d) \in Nat /\ (1 + d) * (1 + d) >= 1
  <2>1. (1 + d) * (1 + d) = 1 + 2 * d + d * d /\ d * d \in Nat
    BY <1>2
  <2> QED  BY <1>1, <1>2, <2>1
<1> QED  BY <1>1, <1>3, <1>4

\* k times what is at most a sum is less than the sum of what k times its terms
\* are less than.
LEMMA Scaled ==
  ASSUME NEW k \in Nat, NEW x \in Int, NEW a \in Int, NEW b \in Int, x <= a + b,
         NEW e \in Int, NEW f \in Int, k * a < e, k * b < f
  PROVE  k * x < e + f
<1>1. PICK d \in Nat : a + b = x + d
  <2>1. a + b - x \in Nat /\ a + b = x + (a + b - x)
    OBVIOUS
  <2> QED  BY <2>1
<1>2. k * (a + b) = k * a + k * b /\ k * (x + d) = k * x + k * d
  OBVIOUS
<1>3. k * d \in Nat /\ k * x \in Int /\ k * a \in Int /\ k * b \in Int
  OBVIOUS
<1> QED  BY <1>1, <1>2, <1>3

\* The shift of each centroid of a pass that converges is below the tolerance.
LEMMA ShiftsBelow ==
  ASSUME NEW old \in Models, NEW new \in Models, Converged(old, new), NEW c \in Clusters
  PROVE  /\ old[c] \in Int /\ new[c] \in Int
         /\ Extent(old[c]) \in Nat \ {0}
         /\ ToleranceInverse \in Nat
         /\ ToleranceInverse * Abs(old[c] - new[c]) < Extent(old[c])
         /\ ToleranceInverse * Abs(new[c] - old[c]) < Extent(old[c])
<1>1. old[c] \in Int /\ new[c] \in Int
  BY CoordinatesAreIntegers DEF Models
<1>2. One \in Nat \ {0} /\ ToleranceInverse \in Nat \ {0}
  BY KMeansAssumption, Zenon
<1>3. Extent(old[c]) \in Nat \ {0}
  <2>1. Abs(old[c]) \in Nat
    BY <1>1, AbsFacts
  <2> QED  BY <1>2, <2>1 DEF Extent
<1>4. ToleranceInverse * Abs(old[c] - new[c]) < Extent(old[c])
  BY DEF Converged, BelowTolerance
<1>5. Abs(old[c] - new[c]) = Abs(new[c] - old[c])
  BY <1>1 DEF Abs
<1> QED  BY <1>1, <1>2, <1>3, <1>4, <1>5

\* A cluster with members keeps one to which no centroid is nearer.
LEMMA PassKeepsNearest ==
  ASSUME NEW ws \in Seq(Coordinates), ws # <<>>, NEW old \in Models,
         Converged(old, LloydPass(ws, old)),
         NEW c \in Clusters, Members(old, ws, c) # {}
  PROVE  \E v \in Range(ws) : \A d \in Clusters :
           ToleranceInverse * (Abs(LloydPass(ws, old)[c] - v) - Abs(LloydPass(ws, old)[d] - v))
             < Extent(old[c]) + Extent(old[d])
<1> DEFINE new == LloydPass(ws, old)
<1>1. new \in Models
  BY LloydPassFacts
<1>2. PICK i \in DOMAIN ws : AssignToCluster(old, ws[i]) = c
  BY DEF Members
<1> DEFINE v == ws[i]
<1>3. v \in Range(ws) /\ v \in Coordinates /\ v \in Int
  <2>1. v \in Coordinates
    BY SequenceOf
  <2> QED  BY <2>1, CoordinatesAreIntegers DEF Range
<1>4. NearestSq(old, v) = SquaredL2[old[c], v]
  BY <1>2, <1>3, AssignedIsNearest
<1> HIDE DEF new, v
<1>5. ASSUME NEW d \in Clusters
      PROVE  ToleranceInverse * (Abs(new[c] - v) - Abs(new[d] - v))
               < Extent(old[c]) + Extent(old[d])
  <2>1. /\ old \in Seq(Coordinates) /\ old # <<>> /\ d \in DOMAIN old
        /\ old[c] \in Coordinates /\ old[d] \in Coordinates
    BY ModelsFacts DEF Models
  <2>2. NearestSq(old, v) <= SquaredL2[old[d], v]
    BY <1>3, <2>1, NearestSqFacts
  <2>3. old[c] \in Int /\ old[d] \in Int /\ new[c] \in Int /\ new[d] \in Int
    BY <1>1, <2>1, CoordinatesAreIntegers DEF Models
  <2>4. (old[c] - v) * (old[c] - v) <= (old[d] - v) * (old[d] - v)
    BY <1>3, <1>4, <2>1, <2>2, DistanceIsSquare
  <2>5. Abs(old[c] - v) <= Abs(old[d] - v)
    <3>1. old[c] - v \in Int /\ old[d] - v \in Int
      BY <1>3, <2>3
    <3> QED  BY <2>4, <3>1, SquareOrder
  <2>6. /\ Abs(new[c] - v) <= Abs(new[c] - old[c]) + Abs(old[c] - v)
        /\ Abs(old[d] - v) <= Abs(old[d] - new[d]) + Abs(new[d] - v)
    BY <1>3, <2>3, AbsFacts
  <2>7. /\ Abs(new[c] - v) \in Nat /\ Abs(new[d] - v) \in Nat
        /\ Abs(new[c] - old[c]) \in Nat /\ Abs(old[d] - new[d]) \in Nat
        /\ Abs(old[c] - v) \in Nat /\ Abs(old[d] - v) \in Nat
    <3>1. /\ new[c] - v \in Int /\ new[d] - v \in Int /\ new[c] - old[c] \in Int
          /\ old[d] - new[d] \in Int /\ old[c] - v \in Int /\ old[d] - v \in Int
      BY <1>3, <2>3
    <3> QED  BY <3>1, AbsFacts
  <2>8. /\ Abs(new[c] - v) - Abs(new[d] - v) <= Abs(new[c] - old[c]) + Abs(old[d] - new[d])
        /\ Abs(new[c] - v) - Abs(new[d] - v) \in Int
    BY <2>5, <2>6, <2>7
  <2>9. /\ Extent(old[c]) \in Nat /\ Extent(old[d]) \in Nat /\ ToleranceInverse \in Nat
        /\ ToleranceInverse * Abs(new[c] - old[c]) < Extent(old[c])
        /\ ToleranceInverse * Abs(old[d] - new[d]) < Extent(old[d])
    BY <1>1, ShiftsBelow DEF new
  <2>10. \A n \in Nat : n \in Int
    OBVIOUS
  <2> QED  BY <2>7, <2>8, <2>9, <2>10, Scaled
<1> QED  BY <1>3, <1>5 DEF new

\* An empty cluster is moved onto a point, and if by less than the tolerance then
\* because every point is where some centroid is.
LEMMA PassCovers ==
  ASSUME NEW ws \in Seq(Coordinates), ws # <<>>, NEW old \in Models,
         Converged(old, LloydPass(ws, old)),
         NEW c \in Clusters, Members(old, ws, c) = {}
  PROVE  /\ \E v \in Range(ws) : \A d \in Clusters :
              ToleranceInverse * (Abs(LloydPass(ws, old)[c] - v) - Abs(LloydPass(ws, old)[d] - v))
                < Extent(old[c]) + Extent(old[d])
         /\ \A v \in Range(ws) : \E d \in Clusters :
              ToleranceInverse * Abs(LloydPass(ws, old)[d] - v)
                < Extent(old[c]) + Extent(old[d])
<1> DEFINE new == LloydPass(ws, old)
<1>1. new \in Models
  BY LloydPassFacts
<1>2. PICK mid \in Models :
        /\ mid[c] = old[c]
        /\ new[c] = ws[Isolated(ws, mid)]
        /\ \A d \in Clusters : mid[d] \in {old[d], new[d]}
  BY LloydPassFacts
<1> DEFINE far == Isolated(ws, mid)
<1>3. mid \in Seq(Coordinates) /\ mid # <<>> /\ DOMAIN mid = Clusters
  BY ModelsFacts
<1>4. /\ far \in 1..Len(ws)
      /\ \A j \in 1..Len(ws) : NearestSq(mid, ws[j]) <= NearestSq(mid, ws[far])
  BY <1>3, IsolatedFacts
<1>5. DOMAIN ws = 1..Len(ws) /\ \A j \in 1..Len(ws) : ws[j] \in Coordinates
  BY SequenceOf
<1> HIDE DEF new, far
<1>6. \A d \in Clusters : /\ old[d] \in Int /\ new[d] \in Int /\ mid[d] \in Int
                          /\ old[d] \in Coordinates /\ new[d] \in Coordinates
                          /\ mid[d] \in Coordinates
  BY <1>1, CoordinatesAreIntegers DEF Models
<1>7. \A d \in Clusters :
        /\ Extent(old[d]) \in Nat \ {0} /\ ToleranceInverse \in Nat
        /\ ToleranceInverse * Abs(old[d] - new[d]) < Extent(old[d])
        /\ ToleranceInverse * Abs(new[d] - old[d]) < Extent(old[d])
  BY <1>1, ShiftsBelow DEF new
<1>8. ws[far] \in Range(ws) /\ ws[far] = new[c]
  BY <1>2, <1>4, <1>5 DEF Range, far
<1>9. ASSUME NEW d \in Clusters
      PROVE  ToleranceInverse * (Abs(new[c] - ws[far]) - Abs(new[d] - ws[far]))
               < Extent(old[c]) + Extent(old[d])
  <2>1. new[c] - ws[far] = 0 /\ new[d] - ws[far] \in Int
    BY <1>6, <1>8
  <2>2. Abs(new[c] - ws[far]) = 0 /\ Abs(new[d] - ws[far]) \in Nat
    BY <2>1, AbsFacts
  <2> DEFINE a == Abs(new[d] - ws[far])
  <2>3. ToleranceInverse * (0 - a) = 0 - ToleranceInverse * a /\ ToleranceInverse * a \in Nat
    BY <1>7, <2>2
  <2>4. Extent(old[c]) \in Nat \ {0} /\ Extent(old[d]) \in Nat \ {0}
    BY <1>7
  <2>5. ToleranceInverse * (0 - a) < Extent(old[c]) + Extent(old[d])
    <3> HIDE DEF a
    <3> QED  BY <2>3, <2>4
  <2> QED  BY <2>2, <2>5
<1>10. ASSUME NEW v \in Range(ws)
       PROVE  \E d \in Clusters :
                ToleranceInverse * Abs(new[d] - v) < Extent(old[c]) + Extent(old[d])
  <2>1. PICK j \in 1..Len(ws) : v = ws[j]
    BY <1>5 DEF Range
  <2>2. v \in Coordinates /\ v \in Int
    BY <1>5, <2>1, CoordinatesAreIntegers
  <2>3. PICK d \in Clusters : NearestSq(mid, v) = SquaredL2[mid[d], v]
    BY <2>2, AssignedIsNearest
  <2>4. NearestSq(mid, v) <= NearestSq(mid, ws[far])
    BY <1>4, <2>1
  <2>5. NearestSq(mid, ws[far]) <= SquaredL2[mid[c], ws[far]]
    BY <1>3, <1>4, <1>5, NearestSqFacts
  <2>6. ws[far] \in Coordinates /\ NearestSq(mid, v) \in Nat /\ NearestSq(mid, ws[far]) \in Nat
    BY <1>3, <1>4, <1>5, <2>2, NearestSqFacts
  <2>7. /\ SquaredL2[mid[d], v] = (mid[d] - v) * (mid[d] - v)
        /\ SquaredL2[mid[c], ws[far]] = (old[c] - new[c]) * (old[c] - new[c])
    <3>1. SquaredL2[mid[d], v] = (mid[d] - v) * (mid[d] - v)
      BY <1>6, <2>2, DistanceIsSquare, Zenon
    <3>2. SquaredL2[mid[c], ws[far]] = (mid[c] - ws[far]) * (mid[c] - ws[far])
      BY <1>6, <2>6, DistanceIsSquare, Zenon
    <3> QED  BY <1>2, <1>8, <3>1, <3>2, Zenon
  <2>8. (mid[d] - v) * (mid[d] - v) <= (old[c] - new[c]) * (old[c] - new[c])
    <3>1. (old[c] - new[c]) * (old[c] - new[c]) \in Int
      BY <1>6
    <3>2. NearestSq(mid, v) = (mid[d] - v) * (mid[d] - v)
      BY <2>3, <2>7, Zenon
    <3>3. NearestSq(mid, ws[far]) <= (old[c] - new[c]) * (old[c] - new[c])
      BY <2>5, <2>7, Zenon
    <3> QED  BY <2>4, <2>6, <3>1, <3>2, <3>3
  <2>9. Abs(mid[d] - v) <= Abs(old[c] - new[c])
    <3>1. mid[d] - v \in Int /\ old[c] - new[c] \in Int
      BY <1>6, <2>2
    <3> QED  BY <2>8, <3>1, SquareOrder
  <2> DEFINE near == Abs(mid[d] - v)
             shift == Abs(old[c] - new[c])
             moved == Abs(new[d] - old[d])
             apart == Abs(new[d] - v)
  <2>10. near \in Nat /\ shift \in Nat /\ moved \in Nat /\ apart \in Nat
    <3>1. /\ mid[d] - v \in Int /\ old[c] - new[c] \in Int /\ new[d] - old[d] \in Int
          /\ new[d] - v \in Int
      BY <1>6, <2>2
    <3> QED  BY <3>1, AbsFacts
  <2>11. apart <= shift + moved
    <3>1. CASE mid[d] = new[d]
      <4>1. apart = near
        BY <3>1
      <4> HIDE DEF near, shift, moved, apart
      <4> QED  BY <2>9, <2>10, <4>1 DEF near, shift
    <3>2. CASE mid[d] = old[d]
      <4>1. apart <= moved + Abs(old[d] - v)
        BY <1>6, <2>2, AbsFacts
      <4>2. near = Abs(old[d] - v) /\ near <= shift
        BY <2>9, <3>2
      <4>3. apart <= moved + near
        BY <4>1, <4>2, Zenon
      <4> HIDE DEF near, shift, moved, apart
      <4> QED  BY <2>10, <4>2, <4>3
    <3> QED  BY <1>2, <3>1, <3>2
  <2>12. ToleranceInverse * apart < Extent(old[c]) + Extent(old[d])
    <3>1. /\ ToleranceInverse * shift < Extent(old[c])
          /\ ToleranceInverse * moved < Extent(old[d])
      BY <1>7
    <3>2. \A n \in Nat : n \in Int
      OBVIOUS
    <3>3. Extent(old[c]) \in Nat /\ Extent(old[d]) \in Nat /\ ToleranceInverse \in Nat
      BY <1>7
    <3> HIDE DEF shift, moved, apart
    <3> QED  BY <2>10, <2>11, <3>1, <3>2, <3>3, Scaled
  <2> QED  BY <2>12
<1> QED  BY <1>8, <1>9, <1>10 DEF new

-----------------------------------------------------------------------------
(* Every run of the trainer *)

\* The inductive invariant: TypeOK; the cap's promise; seeds are points of the
\* working set, new while there is one; the iterations start from a full model,
\* and where the tolerance is fine the last of a settled run moved nothing.
IInv ==
  /\ TypeOK
  /\ sample \in Samples
  /\ working_set = <<>> => centroids = <<>>
  /\ CapTakesEachOnce
  /\ iter = 0 => Range(centroids) \subseteq Distinct
  /\ SeedsAreDistinct
  /\ iter # 0 \/ settled => Len(centroids) = NClusters
  /\ settled /\ FineTolerance => LloydPass(working_set, centroids) = centroids

LEMMA SampleFacts ==
  ASSUME NEW s \in Samples
  PROVE  s \in Seq(Coordinates) /\ s # <<>> /\ Range(s) \subseteq Coordinates
<1>1. s \in Seq(Coordinates) /\ s # <<>>
  BY KMeansAssumption, Zenon
<1> QED  BY <1>1, SequenceOf DEF Range

LEMMA PointsOf ==
  ASSUME NEW s, Range(s) \subseteq Coordinates, NEW t \in Seq(Range(s))
  PROVE  t \in Seq(Coordinates) /\ Range(t) \subseteq Coordinates /\ IsFiniteSet(Range(t))
         /\ Cardinality(Range(t)) \in Nat
<1>1. t \in Seq(Coordinates)
  OBVIOUS
<1>2. DOMAIN t = 1..Len(t) /\ Len(t) \in Nat /\ \A i \in 1..Len(t) : t[i] \in Coordinates
  BY <1>1, SequenceOf
<1>3. Range(t) \subseteq Coordinates
  BY <1>2 DEF Range
<1>4. t \in Surjection(1..Len(t), Range(t))
  <2>1. t \in [1..Len(t) -> Range(t)]
    BY <1>1, <1>2 DEF Range
  <2> QED  BY <1>2, <2>1 DEF Surjection, Range
<1>5. IsFiniteSet(1..Len(t))
  BY <1>2, FS_Interval
<1>6. IsFiniteSet(Range(t))
  BY <1>4, <1>5, FS_Surjection
<1> QED  BY <1>1, <1>3, <1>6, FS_CardinalityType

\* No seeds yet.
LEMMA NoSeeds ==
  /\ Range(<<>>) = {} /\ Cardinality(Range(<<>>)) = 0 /\ Len(<<>>) = 0
  /\ \A m \in Nat : Min({Len(<<>>), m}) = 0
<1>1. Range(<<>>) = {} /\ Len(<<>>) = 0
  BY DEF Range
<1>2. Cardinality({}) = 0
  BY FS_EmptySet
<1>3. \A m \in Nat : Min({0, m}) = 0
  BY MinOfTwo
<1> QED  BY <1>1, <1>2, <1>3

LEMMA InitInvariant == Init => IInv
<1> SUFFICES ASSUME Init PROVE IInv
  OBVIOUS
<1>1. /\ sample \in Samples /\ working_set = <<>> /\ centroids = <<>>
      /\ iter = 0 /\ settled = FALSE
  BY DEF Init
<1>2. NClusters \in Nat \ {0} /\ MaxIters \in Nat
  BY KMeansAssumption, Zenon
<1>3. TypeOK
  <2>1. /\ \A S : <<>> \in Seq(S)
        /\ Len(<<>>) <= NClusters /\ 0 \in 0..MaxIters
    BY <1>2, EmptySeq
  <2> QED  BY <1>1, <2>1, Zenon DEF TypeOK
<1>4. CapTakesEachOnce
  BY <1>1 DEF CapTakesEachOnce
<1>5. SeedsAreDistinct /\ Range(centroids) \subseteq Distinct
  BY <1>1, NoSeeds DEF SeedsAreDistinct, Distinct
<1> QED  BY <1>1, <1>3, <1>4, <1>5 DEF IInv

LEMMA CapSampleInvariant == IInv /\ CapSample => IInv'
<1> SUFFICES ASSUME IInv, CapSample PROVE IInv'
  OBVIOUS
<1>1. /\ sample \in Samples /\ working_set = <<>> /\ centroids = <<>>
      /\ sample' = sample /\ centroids' = centroids /\ iter' = iter /\ settled' = settled
      /\ centroids \in Seq(Coordinates) /\ Len(centroids) <= NClusters
      /\ iter \in 0..MaxIters /\ settled \in BOOLEAN
      /\ iter # 0 \/ settled => Len(centroids) = NClusters
  BY DEF IInv, TypeOK, CapSample
<1>2. NClusters \in Nat \ {0}
  BY KMeansAssumption, Zenon
<1>3. iter = 0 /\ settled = FALSE
  BY <1>1, <1>2, NoSeeds
<1>4. sample \in Seq(Coordinates) /\ sample # <<>> /\ Range(sample) \subseteq Coordinates
  BY <1>1, SampleFacts
<1>5. /\ working_set' \in Seq(Range(sample))
      /\ working_set' # <<>>
      /\ KeptOnce(working_set', sample)
  <2>1. CASE /\ Len(sample) <= TrainingSampleSize
             /\ working_set' = sample
    BY <1>4, <2>1, WholeSampleKept
  <2>2. ASSUME Len(sample) > TrainingSampleSize,
               NEW draws \in SubsampleDraws(Len(sample)),
               working_set' = SubsampleRefs(sample, draws)
        PROVE  /\ working_set' \in Seq(Range(sample))
               /\ working_set' # <<>>
               /\ KeptOnce(working_set', sample)
    <3>1. Len(sample) \in Nat /\ TrainingSampleSize \in Nat
      <4>1. TrainingSampleSize \in Nat \ {0}
        BY KMeansAssumption, Zenon
      <4> QED  BY <1>4, <4>1
    <3>2. TrainingSampleSize < Len(sample)
      BY <2>2, <3>1
    <3> QED  BY <1>4, <2>2, <3>2, SubsampleRefsFacts
  <2> QED  BY <2>1, <2>2 DEF CapSample
<1>6. TypeOK'
  BY <1>1, <1>5 DEF TypeOK
<1>7. CapTakesEachOnce'
  BY <1>1, <1>5, Zenon DEF CapTakesEachOnce, KeptOnce, Distinct
<1>8. Cardinality(Range(working_set')) \in Nat
  BY <1>4, <1>5, PointsOf
<1>9. SeedsAreDistinct' /\ Range(centroids') \subseteq Distinct'
  BY <1>1, <1>8, NoSeeds DEF SeedsAreDistinct, Distinct
<1> QED  BY <1>1, <1>3, <1>5, <1>6, <1>7, <1>9 DEF IInv

LEMMA SeedInvariant == IInv /\ Seed => IInv'
<1> SUFFICES ASSUME IInv, Seed PROVE IInv'
  OBVIOUS
<1> DEFINE ws == working_set
           distinct == Cardinality(Range(ws))
           len == Len(centroids)
<1>1. PICK d \in 0..(Resolution - 1) :
        centroids' = Append(centroids, NextSeed(ws, centroids, d))
  BY DEF Seed, DrawnSeeds
<1> DEFINE v == NextSeed(ws, centroids, d)
<1>2. /\ ws # <<>> /\ len < NClusters
      /\ sample' = sample /\ working_set' = ws /\ iter' = iter /\ settled' = settled
  BY DEF Seed
<1>3. /\ sample \in Samples /\ ws \in Seq(Range(sample))
      /\ centroids \in Seq(Coordinates) /\ iter \in 0..MaxIters /\ settled \in BOOLEAN
      /\ iter # 0 \/ settled => len = NClusters
      /\ CapTakesEachOnce
  BY DEF IInv, TypeOK
<1>4. NClusters \in Nat /\ len \in Nat /\ Range(sample) \subseteq Coordinates
  <2>1. NClusters \in Nat \ {0}
    BY KMeansAssumption, Zenon
  <2>2. Range(sample) \subseteq Coordinates
    BY <1>3, SampleFacts
  <2> QED  BY <1>3, <2>1, <2>2
<1>5. iter = 0 /\ settled = FALSE
  BY <1>2, <1>3, <1>4
<1>6. /\ Range(centroids) \subseteq Range(ws)
      /\ Cardinality(Range(centroids)) = Min({len, distinct})
  BY <1>5 DEF IInv, SeedsAreDistinct, Distinct
<1>7. ws \in Seq(Coordinates) /\ Range(ws) \subseteq Coordinates /\ IsFiniteSet(Range(ws)) /\ distinct \in Nat
  BY <1>3, <1>4, PointsOf
<1>8. /\ v \in Range(ws)
      /\ ~(Range(ws) \subseteq Range(centroids)) => v \notin Range(centroids)
  BY <1>2, <1>3, <1>7, NextSeedFacts
<1>9. centroids' = Append(centroids, v)
  BY <1>1
<1> HIDE DEF v
<1>10. /\ centroids' \in Seq(Coordinates) /\ Len(centroids') = len + 1
       /\ Range(centroids') = Range(centroids) \cup {v}
  <2>1. v \in Coordinates
    BY <1>7, <1>8
  <2>2. centroids' \in Seq(Coordinates) /\ Len(centroids') = len + 1
    BY <1>3, <1>9, <2>1, AppendProperties
  <2>3. /\ \A i \in 1..len : centroids'[i] = centroids[i]
        /\ centroids'[len + 1] = v
    BY <1>3, <1>9, <2>1, AppendProperties
  <2>4. DOMAIN centroids = 1..len /\ DOMAIN centroids' = 1..(len + 1)
    BY <1>3, <2>2, SequenceOf
  <2>5. \A i : i \in 1..(len + 1) <=> i \in 1..len \/ i = len + 1
    BY <1>4
  <2> HIDE DEF len
  <2>6. Range(centroids') = Range(centroids) \cup {v}
    BY <2>3, <2>4, <2>5 DEF Range
  <2> QED  BY <2>2, <2>6
<1> HIDE DEF ws, distinct, len
<1>11. /\ IsFiniteSet(Range(centroids)) /\ Cardinality(Range(centroids)) \in Nat
       /\ Cardinality(Range(centroids) \cup {v}) =
            IF v \in Range(centroids) THEN Cardinality(Range(centroids))
            ELSE Cardinality(Range(centroids)) + 1
  <2>1. IsFiniteSet(Range(centroids))
    BY <1>6, <1>7, FS_Subset
  <2> QED  BY <2>1, FS_AddElement, FS_CardinalityType
<1>12. Cardinality(Range(centroids')) = Min({len + 1, distinct})
  <2>1. CASE Range(ws) \subseteq Range(centroids)
    <3>1. Range(ws) = Range(centroids)
      BY <1>6, <2>1
    <3>2. Cardinality(Range(centroids)) = distinct
      BY <3>1 DEF distinct
    <3>3. Cardinality(Range(centroids')) = distinct
      BY <1>8, <1>10, <3>1, <3>2
    <3>4. Min({len, distinct}) = distinct
      BY <1>6, <3>2
    <3>5. distinct <= len
      BY <1>4, <1>7, <3>4, MinOfTwo
    <3>6. Min({len + 1, distinct}) = distinct
      BY <1>4, <1>7, <3>5, MinOfTwo
    <3> QED  BY <3>3, <3>6
  <2>2. CASE ~(Range(ws) \subseteq Range(centroids))
    <3>1. Cardinality(Range(centroids)) < distinct
      <4>1. Cardinality(Range(centroids)) <= distinct /\ Cardinality(Range(centroids)) # distinct
        BY <1>6, <1>7, <2>2, FS_Subset DEF distinct
      <4> QED  BY <1>7, <1>11, <4>1
    <3>2. Cardinality(Range(centroids)) = len
      BY <1>4, <1>6, <1>7, <3>1, MinOfTwo
    <3>3. Cardinality(Range(centroids')) = len + 1
      BY <1>8, <1>10, <1>11, <2>2, <3>2
    <3>4. Min({len + 1, distinct}) = len + 1
      BY <1>4, <1>7, <3>1, <3>2, MinOfTwo
    <3> QED  BY <3>3, <3>4
  <2> QED  BY <2>1, <2>2
<1>13. TypeOK'
  BY <1>2, <1>3, <1>4, <1>10 DEF TypeOK, ws, len
<1>14. CapTakesEachOnce'
  BY <1>2, <1>3, Zenon DEF CapTakesEachOnce, Distinct, ws
<1>15. SeedsAreDistinct' /\ Range(centroids') \subseteq Distinct'
  <2>1. Distinct' = Range(ws)
    BY <1>2 DEF Distinct
  <2>2. Range(centroids') \subseteq Range(ws)
    BY <1>6, <1>8, <1>10
  <2> QED  BY <1>10, <1>12, <2>1, <2>2 DEF SeedsAreDistinct, distinct
<1> QED  BY <1>2, <1>3, <1>5, <1>13, <1>14, <1>15 DEF IInv, ws

LEMMA IterateInvariant == IInv /\ Iterate => IInv'
<1> SUFFICES ASSUME IInv, Iterate PROVE IInv'
  OBVIOUS
<1>1. /\ sample' = sample /\ working_set' = working_set
      /\ iter < MaxIters /\ iter' = iter + 1
      /\ centroids' = LloydPass(working_set, centroids)
      /\ settled' = Converged(centroids, centroids')
      /\ Len(centroids) = NClusters
  BY DEF Iterate
<1>2. /\ sample \in Samples /\ working_set \in Seq(Range(sample))
      /\ centroids \in Seq(Coordinates) /\ iter \in 0..MaxIters
      /\ working_set = <<>> => centroids = <<>>
      /\ CapTakesEachOnce
  BY DEF IInv, TypeOK
<1>3. MaxIters \in Nat /\ NClusters \in Nat \ {0}
  BY KMeansAssumption, Zenon
<1>4. working_set # <<>> /\ working_set \in Seq(Coordinates)
  <2>1. working_set # <<>>
    BY <1>1, <1>2, <1>3, NoSeeds
  <2>2. Range(sample) \subseteq Coordinates
    BY <1>2, SampleFacts
  <2> QED  BY <1>2, <2>1, <2>2, PointsOf
<1>5. centroids \in Models
  BY <1>1, <1>2, ModelsFacts
<1>6. centroids' \in Models
  BY <1>1, <1>4, <1>5, LloydPassFacts
<1>7. centroids' \in Seq(Coordinates) /\ Len(centroids') = NClusters /\ centroids' # <<>>
  BY <1>6, ModelsFacts
<1>8. iter' \in 0..MaxIters /\ iter' # 0
  BY <1>1, <1>2, <1>3
<1>9. settled' \in BOOLEAN
  BY <1>1 DEF Converged
<1>10. NClusters <= NClusters
  BY <1>3
<1>11. TypeOK'
  BY <1>1, <1>2, <1>7, <1>8, <1>9, <1>10 DEF TypeOK
<1>12. CapTakesEachOnce'
  BY <1>1, <1>2, Zenon DEF CapTakesEachOnce, Distinct
<1>13. SeedsAreDistinct'
  BY <1>8 DEF SeedsAreDistinct
<1>14. settled' /\ FineTolerance => LloydPass(working_set, centroids)' = centroids'
  <2> SUFFICES ASSUME settled', FineTolerance
               PROVE  LloydPass(working_set', centroids') = centroids'
    BY Zenon DEF LloydPass
  <2>1. \A c \in Clusters : centroids[c] = centroids'[c]
    BY <1>1, <1>5, <1>6 DEF Converged, FineTolerance, Models
  <2>2. centroids' = centroids
    BY <1>5, <1>6, <2>1 DEF Models
  <2> QED  BY <1>1, <2>2, Zenon
<1> QED  BY <1>1, <1>2, <1>4, <1>7, <1>8, <1>11, <1>12, <1>13, <1>14 DEF IInv, FineTolerance

LEMMA Invariant == Spec => []IInv
<1>1. Init => IInv
  BY InitInvariant
<1>2. IInv /\ [Next]_vars => IInv'
  <2> SUFFICES ASSUME IInv, [Next]_vars PROVE IInv'
    OBVIOUS
  <2>1. CASE UNCHANGED vars
    BY <2>1 DEF vars, IInv, TypeOK, CapTakesEachOnce, SeedsAreDistinct, Distinct, FineTolerance
  <2> QED  BY <2>1, CapSampleInvariant, SeedInvariant, IterateInvariant DEF Next
<1> QED  BY <1>1, <1>2, PTL DEF Spec

\* Every centroid is a point, and there are never more than were asked for
\* (train.rs train_kmeans, lloyd).
THEOREM TypeCorrect == Spec => []TypeOK
<1>1. IInv => TypeOK
  BY DEF IInv
<1> QED  BY <1>1, Invariant, PTL

\* The cap keeps as many vectors as it allows and none of them twice, whatever
\* the draws (train.rs subsample_refs).
THEOREM CapCorrect == Spec => []CapTakesEachOnce
<1>1. IInv => CapTakesEachOnce
  BY DEF IInv
<1> QED  BY <1>1, Invariant, PTL

\* The k-th seed is a new point while some point is no seed yet, whatever the
\* draws (train.rs kmeans_plus_plus).
THEOREM SeedsCorrect == Spec => []SeedsAreDistinct
<1>1. IInv => SeedsAreDistinct
  BY DEF IInv
<1> QED  BY <1>1, Invariant, PTL

\* Where no centroid moves by less than the tolerance, a run that settles leaves
\* no cluster without a member, unless the data has fewer distinct points than
\* clusters (train.rs lloyd).
THEOREM NoEmptyCluster == Spec => []NoEmptyClusterOnceSettled
<1>1. ASSUME IInv PROVE NoEmptyClusterOnceSettled
  <2> SUFFICES ASSUME settled, Cardinality(Distinct) >= NClusters, FineTolerance,
                      NEW c \in Clusters
               PROVE  Members(centroids, working_set, c) # {}
    BY DEF NoEmptyClusterOnceSettled
  <2>1. /\ sample \in Samples /\ working_set \in Seq(Range(sample))
        /\ centroids \in Seq(Coordinates) /\ Len(centroids) = NClusters
        /\ working_set = <<>> => centroids = <<>>
        /\ LloydPass(working_set, centroids) = centroids
    BY <1>1 DEF IInv, TypeOK
  <2>2. NClusters \in Nat \ {0}
    BY KMeansAssumption, Zenon
  <2>3. working_set # <<>>
    BY <2>1, <2>2, NoSeeds
  <2>4. working_set \in Seq(Coordinates)
    <3>1. Range(sample) \subseteq Coordinates
      BY <2>1, SampleFacts
    <3> QED  BY <2>1, <3>1, PointsOf
  <2>5. centroids \in Models
    BY <2>1, ModelsFacts
  <2> QED  BY <2>1, <2>3, <2>4, <2>5, SettledCovers DEF Distinct
<1> QED  BY <1>1, Invariant, PTL

\* Up to the tolerance that stops the loop, the model returned gives no cluster up,
\* whatever the data: each has a point that no other centroid is nearer to, and
\* one that the last pass found empty is left so only if every point is where some
\* centroid is (train.rs lloyd).
THEOREM NoClusterGivenUp == Spec => NoClusterIsGivenUp
<1> DEFINE tolerance(c, d) == Extent(centroids[c]) + Extent(centroids[d])
           near(c) == \E v \in Distinct : \A d \in Clusters :
                        ToleranceInverse * (Abs(centroids'[c] - v) - Abs(centroids'[d] - v))
                          < tolerance(c, d)
           covered(c) == \A v \in Distinct : \E d \in Clusters :
                           ToleranceInverse * Abs(centroids'[d] - v) < tolerance(c, d)
           kept == \A c \in Clusters :
                     /\ near(c)
                     /\ Members(centroids, working_set, c) = {} => covered(c)
<1>1. ASSUME IInv, Iterate, settled', NEW c \in Clusters
      PROVE  near(c) /\ (Members(centroids, working_set, c) = {} => covered(c))
  <2>1. /\ sample \in Samples /\ working_set \in Seq(Range(sample))
        /\ centroids \in Seq(Coordinates) /\ Len(centroids) = NClusters
        /\ working_set = <<>> => centroids = <<>>
        /\ centroids' = LloydPass(working_set, centroids)
        /\ Converged(centroids, centroids')
    BY <1>1 DEF IInv, TypeOK, Iterate
  <2>2. NClusters \in Nat \ {0}
    BY KMeansAssumption, Zenon
  <2>3. working_set # <<>>
    BY <2>1, <2>2, NoSeeds
  <2>4. working_set \in Seq(Coordinates)
    <3>1. Range(sample) \subseteq Coordinates
      BY <2>1, SampleFacts
    <3> QED  BY <2>1, <3>1, PointsOf
  <2>5. centroids \in Models
    BY <2>1, ModelsFacts
  <2> HIDE DEF near, covered
  <2>6. Members(centroids, working_set, c) # {} => near(c)
    BY <2>1, <2>3, <2>4, <2>5, PassKeepsNearest DEF near, Distinct
  <2>7. Members(centroids, working_set, c) = {} => near(c) /\ covered(c)
    BY <2>1, <2>3, <2>4, <2>5, PassCovers DEF near, covered, Distinct
  <2> QED  BY <2>6, <2>7
<1>2. ASSUME IInv, Iterate, settled'
      PROVE  kept
  <2> HIDE DEF near, covered
  <2> QED  BY <1>1, <1>2
<1>3. NoClusterIsGivenUp <=> [][Iterate /\ settled' => kept]_vars
  BY Zenon DEF NoClusterIsGivenUp
<1> HIDE DEF kept
<1>4. IInv /\ [Next]_vars => [Iterate /\ settled' => kept]_vars
  BY <1>2
<1>5. Spec => []IInv
  BY Invariant
<1> QED  BY <1>3, <1>4, <1>5, PTL DEF Spec

\* On a line where means are exact no iteration makes the model worse: the points
\* of each cluster are no farther in all from their mean than from the centroid
\* before, and the recovery moves centroids that no point is assigned to
\* (train.rs lloyd).
THEOREM DistortionCorrect == ExactMeans => (Spec => DistortionNeverGrows)
<1> SUFFICES ASSUME ExactMeans PROVE Spec => DistortionNeverGrows
  OBVIOUS
<1>1. ASSUME IInv, Iterate
      PROVE  Distortion(centroids') <= Distortion(centroids)
  <2> DEFINE ws == working_set
  <2>1. /\ sample \in Samples /\ ws \in Seq(Range(sample))
        /\ centroids \in Seq(Coordinates) /\ Len(centroids) = NClusters
        /\ ws = <<>> => centroids = <<>>
        /\ ws # <<>> => Len(ws) = Min({Len(sample), TrainingSampleSize})
        /\ centroids' = LloydPass(ws, centroids)
    BY <1>1 DEF IInv, TypeOK, CapTakesEachOnce, Iterate
  <2>2. NClusters \in Nat \ {0} /\ TrainingSampleSize \in Nat
    <3>1. NClusters \in Nat \ {0} /\ TrainingSampleSize \in Nat \ {0}
      BY KMeansAssumption, Zenon
    <3> QED  BY <3>1
  <2> HIDE DEF ws
  <2>3. ws # <<>>
    BY <2>1, <2>2, NoSeeds
  <2>4. sample \in Seq(Coordinates) /\ Range(sample) \subseteq Coordinates
    BY <2>1, SampleFacts
  <2>5. ws \in Seq(Coordinates) /\ centroids \in Models
    BY <2>1, <2>4, PointsOf, ModelsFacts
  <2>6. Len(ws) <= TrainingSampleSize /\ Len(ws) \in Nat
    <3>1. Len(sample) \in Nat
      BY <2>4
    <3>2. Len(ws) = IF Len(sample) <= TrainingSampleSize THEN Len(sample) ELSE TrainingSampleSize
      BY <2>1, <2>2, <2>3, <3>1, MinOfTwo
    <3> QED  BY <2>2, <3>1, <3>2
  <2>7. \A i \in DOMAIN ws : \A n \in 1..Len(ws) : ws[i] % n = 0
    <3> TAKE i \in DOMAIN ws
    <3> TAKE n \in 1..Len(ws)
    <3>1. ws[i] \in Range(sample)
      BY <2>1
    <3>2. n \in 1..TrainingSampleSize
      BY <2>2, <2>6
    <3> QED  BY <2>1, <3>1, <3>2, Zenon DEF ExactMeans
  <2>8. Running(ws, LloydPass(ws, centroids), Len(ws)) <= Running(ws, centroids, Len(ws))
    BY <2>3, <2>5, <2>7, PassImproves
  <2> QED  BY <2>1, <2>8 DEF Distortion, ws
<1>2. IInv /\ [Next]_vars
        => [Iterate => Distortion(centroids') <= Distortion(centroids)]_vars
  BY <1>1
<1>3. Spec => []IInv
  BY Invariant
<1> QED  BY <1>2, <1>3, PTL DEF Spec, DistortionNeverGrows

=============================================================================
