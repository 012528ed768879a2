---------------------------- MODULE KMeansTrainer ----------------------------
(***************************************************************************)
(* train_kmeans of src/src/train.rs once its checks have passed: the       *)
(* sample is capped by a partial Fisher-Yates shuffle, seeded by k-means++ *)
(* and refined by Lloyd's iterations.  Vectors are integers on a line.     *)
(* The operators are pure; the specification below runs them for every     *)
(* outcome of the generator's draws, one stage, seed or iteration a step.  *)
(* Arithmetic is exact where the code rounds to f32; a mean is rounded     *)
(* down to the grid of the integers.                                       *)
(***************************************************************************)
EXTENDS Assign, Integers, Sequences, FiniteSets, FiniteSetsExt, Functions

CONSTANTS
  Low,                 \* the least and the greatest coordinate
  High,
  Samples,             \* the samples considered, sequences of integers that pass the
                       \* checks: at least NClusters of them
  TrainingSampleSize,  \* the cap on the working set
  MaxIters,            \* the cap on Lloyd's iterations
  One,                 \* the coordinate that stands for 1.0
  ToleranceInverse,    \* 1 / REL_TOL, 10000 in the code
  Resolution           \* next_open_unit is a multiple of 1 / Resolution

\* The vectors, and what a mean of vectors can be.
Coordinates == Low..High

ASSUME KMeansAssumption ==
  /\ NClusters \in Nat \ {0}
  /\ TrainingSampleSize \in Nat \ {0}
  /\ MaxIters \in Nat
  /\ One \in Nat \ {0}
  /\ ToleranceInverse \in Nat \ {0}
  /\ Resolution \in Nat \ {0}
  /\ Low \in Int /\ High \in Int
  /\ \A s \in Samples : s \in Seq(Coordinates) /\ s # <<>>
  /\ \A p, v \in Coordinates : SquaredL2[p, v] = (p - v) * (p - v)

-----------------------------------------------------------------------------
(* subsample_refs *)

\* What next_below draws for n vectors: the i-th draw is one of the positions from
\* i on, counted from 0.
SubsampleDraws(n) ==
  {draws \in [1..TrainingSampleSize -> 0..(n - 1)] :
     \A i \in 1..TrainingSampleSize : draws[i] <= n - i}

\* Mutant of SubsampleIndices: drawn with replacement.
DrawnWithReplacement(n, draws) == [i \in 1..TrainingSampleSize |-> 1 + draws[i]]

\* The indices of n vectors that the cap keeps: position i is swapped with the
\* one the i-th draw says.
SubsampleIndices(n, draws) ==
  LET swapped[i \in 0..TrainingSampleSize] ==
        IF i = 0 THEN [j \in 1..n |-> j]
        ELSE LET pick == i + draws[i]
             IN  [swapped[i - 1] EXCEPT ![i] = swapped[i - 1][pick],
                                        ![pick] = swapped[i - 1][i]]
  IN  [i \in 1..TrainingSampleSize |-> swapped[TrainingSampleSize][i]]

SubsampleRefs(s, draws) ==
  LET kept == SubsampleIndices(Len(s), draws)
  IN  [i \in 1..TrainingSampleSize |-> s[kept[i]]]

-----------------------------------------------------------------------------
(* k-means++ *)

\* The squared distance of v to the nearest centroid chosen so far.
NearestSq(cents, v) == Min({SquaredL2[cents[c], v] : c \in DOMAIN cents})

\* The sum of the first i weights.
Running(ws, cents, i) ==
  SumFunctionOnSet([j \in DOMAIN ws |-> NearestSq(cents, ws[j])], 1..i)

\* The first index whose running weight reaches u / Resolution of the total.
WeightedPick(ws, cents, u) ==
  LET target == u * Running(ws, cents, Len(ws))
  IN  CHOOSE i \in DOMAIN ws :
        /\ Running(ws, cents, i) * Resolution >= target
        /\ i = 1 \/ Running(ws, cents, i - 1) * Resolution < target

\* Mutant of NextSeed: every seed is drawn uniformly.
UniformSeed(ws, cents, d) == ws[1 + (d % Len(ws))]

\* The next seed for the draw d: by weight while some point is no centroid yet,
\* uniform over the working set afterwards and for the first one.
NextSeed(ws, cents, d) ==
  IF cents = <<>> \/ Running(ws, cents, Len(ws)) = 0
  THEN ws[1 + (d % Len(ws))]
  ELSE ws[WeightedPick(ws, cents, IF d = 0 THEN 1 ELSE d)]

KMeansPlusPlus(ws, draws) ==
  LET seeds[k \in 0..NClusters] ==
        IF k = 0 THEN <<>>
        ELSE Append(seeds[k - 1], NextSeed(ws, seeds[k - 1], draws[k]))
  IN  seeds[NClusters]

-----------------------------------------------------------------------------
(* Lloyd *)

Members(cents, ws, c) == {i \in DOMAIN ws : AssignToCluster(cents, ws[i]) = c}

\* Mutant of Mean: the counts start from 1.
MeanOffByOne(ws, I) == SumFunctionOnSet(ws, I) \div (Cardinality(I) + 1)

Mean(ws, I) == SumFunctionOnSet(ws, I) \div Cardinality(I)

\* The first of the points farthest from every centroid.
Isolated(ws, cents) ==
  CHOOSE i \in DOMAIN ws :
    \A j \in DOMAIN ws :
      /\ NearestSq(cents, ws[i]) >= NearestSq(cents, ws[j])
      /\ j < i => NearestSq(cents, ws[i]) > NearestSq(cents, ws[j])

\* Mutant of LloydPass: an empty cluster keeps its centroid.
PassWithoutRecovery(ws, cents) ==
  [c \in Clusters |-> IF Members(cents, ws, c) = {} THEN cents[c]
                     ELSE Mean(ws, Members(cents, ws, c))]

\* One iteration: points are assigned once, then the centroids move one by one
\* in place, so that the recovery of an empty cluster sees the earlier moves.
LloydPass(ws, cents) ==
  LET moved[c \in 0..NClusters] ==
        IF c = 0 THEN cents
        ELSE [moved[c - 1] EXCEPT ![c] =
                IF Members(cents, ws, c) = {}
                THEN ws[Isolated(ws, moved[c - 1])]
                ELSE Mean(ws, Members(cents, ws, c))]
  IN  moved[NClusters]

Abs(x) == IF x < 0 THEN -x ELSE x

\* What a shift from `old` is relative to.
Extent(old) == IF Abs(old) > One THEN Abs(old) ELSE One

\* relative_shift(old, new) < REL_TOL.
BelowTolerance(old, new) == ToleranceInverse * Abs(old - new) < Extent(old)

\* The largest relative shift of the pass is below the tolerance.
Converged(old, new) == \A c \in Clusters : BelowTolerance(old[c], new[c])

\* The loop ends with the pass that converges; so it does at the cap.
Lloyd(ws, seeds) ==
  LET run[n \in 0..MaxIters] ==
        IF n = 0 THEN [cents |-> seeds, settled |-> FALSE]
        ELSE LET last  == run[n - 1]
                 moved == LloydPass(ws, last.cents)
             IN  IF last.settled THEN last
                 ELSE [cents |-> moved, settled |-> Converged(last.cents, moved)]
  IN  run[MaxIters].cents

TrainKMeans(ws, draws) == Lloyd(ws, KMeansPlusPlus(ws, draws))

-----------------------------------------------------------------------------
(* Every run of the trainer *)

VARIABLES
  sample,       \* the vectors passed to train
  working_set,  \* those of them that are trained on
  centroids,    \* the seeds so far, then the centroids
  iter,         \* Lloyd's iterations made
  settled       \* has an iteration moved no centroid by more than the tolerance

vars == <<sample, working_set, centroids, iter, settled>>

Init ==
  /\ sample \in Samples
  /\ working_set = <<>>
  /\ centroids = <<>>
  /\ iter = 0
  /\ settled = FALSE

CapSample ==
  /\ working_set = <<>>
  /\ \/ /\ Len(sample) <= TrainingSampleSize
        /\ working_set' = sample
     \/ /\ Len(sample) > TrainingSampleSize
        /\ \E draws \in SubsampleDraws(Len(sample)) :
             working_set' = SubsampleRefs(sample, draws)
  /\ UNCHANGED <<sample, centroids, iter, settled>>

\* The seeds some draw picks next.
DrawnSeeds == {NextSeed(working_set, centroids, d) : d \in 0..(Resolution - 1)}

\* Mutant of Seed: one seed too many.
SeedOnceMore ==
  /\ working_set # <<>>
  /\ Len(centroids) <= NClusters
  /\ iter = 0
  /\ \E v \in DrawnSeeds : centroids' = Append(centroids, v)
  /\ UNCHANGED <<sample, working_set, iter, settled>>

Seed ==
  /\ working_set # <<>>
  /\ Len(centroids) < NClusters
  /\ \E v \in DrawnSeeds : centroids' = Append(centroids, v)
  /\ UNCHANGED <<sample, working_set, iter, settled>>

\* Mutant of Iterate: the largest shift is not reset between iterations.
IterateWithStaleShift ==
  /\ Len(centroids) = NClusters
  /\ ~settled
  /\ iter < MaxIters
  /\ centroids' = LloydPass(working_set, centroids)
  /\ iter' = iter + 1
  /\ settled' = (iter = 0 /\ Converged(centroids, centroids'))
  /\ UNCHANGED <<sample, working_set>>

Iterate ==
  /\ Len(centroids) = NClusters
  /\ ~settled
  /\ iter < MaxIters
  /\ centroids' = LloydPass(working_set, centroids)
  /\ iter' = iter + 1
  /\ settled' = Converged(centroids, centroids')
  /\ UNCHANGED <<sample, working_set>>

Next == CapSample \/ Seed \/ Iterate

Spec == Init /\ [][Next]_vars

-----------------------------------------------------------------------------
(* Properties *)

Distinct == Range(working_set)

TypeOK ==
  /\ working_set \in Seq(Range(sample))
  /\ centroids \in Seq(Coordinates)
  /\ Len(centroids) <= NClusters
  /\ iter \in 0..MaxIters
  /\ settled \in BOOLEAN

\* The cap keeps as many vectors as it allows and takes none of the sample's
\* vectors twice (train.rs subsample_refs).
CapTakesEachOnce ==
  working_set # <<>> =>
    /\ Len(working_set) = Min({Len(sample), TrainingSampleSize})
    /\ \A v \in Distinct :
         Cardinality({i \in DOMAIN working_set : working_set[i] = v})
           <= Cardinality({i \in DOMAIN sample : sample[i] = v})

\* k-means++ (train.rs kmeans_plus_plus) repeats a seed only once every distinct
\* point of the working set is one: the k-th seed is new while a point is left.
SeedsAreDistinct ==
  iter = 0 =>
    Cardinality(Range(centroids)) = Min({Len(centroids), Cardinality(Distinct)})

\* What k-means minimises: the distances of all points to their centroids.
Distortion(cents) == Running(working_set, cents, Len(working_set))

\* No division for a mean of sampled points leaves a remainder: so it is for all
\* integers once they are scaled by a common multiple of the numbers up to the cap.
ExactMeans ==
  \A s \in Samples : \A v \in Range(s) : \A n \in 1..TrainingSampleSize : v % n = 0

\* A Lloyd iteration never makes the model worse, although the recovery of an
\* empty cluster jumps a centroid across the data in the middle of the update
\* (train.rs lloyd).
DistortionNeverGrows ==
  [][Iterate => Distortion(centroids') <= Distortion(centroids)]_vars

\* The loop stops while centroids still move, by less than the tolerance of where
\* they were.  Up to that tolerance no cluster is given up: each centroid of the
\* model returned has a point that no other is nearer to, and a cluster that the
\* last pass found empty was left so only because every point was where some
\* centroid is (train.rs lloyd).
NoClusterIsGivenUp ==
  [][Iterate /\ settled' =>
       LET tolerance(c, d) == Extent(centroids[c]) + Extent(centroids[d])
       IN  \A c \in Clusters :
             /\ \E v \in Distinct : \A d \in Clusters :
                  ToleranceInverse * (Abs(centroids'[c] - v) - Abs(centroids'[d] - v))
                    < tolerance(c, d)
             /\ Members(centroids, working_set, c) = {} =>
                  \A v \in Distinct : \E d \in Clusters :
                    ToleranceInverse * Abs(centroids'[d] - v) < tolerance(c, d)]_vars

\* A centroid that moves at all moves by more than the tolerance: so it is where
\* the data are coarser than REL_TOL of their distance from the origin.
FineTolerance == \A p, q \in Coordinates : BelowTolerance(p, q) => p = q

\* Then, once the iterations settle, every cluster has a member unless the data
\* has fewer distinct points than there are clusters (train.rs lloyd).
NoEmptyClusterOnceSettled ==
  settled /\ Cardinality(Distinct) >= NClusters /\ FineTolerance =>
    \A c \in Clusters : Members(centroids, working_set, c) # {}

\* The iterations settle by themselves: recoveries never chase each other until
\* MAX_ITERS stops them (train.rs lloyd).
SettlesBeforeTheCap == iter = MaxIters => settled

-----------------------------------------------------------------------------
(* What a comment says and the code does not ensure *)

\* "Caller has already verified ... working_set.len() >= n_clusters"
\* (train.rs:164): the caller checks the sample, before the cap.
EnoughToSeed == working_set # <<>> => Len(working_set) >= NClusters
=============================================================================
