# A verification project for iqdb-ivf

`iqdb-ivf` is an inverted-file vector index. k-means splits the space into
`n_clusters` cells; every vector is kept in the inverted list of its nearest
centroid; a query scans the `n_probes` lists whose centroids are nearest. With
product quantization (IVF-PQ) each entry also carries a code, scans score codes,
and a refine pass rescores a shortlist exactly.

The index is single-threaded by construction: everything that changes it takes
`&mut self`, `search` takes `&self`, nothing is persisted and nothing waits. What
is hard about it is not interleaving. It is what a call leaves behind when it
returns early, half of its work done; what a long mix of inserts, deletes and
retrains does to three structures that must keep agreeing (the id map, the lists,
the count); and an iterative trainer with special cases that only rare data reach.

## 1. Inventory

| Component | Source | State | Operations | Module |
|---|---|---|---|---|
| Index lifecycle | `src/index.rs` | `trained`, `centroids`, `inverted_lists`, `id_to_cluster`, `next_seq`, `live_count`, `pq`, and the two tunable fields of `cfg` | `new`, `train`, `insert`, `delete`, `retrain`, `set_n_probes`, `set_pq_refine_factor` | `IvfIndex`, `IvfIndexProperties`, `IvfIndexProofs` |
| The store a user sees | `src/index.rs` | the stamped vectors held, the flag | the same calls, without the layout | `VectorStore`, `IvfIndexProofs` |
| Coarse trainer | `src/train.rs` | working set, centroids, iteration | `subsample_refs`, `kmeans_plus_plus`, `lloyd` | `KMeansTrainer`, `KMeansTrainerProofs` |
| Nearest-centroid kernel | `src/assign.rs` | none | `assign_to_cluster`, `squared_l2` | `Assign` |
| IVF-PQ | `src/pq_variant.rs` | `pq`, `pq_code` of the entries | `train_pq`, encoding; the ADC scan, the refine pass | training and encoding in `IvfIndex`; the scans in `IvfSearch` |
| Search | `src/search.rs` | none (reads the index) | `ivf_search`, the flat scans with and without a filter | `IvfSearch`, `IvfSearchProperties`, `IvfSearchProofs` |
| Top-k | `src/topk.rs` | a bounded heap | `select_topk_indices` | `TopK`, `TopKScan`, `TopKProofs` |
| Probe tuning, statistics | `src/index.rs`, `src/stats.rs` | none | `suggest_n_probes`, `cluster_stats` | `ProbeTuning`, `ProbeTuningProofs` |
| Generator | `src/rng.rs` | 64-bit state | `next_u64`, `next_open_unit`, `next_below` | `SplitMix`, `SplitMixProofs` |
| Configuration | `src/config.rs`, `src/index.rs` | `IvfConfig`, the index's copy of it | builders, `validate`, `new_unconfigured`, the setters | `IvfConfig`, `IvfConfigProofs` |
| Other crates | `iqdb_types`, `iqdb_index`, `iqdb_distance`, `iqdb_filter`, `iqdb_quantize` | | | external |

How they interact. `train` and `retrain` call the trainer and then, with PQ, the quantizer of
`iqdb_quantize`; `insert`, the reassign loop of `retrain` and every Lloyd iteration call
`assign_to_cluster`; `insert` and the reassign loop call `quantize`. `search` ranks the centroids,
scans lists and ends in `select_topk_indices`, which breaks ties by the stamp `insert` gave. The
trainer takes its draws from a generator seeded with `cfg.seed`. The index keeps a copy of the
configuration `new` validated; the trainer, the quantizer and the search read it without looking
again. The caller combines `suggest_n_probes` with `set_n_probes`. All of these are plain calls.

What makes each component correct:

- Lifecycle: the map, the lists and the count agree after every call, the failed ones included;
  training can be tried again after it failed; stamps are unique; every entry is where its nearest
  centroid of *now* is and is encoded with the codebook of *now*; there is a codebook exactly when
  PQ is on and the index is trained; a retrain depends on what is stored and not on how it came to
  be laid out.
- Store: only `insert`, `delete` and a failed `retrain` change what is held.
- Trainer: the cap takes vectors without repetition; seeds repeat only for want of
  distinct points; an iteration never makes the model worse; the iterations settle;
  the loop, which stops while centroids still move a little, gives up no cluster by
  more than its tolerance, and none at all where that is finer than the data.
- Kernel: of equally near centroids the first one wins, everywhere.
- Search: a trained index answers whatever failed before; the lists probed are the nearest, and of
  their entries the nearest are found; probing every list gives the exact answer; more probes, or a
  larger refine factor, never a worse one; a filter is applied before the top k is taken; a stored
  vector is found by searching for it in the nearest list alone.
- Top-k: the heap returns the k least pairs (distance, stamp), in order.
- Probe tuning: monotone, the least number of lists that covers what was asked for,
  accepted by the setter in any state.
- Generator: `next_below(n)` is in range, exactly uniform over a period, and ends;
  `next_open_unit` is never zero; the stream runs through every word before one comes again.
- Configuration: what `new` accepted stays acceptable through the setters; the three places
  that check it agree; what the trainer, the search and the quantizer rely on follows.

The hazards, each at its line and with the properties that would catch it, are
listed in `PROJECT.json`.

## 2. Modules

```
VectorStore  <-- implemented by --  IvfIndexProperties --> IvfIndex --> Assign <-- KMeansTrainer
                                      ^            ^                                  ^
                        TopK <-- IvfSearch    ProbeTuning                  KMeansTrainerProofs
                         ^           ^             ^
                      TopKScan  IvfSearchProperties
                         ^           ^             |
                    TopKProofs  IvfSearchProofs  ProbeTuningProofs
                                     |             |
                                     +-------------+--> IvfIndexProofs

IvfConfig <-- IvfConfigProofs        SplitMix <-- SplitMixProofs
```

An arrow is EXTENDS (to `VectorStore`: INSTANCE); `IvfIndexProofs` extends `IvfIndexProperties`.
Each `MC...` module instantiates the one it is named for; `MCIvfIndex` takes the trainer of its
instances from `KMeansTrainer`. `SharedLemmas`, which `IvfIndexProofs`, `TopKProofs`,
`KMeansTrainerProofs` and `SplitMixProofs` extend, holds what several proofs need: least numbers,
steps up to a bound or through a finite set, ranks in a finite ordered set, the selection
`SelectTopK`, and sums over finite sets. `SplitMix` and `IvfConfig` stand apart: what they establish
is what the others assume, draws in range for `KMeansTrainer` and `ConfigAssumption` for `IvfIndex`.

**`IvfIndex`** is the index: one variable per field, one action per call (`Train`,
`Insert`, `Delete`, `Retrain`, `SetNProbes`, `SetPqRefineFactor`), plus `reply`,
the last call and what it returned. An action is a disjunction of the call's
outcomes, in the order of the code's checks: the refusals (`TrainRefused`,
`InsertRefused`, ...), which leave every field alone, and the outcomes that got
past the checks, with each failure in the middle a disjunct that keeps what had
been assigned by then:

- `train` stores the centroids, then trains the quantizer, then raises `trained`;
- `insert` consumes its stamp, then encodes, then stores;
- `delete` removes the id from the map, then looks for it in the list; the branch
  where it is not there is modelled, and `DirectoryExact` says it is never taken;
- `retrain` takes every entry out, then trains (two failures), then puts entries
  back one at a time (a failure after each): `PutBack(n, ...)` is the state once
  the first `n` entries of the snapshot are back, and a failure is a smaller `n`.

Data are abstract. Vectors are values with a distance table; a codebook is
identified by the sample that determines it and a code by its codebook and vector,
which is what "current" needs; k-means and the subsample's choice of indices are
constants (`KMeans`, `Picks`), functions of their input because `cfg.seed` fixes
the draws. A retrain passes k-means an already capped set and a fresh generator,
`train` one that has made the subsample's draws first: `KMeans` takes the number of
draws used. A vector or sample of the wrong dimension is the value `WrongDim`.
The loop that puts entries back pushes them in stamp order, so a list is the
sequence of its entries sorted by stamp (`Relist`, `SortBySeq`).

**`IvfIndexProperties`** states what is checked of it, and the refinement to
**`VectorStore`**: the entries without clusters and codes are the store, `trained`
is its `ready`. `VectorStore` says in one action each what `insert` and `delete`
do; that a failing `retrain` keeps exactly the vectors stamped before some point;
and that nothing else changes the store.

**`KMeansTrainer`** has the trainer's algorithms as operators (recursion written as recursive
functions) and a specification that runs them one stage, seed or iteration a step, for *every*
outcome of the generator's draws. Vectors are integers and arithmetic is exact; the in-place update
of `lloyd` is kept, a recovery measures distances to the centroids moved so far. The loop stops as
the code's does, when no centroid has moved by `REL_TOL` of its distance from the origin, or of 1.0
if that is more (`Converged`): `ToleranceInverse` is 1/`REL_TOL`, `One` the coordinate of 1.0, and
the test is multiplied out to stay in the integers. Coordinates lie between `Low` and `High`, and so
does every mean. `MCIvfIndex` uses the same operators to define the trainer of its instances.

**`Assign`** is the kernel they share.

**`IvfSearch`** says what `search` answers. The call takes `&self`, so it is an operator
`Search(cfg, q, sameMetric, k, filter)` on the state of `IvfIndex`, with the checks in the
code's order; `cfg` holds the two tunable fields, so that a property can ask what one more
probe would have answered in the same state. `ScoredCentroids` and `Probed` are the first
pass, `Survivors` the walk over the probed lists, `Exact` and `Adc` the two ways to score,
`FinishScanPq` the answer by code or the refined shortlist. The filtered and the unfiltered
scans are two functions in the code, written apart for speed; they differ in the test
`Accepts` alone, and one operator stands for both. A filter is the set of ids it accepts.
The metric is a table (`Compute`), negated by `Nearness` where the code negates an inner
product. What a code stands for is the constant `Reconstruct`, the query's ADC distance its
distance to that point. **`IvfSearchProperties`** states what is promised of answers, in terms
of the entries and the metric and not of the scan.

**`TopK`** has the pieces of `select_topk_indices` as operators (`Precedes` is `cmp_key`; a heap is
the set of what it holds, `Worst` its peek) and their composition `SelectTopK`, which the searches
use. **`TopKScan`** is the loop itself, an offer a step, so that what the heap holds half-way can be
stated; the lemma `ScanIsSelectTopK` of `TopKProofs` ties the two together. A distance is an integer
standing for its place in `total_cmp`'s order, in which NaN is the value at either end and not a
case of its own.

**`ProbeTuning`** has `suggest_n_probes` and `cluster_stats`, as operators on the state too. The
descending sort of the sizes is `SortedSizes`: the size at position `i` is the one that at least `i`
lists reach and fewer than `i` exceed.

**`SplitMix`** is the generator at a small word width, a word drawn a step, with `^`, `>>` and the
wrapping products computed and not abstracted: `Xor` goes through the bits from the highest down, a
shift is a division by a `PowerOf2`. One caller draws through `next_below(n)` or
through `next_open_unit`. Its record of a period, `drawn` and `tally`, is not in the code: it is
what lets a property speak of a distribution. A fraction is an integer, the multiple of the
least one. `BelowAccepted` and `BelowRejected` are the two ways a turn of the rejection loop goes,
`UnitAccepted` and `UnitDiscarded` those of the bounded re-roll, whose last turn falls back.

**`IvfConfig`** follows a configuration: `With` sets one field, from `Default`; `New` is
`new_unconfigured`, with `validate` (`Valid`) and the checks that need the dimension and the
metric, in the code's order (`Outcome`); `SetNProbes` and `SetPqRefineFactor` change the index's
copy. An index is its dimension, metric and that copy; the rest of it is `IvfIndex`.

The operators marked *Mutant* are faulty variants of the definition below them.
They are used by no specification; substituting one shows that the property named
in `PROJECT.json` detects the fault.

## 3. What is checked

| Run | Instance | Shows |
|---|---|---|
| `ivf_flat` | 2 clusters, 3 interchangeable ids, 3 vectors, cap 2, 4 stamps, no PQ, Euclidean; k from 0 to 2 | every sequence of calls and every search in every state, with retrains over more vectors than the cap, retrains with too few vectors, and the stamp counter running out; each stored vector is a query |
| `ivf_pq` | the same with PQ, cap 3, 3 stamps, dot product, k 1 and 2, refine factors 0, 1, 2; a quantizer that needs 3 vectors to train and may refuse any encoding | the half-way failures of `train`, `insert`, `retrain`, a `train` after one that failed, and every search in the states they leave |
| `kmeans` | 3 clusters; every sample of 3 or 4 points at 4 positions, two of 6 points, and one of 7 under a cap of 6 | the subsample, seeding and iterating for every draw |
| `kmeans_far` | 3 clusters far from the origin, a tolerance of a tenth; every sample of 4 points at 3 positions, and four of 6 points | the loop stopping while centroids still move, for every draw |
| `splitmix` | 8 bits, 3 seeds, 9 bounds from 1 to 255, fractions of 2 bits | every call over whole periods |
| `ivf_config` | sizes 0, 1, 4, 8; dimensions 0, 2, 6, 8; 3 metrics, one of them refused by PQ | every configuration, every `new`, the setters afterwards |
| `topk` | up to 4 candidates, 3 distances, stamps in every order, k from 0 to 5 | the loop of `select_topk_indices`, half-way and at the end |
| `probe_tuning` | 3 clusters, 4 stamps, 8 coverages | every suggestion and every snapshot in every state |

The properties, in the words of the code:

- `DirectoryExact`: each id of the map is once in the list the map names, each entry
  is in the map, `live_count` counts them. `NearestPlacement`, `CodesCurrent`,
  `StampsDistinct`, `PqIffTrained`: the lifecycle promises of section 1.
- `RetrainIsIdempotent`: a retrain right after a successful one changes no field. It
  fails as soon as the snapshot is not sorted by stamp.
- `TrainForgetsFailures`: a sample `train` takes is trained on whatever stopped earlier attempts, and
  leaves the index a first attempt would have made. A gate on the centroids instead of the flag would
  refuse it.
- `ImplementsVectorStore`: the index implements `VectorStore`.
- `CapTakesEachOnce`, `SeedsAreDistinct`, `DistortionNeverGrows`, `SettlesBeforeTheCap`: the
  trainer's. `NoClusterIsGivenUp`: when the loop stops, each centroid has a point to which no other is
  nearer, up to the tolerance, and a cluster the last pass found empty was left so only because every
  point is at some centroid, up to the tolerance. `NoEmptyClusterOnceSettled`: where the tolerance is
  finer than the data, every cluster has a member unless there are fewer distinct points than
  clusters. Without that condition it is false: on 1,000,000 + {0, 2, 7, 8, 8, 12}, seeded at 0, 2 and
  12, the first pass moves no centroid by 1e-4 of a million, and the loop stops with the cluster at
  4.5 empty. 
- `ExactOverAPeriod`: over the words of a period `next_below(n)` returns each value equally often,
  and at most every other word is rejected. `StreamHasFullPeriod`: no word comes twice in a
  period, so `DrawsEnd`: the rejection loop ends. `UnitIsPositive`: no fraction is zero, after
  four zero draws in a row either; the weighted pick of `kmeans_plus_plus` depends on it.
- `SetterAgreesWithNew`, `TrainersNeedsAreMet`: `set_n_probes` repeats a rule of
  `validate`, the divisor of PQ is checked in `new` alone, and the code that divides a vector
  into subvectors says it cannot fail on shapes (`pq_variant.rs:67`).
- `HeapHoldsTheBest`, `AnswerIsRanked`: of all candidates offered so far the heap has the
  best; of all candidates exactly r - 1 come before the one at rank r.
- `AnswersAreSound`: no search of a trained index meets a missing codebook or code; hits are
  live, accepted, from probed lists, each once, ascending, and as many as there can be.
- `ExhaustiveSearchIsExact`: with all lists probed (and all candidates rescored under PQ) the
  answer is the brute-force one, ties by age, wherever entries lie.
- `BestInReachIsFound`: for any number of probes, and for codes alone, the lists searched are those
  of the n centroids nearest by the metric itself, and the entry at rank r has exactly r - 1 of their
  entries ahead of it. A sign left as it is in one of the rankings would reverse that one only.
- `StoredVectorIsFound`: under a metric that orders as `squared_l2` does, a search for a stored
  vector finds its oldest copy even with `n_probes = 1`. Two codes have to break ties between
  centroids the same way: `assign_to_cluster` by keeping the first, pass 1 by the index.
- `FilterComesFirst`: the filtered answer is what is left of the unfiltered ranking of the *whole*
  of the probed lists, cut at k. `MoreProbesNeverWorse`, `MoreRefineNeverWorse`: section 1.
- `SuggestionIsLeastCover`, `SuggestionIsMonotone`, `StatsAccountForEveryVector`: the number
  suggested is compared with *all* sets of lists, not with the sorted prefix.

`MoreProbesNeverWorse`, `FilterComesFirst` and `BestInReachIsFound` are stated for IVF-PQ without
refine only. With a refine factor they are no promises of the code: an entry of a newly probed list,
or one a filter would have dropped, can look near by its code and crowd a nearer entry out of the
shortlist. "Higher" `n_probes` "-> higher recall" is a tendency there, not a guarantee.

Bounds, and why they are enough. Three ids and four stamps give lists of up to three entries, so
that `swap_remove` moves an entry, an id is inserted again after its deletion, a retrain meets more
vectors than a cap of two, and the counter reaches its maximum (`MaxSeq` stands for `u64::MAX`). Two
clusters suffice for an entry to change its cluster; the vectors 0, 6, 18 have a tie between
centroids at 0 and 12. Samples include one for each check of `train` and one longer than the cap.
`PqMinSample` is 3 where the quantizer's is 256: all that matters is that it lies above
`n_clusters`, so that k-means can succeed and the quantizer fail. In `kmeans`, four positions give
samples with fewer distinct points than clusters and samples with ties, the seven-point sample has
one vector more than the cap, and on the two six-point samples a cluster that had members loses them
all after the first pass, the case the recovery is for. Positions are multiples of 60 so that every
mean is an integer, and the tolerance is the code's, with 60 for 1.0: at such positions a centroid
that moves at all moves by more (`FineTolerance`). `kmeans_far` is the opposite case. Samples lie
from 1260 to 2460 and the tolerance is a tenth, wider there than the gaps between neighbours and
narrower than those between groups; with 1e-4 the same would take coordinates a thousand times as
large. On the six-point samples a cluster is emptied, by an early pass or by the one after which the
loop stops. `Resolution` (64) is the grid of the k-means++ draws: every point that carries 1/64 of
the weight can be picked. At 8 bits a period is 256 words and TLC runs all of it. The increment and
the two multipliers are the last bytes of the code's, odd like them; the shifts are an eighth. What
full period and uniformity rest on does not depend on the width: an odd increment, odd multipliers,
`z ^ (z >> s)` undone bit by bit. Two bits are kept for a fraction where the code keeps 53, so that
the fallback of `next_open_unit`, four zeros in a row, does occur. The bounds are 1, powers of two
and their neighbours, just over half the words (where most is rejected), and the largest word. In
`ivf_config` the sizes put 0, equality and both orders between `n_probes` and `n_clusters`, and
subvectors that do and do not divide the dimension. Four candidates with three distances let two
newcomers evict in a row and put ties between two, three or all; `k` = 5 asks for more than there
are. Three entries in two lists give a tie at equal distance across lists and within one, and
`swap_remove` puts a younger entry before an older one. In `ivf_pq` a codebook has the two ends of
its sample, so that the middle vector is decoded wrongly; the directions -1, 0 and 1 give two
opposite rankings and one that is all ties. Filters are all ids but one. The coverages are those
below, at and above the two special cases, and shares that lists of one to three vectors do and do
not divide evenly. `CHECK_DEADLOCK FALSE`: a selection stops when it has seen every candidate; a
trained model stops when settled, and a caller of the index may stop calling; with every counter
bounded some states have only refusals left.

Fairness is assumed where a call that is under way must go on, and nowhere else. `SplitMix` has
`WF_vars(Turn)`: the loops of the generator neither wait nor return between two words, so the next
word is drawn; nobody has to make a call, and `Call` is not fair. Weak fairness is enough, for a
step stays enabled until it is taken. The trainer's loops are bounded, `for` over the clusters and
over `MAX_ITERS`, so that it returns needs no property; that the iterations end by settling and not
at the cap is one of safety, `SettlesBeforeTheCap`. The index itself acts only when called, each
call one step: it has no fairness and no liveness property.

## 4. Where code and documentation disagree

Each run checks the documentation's sentence and TLC finds it violated.

- `retrain_loses`: `retrain` says "without losing any data" (`index.rs:359`). It
  empties the index before k-means, the quantizer and the encoding, and any of them
  can fail: with fewer live vectors than `n_clusters`, or fewer than 256 under PQ,
  it returns `InvalidConfig` and every vector is gone. The remedy is to take the
  snapshot out only once the new model and codes exist.
- `train_half_done`: `centroids` has length "`0` before" training (`index.rs:147`);
  after a `train` the quantizer refused it has not. Harmless today: every reader is
  behind the `trained` gate.
- `pq_beyond_the_cap`: the codebooks are said to be trained on the same working set
  as k-means (`index.rs:169`, `config.rs:103`); `train` gives the quantizer the whole
  sample, `retrain` the capped one.
- `cap_below_clusters`: `kmeans_plus_plus` relies on a working set of at least
  `n_clusters` (`train.rs:164`), the check is made before the cap, and `validate` does
  not relate `training_sample_size` to `n_clusters`. Such an index trains with
  repeated centroids, and each of its retrains fails, with the loss described above.

## 5. What is proved

Every invariant a passing run checks is a theorem except `SettlesBeforeTheCap`, and so are the five
properties of steps (`RetrainIsIdempotent`, `TrainForgetsFailures`, `NoClusterIsGivenUp`,
`DistortionNeverGrows`, `StreamHasFullPeriod`) and the refinement of the store. What remains with
TLC, and why, is at the end of this section.

### The index

`IvfIndexProofs` proves, for every value of the constants, `Spec => []Inv` for the type
invariant and the five safety invariants of the index, `RetrainIdempotent` and `TrainRepeats`.

Assumptions (checked by TLC on every run of the index): `ConfigAssumption`, what
`validate` guarantees, and that samples and snapshots have at most `MaxLen` elements;
`DataAssumption`, vectors are points, distances naturals, `None` no codebook;
`TrainerAssumption`, k-means returns a point per cluster and the subsample picks
indices in range.

The argument. `IndexInv` is the conjunction of the invariants with two facts that training
establishes (a trained index has its centroids, an untrained one is empty) and the finiteness of the
map. No invariant is inductive alone: `DirectoryExact` and `StampsDistinct` together make the
entries a finite set with distinct ids and stamps (`EntriesFacts`), which is what makes sorting by
stamp list each entry exactly once (`SortBySeqSorts`, `SnapshotFacts`); from that, `PutBackRestores`
shows that *any* prefix of the snapshot, put back under *any* centroids and codebook, satisfies all
the invariants of the layout, which covers a successful retrain and each of its failures at once.
`CodesCurrent` needs `PqIffTrained`: a retrain re-encodes only if there is a codebook. `delete`
needs `SwapRemoveKeepsTheRest`, the positions `swap_remove` leaves and where they were; `insert`
needs `AssignIsFirstNearest`, that the kernel's choice exists (the least of the least distances).
There is one lemma per call (`TrainKeeps`, `InsertKeeps`, ...).

`RetrainIsIdempotent` speaks of two calls in a row, so the first must leave something the second can
be held to. `Rebuilt` is that: the centroids are those k-means gives for the snapshot, the codebook
is the one of the snapshot, and the lists are the snapshot put back. It is claimed of the states
whose last call is a successful retrain (`RetrainRebuilds`, `RebuiltKept`), and with `IndexInv` it
is inductive. A second retrain takes the snapshot of what `Rebuilt` describes: the same entries, up
to their codes, and hence the same sequence, since a finite set with distinct stamps has *one* list
sorted by stamp (`SortedIsUnique`); k-means, a function of its input, answers as before.

`TrainRepeats` needs, besides `IndexInv`, that no stamp is used before there is a training
(`Unstamped`, inductive because `insert` is refused until then): an untrained index, whatever failed
attempts left, then has nothing but old centroids, which `train` overwrites, and `PqIffTrained` says
that no codebook is among the remains.

### The store

`IvfIndexProofs` also proves that the index implements the store, `Spec => ImplementsVectorStore`,
from the same assumptions. Under `IndexInv` each call maps to one action of `VectorStore`: a refusal,
a setter or a retrain that put everything back to `Keep`, a retrain that stopped short to
`LoseFrom`. Most calls need only that the lists did not change. `insert` needs `EntriesFacts`: the id
is not held, and the stamp is above all that are. `delete` needs `DirectoryExact`, which rules out
the branch where the map has an id the list has not, and `SwapRemoveKeepsTheRest`. A retrain needs
that `PutBackRestores` puts back exactly the first `n` entries, that re-encoding is not seen from
outside (`ReencodeIsNotShown`), and that the first `n` of a snapshot sorted by stamp are those
stamped before the next one (`PutBackRefines`): hence the promise that what a failed retrain keeps is
a prefix in time.

### Top-k and searches

`TopKProofs` proves `Spec => []TypeOK`, `[]HeapHoldsTheBest` and `[]AnswerIsRanked` of the selection
loop, for candidates of any number in any order. Its assumption is that stamps are distinct, which
`StampsCorrect` proves of the index. `HeapHoldsTheBest` is not inductive: a heap that has room must
hold *everything* seen so far, or the next candidate, taken unconditionally, could come after one
that was dropped; `HeapInv` adds that. `WorstIsLast` finds the element `peek` sees (a candidate with
the fewest after it), `OfferKeepsTheBest` is one turn of the loop, and `IntoSortedVecRanks` shows
that ranks are a bijection from a finite heap to 1..n, from which `AnswerRanks` gets the answer:
nothing outside the heap comes before anything in it, so ranks in the heap are ranks among all.
`SelectTopKRanks` proves the same of the recursive function the searches use, and two sequences that
rank the same candidates are equal (`RanksUnique`). So the lemma `ScanIsSelectTopK`, that loop and
function agree, is about this model's two forms of one algorithm and nothing more.

`IvfSearchProofs` proves the seven properties of searches, for every set of queries and filters, every
metric and either kind of index, from `IndexInv` and the lemmas on ranks. Its assumptions, besides
those of the index, are in `SearchAssumption`: integers for distances, filters that are sets of ids,
one value for "no filter" that is no filter, and queries of the right dimension, the others being
refused. A scan is taken apart once: `Passing` and the flattening of the probed lists hold each
accepted entry in reach exactly once (`PassingLists`, `FlattenLists`, `SurvivorsListReach`; this is
where `DirectoryExact` and `StampsDistinct` come in), scoring keeps that (`ScoredEntries`), so the
hits are the first ranks of the candidates in reach (`SearchRanks`, `AnswerRanked`). From there:

- `AnswersSound` needs `PqIffTrained` and `CodesCurrent`, so that no error of the scan is met.
- `ExhaustiveExact`: with all lists probed everything is in reach (`AllInReach`), and the order by
  distance and stamp is the order of the metric (`NearerPrecedes`), the sign of an inner product
  included.
- `BestFound`: the metric's own order of the centroids is that of the candidates pass 1 ranks, so a
  list is probed exactly when fewer than `n_probes` centroids are ahead of its own
  (`InReachIsReach`, with `RanksComplete`), and the order of the entries is that of the points they
  are scored by (`ScanPrecedes`).
- `FilterFirst`: ranking a subset keeps the order of the whole (`RankingOfSome`).
- `MoreProbes`: the lists probed are the first of one ranking, so a further probe reaches more
  (`MoreProbesReachMore`), and among more candidates no rank is taken by a later one
  (`MoreCandidatesRankNoLater`).
- `MoreRefine`: shortlists of growing length nest (`ShortlistsNest`), and the exact first k of a set
  have at least as many within any distance as any k others (`NearestHaveMostWithin`).
- `StoredVectorFound` is stated `MetricAgrees => (Spec => []StoredVectorIsFound)`: its hypothesis is a
  condition on the metric, which TLC evaluates on `ivf_flat` (`VectorMetric` of `MCIvfSearch`). The
  first of the ranked centroids is the one `assign_to_cluster` chose, ties included
  (`OwnListIsFirst`), and the oldest copy comes first in its list (`OldestIsFirst`).

### The trainer

`KMeansTrainerProofs` proves the trainer's four invariants other than `SettlesBeforeTheCap`,
`NoClusterIsGivenUp` and `DistortionNeverGrows`, for every sample, cap, number of clusters and
iterations, every tolerance and every draw, assuming that vectors lie on a line, with the square of
a difference for their distance (`KMeansAssumption`).

- `CapCorrect`: each swap of the partial shuffle leaves a permutation, so the first
  `TrainingSampleSize` places name different indices (`SubsampleIndicesFacts`).
- `SeedsCorrect`: `WeightedPick` stops at a point whose own weight raised the running sum, and a
  positive weight means no centroid is there yet (`WeightedPickFacts`, `NextSeedFacts`); `IInv` adds
  to the property what the seeding has reached so far.
- `NoClusterGivenUp` is about the pass after which the loop stops. A cluster with members had one
  nearest to its old centroid; the new one and every other are within the tolerance of theirs, so
  that point is nearest up to both tolerances (`PassKeepsNearest`, from `ShiftsBelow`: two places
  near two centroids are ordered as those are, up to how far they are off). An empty cluster got its
  centroid from the recovery, a point no nearer to any centroid than any point is to its nearest; yet
  it is within the tolerance of the old centroid, which was one of them. So every point is within
  the tolerance of some centroid (`PassCovers`).
- `NoEmptyCluster` carries the condition `FineTolerance`: a shift below the tolerance is none. Then a
  settled model is a fixed point of `LloydPass` (`IInv`). An empty cluster of such a model got its
  centroid from the recovery, so it is a point as far from every centroid as any, and being a
  centroid itself that distance is zero: every point is a centroid (`SettledCovers`). Then points lie
  where their centroids are, and with at least as many distinct points as clusters no two centroids
  coincide, so each one has its points (`CentroidAssigned`), the empty one too.
- `DistortionCorrect` is stated `ExactMeans => (Spec => DistortionNeverGrows)`. The hypothesis says
  that no division for a mean leaves a remainder. It asks for a scale and not for special data: any
  integers satisfy it once multiplied by a common multiple of 1 to `TrainingSampleSize`. TLC
  evaluates it on each instance (`LineAssumption` of `MCKMeansTrainer`). Of all places the mean is
  the one from which the squared distances of a cluster's points add up to the least (`MeanIsBest`:
  a centroid p costs n(p - m)^2 more than the mean m of n points). So no cluster costs more against
  its new centroid than against its old one (`ClusterImproves`), and added up over the clusters no
  pass costs more (`PassImproves`), for every point was assigned to a nearest centroid before
  (`AssignedIsNearest`) and what it pays afterwards is at most the distance to that cluster's new
  one. The recovery moves only centroids no point is assigned to, hence costs nothing.
- `TypeCorrect`: a mean of coordinates lies between the least and the greatest
  (`MeanIsPoint`, rounding included).
- `TrainerDelivers`: `KMeans` and `SubsampleIndices` have the types that `TrainerAssumption` of
  `IvfIndex` asks of `KMeans` and `Picks`: the index's assumption about its trainer is
  a theorem about the trainer.

### Probe tuning

`ProbeTuningProofs` proves the three properties of `suggest_n_probes` and `cluster_stats` from
`IndexInv`, assuming that a coverage is a fraction with a positive denominator (`CoverageAssumption`).

- `StatsAccount`: the ids of different lists are disjoint and their union is the domain of the map,
  so their sizes add up to `live_count` (`ListCounted`, `SizesAddUp`).
- `SuggestionLeastCover`: a descending order of the sizes exists (`DescendingExists`, by ranking
  lists as `IntoSortedVecRanks` ranks candidates), `SortedSizes` is its sequence (`SizeAtPosition`)
  and `CumSum(n)` is what its first n lists hold (`CumSumIsSum`). `LargestHoldMost` is the exchange
  argument: no n lists hold more. `CeilIsLeast` says that reaching `Target` is holding the share
  asked for.
- `SuggestionMonotone`: a larger fraction has no smaller target (`TargetGrows`), and the cases for
  0 and 1 lie at the ends (`SuggestedIsProbeCount`).

### The generator

`SplitMixProofs` proves `Spec => []TypeOK`, `[]UnitIsPositive`, `[]ExactOverAPeriod` and
`StreamHasFullPeriod`, at every width, for every bound and seed and every number of bits dropped.
`GeneratorAssumption` asks that the increment and the two multipliers are odd words and that the
shifts lie between 1 and the width less one; the constants of `rng.rs` at 64 bits are such words, so
what TLC runs at 8 bits is a theorem about the code's own parameters.

- `MixIsOneToOne`: no two states give the same word. `z ^ (z >> s)` leaves the highest bits as they
  are and each lower one is the sum of a bit and one above it, so two numbers with the same result
  agree in their first n bits for every n, from the highest down (`XorsAgree`, `ShiftedFromAbove`,
  `XorShiftIsOneToOne`). A product with an odd number modulo a power of two can be undone
  (`OddFactor`: a power of two that divides an odd multiple of d divides d).
- `PeriodCorrect`: by `OddFactor` again the states of a period are different (`StatesDiffer`), so
  their words are, and `PeriodSoFar`, part of the invariant, says that what was drawn are the words
  of the states passed since the period began. Only with it can a property compare a word
  with those drawn long before.
- `UniformCorrect`: `CountsReturned`, the other part, says that each tally is the number of accepted
  words drawn with that remainder. Over a whole period that is every word below the zone, a multiple
  of n (`ZoneIsMultiple`), in which each remainder comes equally often (`EachEquallyOften`); the
  zone is at least half of the words, whether n is above half of them or below.
- `UnitCorrect`: a fraction that is returned is a number of kept bits that is not zero, or the least
  one; `BitsFacts` says that there is one, and that none is above the largest.

### The configuration

`IvfConfigProofs` proves the invariants of `IvfConfig` for every size, dimension and metric, and
`StaysAcceptable`: `new` would accept the index's copy as it is now. Its assumptions are that sizes
and dimensions are naturals and that the metrics of PQ are among the metrics. `ConfigInv` is the
type with `StaysAcceptable`, which is inductive: of the checks of `Outcome` a change of `n_probes`
can disturb one, and a change of the refine factor none (`OutcomeWithProbes`, `OutcomeWithRefine`).
The checked properties follow from it.

### Only model-checked

- `DrawsEnd`: liveness is out of the prover's reach.
- `SettlesBeforeTheCap`: no theorem, because it does not hold for all constants. A cap on the
  iterations can be too low for any given sample; that 25 suffice is a fact about samples, which TLC
  establishes for those of `kmeans`.
- `DistortionNeverGrows` outside `ExactMeans`: the model's mean is rounded down, which on other
  coordinates can raise the distortion by a little (as rounding to `f32` can in the code).
- The runs of section 4, each a counterexample.

A recursive function, unlike a recursive operator, can be reasoned about here although the library's
induction theorems cannot be used: that it exists, and what it computes, is shown from the least
number at which it would fail (`LeastNatural`, `UpTo` and `StepByStep` of `SharedLemmas`). The sums,
`SelectTopK`, `Passing`, the subsample, the seeding, `LloydPass`, `CumSum`, `PowerOf2` and `Xor` are
done that way. What is shown of a finite set by taking elements one after the other is a statement
about the family of its subsets that satisfy it (`OneByOne`).

## 6. What is not modelled

- Errors of the other crates in a search: `compute_batch` (`search.rs:115`, `168`, `239`,
  `pq_variant.rs:260`), `build_query_tables` (`pq_variant.rs:104`, `158`) and `tables.distance`
  (`114`, `171`) return a `Result` that the scans hand on with `?`. They are assumed not to fail. They
  are given the shapes of queries, vectors, centroids and codes, which the checks before them, `train`
  and `insert` have settled. An error there would be returned by `search` and change no state;
  `AnswersAreSound` says "succeeds" under this assumption.
- Floating point: overflow, NaN and rounding of distances and means. Nothing in the code rejects a
  vector with a NaN, and no documentation says what becomes of it (see the hazards). The trainer is
  exact; the index sees distances as naturals, searches as integers. A coverage is an exact
  fraction; in the code it is an `f32`, and `live_count * coverage` is exact in `f64` as long
  as `live_count` is below 2^29.
- Overflow of `refine_factor * k`, which saturates and is then limited to the candidates: the
  model limits it directly.
- `size_variance` of the statistics, metadata of hits, evaluation of filters.
- Memory accounting, tracing, `flush` (a no-op).
- `insert_batch` and `search_batch`, loops of the `iqdb_index` traits over the calls
  modelled.
- The seed: it is a payload of the configuration, and of the generator's draws the trainer sees all
  that are possible. The words of the 64-bit stream are not computed.
- The accessors, and the crate root, benches and examples: no state of their own.

## 7. What could follow

Every operation that changes state is an action of a module, and every invariant that holds for all
constants is proved.

1. The distortion in more than one dimension: squared distances add up over the coordinates, so
   `MeanIsBest` would be used once for each.
2. A bound on the iterations: under `ExactMeans` a pass that moves a centroid with points lowers the
   distortion, so that the iterations settle within a number that depends on the sample.
3. The proofs themselves: the longest (`PutBackRestores`, `InsertKeeps`, `DeleteKeeps`) share steps
   that could be lemmas.
