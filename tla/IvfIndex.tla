------------------------------- MODULE IvfIndex -------------------------------
(***************************************************************************)
(* The IVF index of src/src/index.rs: its fields and every call that can   *)
(* change them (train, insert, delete, retrain, the two setters), with     *)
(* every early return and every point at which a call can fail half-way.   *)
(*                                                                         *)
(* All mutation goes through `&mut self`, so a call runs to its end before *)
(* the next begins: one call is one action.  What makes the index hard is  *)
(* what a call leaves behind when it returns early.                        *)
(*                                                                         *)
(* Clusters are numbered from 1 here and from 0 in the code.  Metadata is  *)
(* a payload that travels with its entry and is left out.                  *)
(***************************************************************************)
EXTENDS Assign, Integers, Sequences, FiniteSets, Functions

CONSTANTS
  Ids,                 \* the ids callers use
  Vectors,             \* the vectors callers insert and train on
  Points,              \* what a centroid can be: the vectors and their means
  WrongDim,            \* a vector whose length is not the index's dim
  None,                \* Option::None
  TrainingSampleSize,  \* cfg.training_sample_size
  UsePq,               \* cfg.use_pq
  PqMinSample,         \* ProductQuantizer::train refuses fewer vectors than this
  QuantizeMayFail,     \* whether ProductQuantizer::quantize can return Err
  RefineFactors,       \* the values of cfg.pq_refine_factor considered
  Samples,             \* the samples callers pass to train
  MaxSeq,              \* u64::MAX, the value next_seq cannot pass
  MaxLen,              \* a length no sample and no snapshot exceeds
  Picks,               \* subsample_refs: the indices kept of n vectors, for each n
  KMeans               \* train_kmeans after its checks: <<draws used, working set>>
                       \* to centroids

Stamps == 0..(MaxSeq - 1)

\* Every working set k-means can see: training_sample_size caps its length.
WorkingSets == UNION {[1..n -> Vectors] : n \in 1..TrainingSampleSize}

ASSUME ConfigAssumption ==
  /\ NClusters \in Nat \ {0}
  /\ TrainingSampleSize \in Nat \ {0}
  /\ UsePq \in BOOLEAN
  /\ PqMinSample \in Nat
  /\ QuantizeMayFail \in BOOLEAN
  /\ MaxSeq \in Nat
  /\ MaxLen \in Nat
  /\ MaxSeq <= MaxLen
  /\ \A s \in Samples : s \in Seq(Vectors \cup {WrongDim}) /\ Len(s) <= MaxLen

ASSUME DataAssumption ==
  /\ Vectors \subseteq Points
  /\ WrongDim \notin Points
  /\ \A p \in Points, v \in Vectors : SquaredL2[p, v] \in Nat
  /\ None \notin Seq(Vectors)

\* The two steps of training that are computed elsewhere: the partial
\* Fisher-Yates subsample and k-means, both determined by cfg.seed.
ASSUME TrainerAssumption ==
  /\ \A n \in (TrainingSampleSize + 1)..MaxLen :
       Picks[n] \in [1..TrainingSampleSize -> 1..n]
  /\ \A ws \in WorkingSets, drawn \in {0, TrainingSampleSize} :
       KMeans[drawn, ws] \in [Clusters -> Points]

VARIABLES
  trained,           \* the `trained` flag
  centroids,         \* <<>> until the first training reaches its k-means
  inverted_lists,    \* one sequence of entries per cluster
  id_to_cluster,     \* a function on the ids held
  next_seq,          \* the next insertion stamp
  live_count,        \* the number of live entries
  pq,                \* None, or the codebook: the sample it was trained on
  n_probes,          \* cfg.n_probes, which set_n_probes overrides
  pq_refine_factor,  \* cfg.pq_refine_factor, which its setter overrides
  reply              \* the last call and what it returned

index == <<trained, centroids, inverted_lists, id_to_cluster, next_seq,
           live_count, pq, n_probes, pq_refine_factor>>
vars == <<index, reply>>

-----------------------------------------------------------------------------
(* Helpers *)

\* A codebook is identified by the sample that determines it: one given to
\* train, whole, or the capped working set of a retrain.  A code is identified
\* by the codebook and the vector it encodes.
Codebook == {book \in WorkingSets \cup Samples :
               PqMinSample <= Len(book) /\ WrongDim \notin Range(book)}
Encode(book, v) == <<book, v>>

Entry == [id : Ids, vector : Vectors, pq_code : {None} \cup (Codebook \X Vectors),
          seq : Stamps]

\* The entries of S by ascending stamp: position i holds the entry with
\* exactly i entries of S stamped no later.
SortBySeq(S) ==
  [i \in 1..Cardinality(S) |->
     CHOOSE e \in S : Cardinality({f \in S : f.seq <= e.seq}) = i]

Subsample(s) ==
  IF Len(s) <= TrainingSampleSize THEN s
  ELSE [i \in 1..TrainingSampleSize |-> s[Picks[Len(s)][i]]]

\* Mutant of SwapRemove: a pop.
PopInstead(s, pos) == [i \in 1..(Len(s) - 1) |-> s[i]]

\* Vec::swap_remove: the last element takes the place of the removed one.
SwapRemove(s, pos) ==
  [i \in 1..(Len(s) - 1) |-> IF i = pos THEN s[Len(s)] ELSE s[i]]

Calls == {"new", "train", "insert", "delete", "retrain", "set_n_probes",
          "set_pq_refine_factor"}
Outcomes == {"Ok", "InvalidConfig", "DimensionMismatch", "Duplicate", "NotFound",
             "QuantizeError"}
Reply == [call : Calls, outcome : Outcomes]

Entries == UNION {Range(inverted_lists[c]) : c \in Clusters}

Returns(call, outcome) == reply' = [call |-> call, outcome |-> outcome]

Refuse(call, error) == Returns(call, error) /\ UNCHANGED index

-----------------------------------------------------------------------------
(* new_unconfigured *)

Init ==
  /\ trained = FALSE
  /\ centroids = <<>>
  /\ inverted_lists = [c \in Clusters |-> <<>>]
  /\ id_to_cluster = [id \in {} |-> 0]
  /\ next_seq = 0
  /\ live_count = 0
  /\ pq = None
  /\ n_probes \in Clusters
  /\ pq_refine_factor \in RefineFactors
  /\ reply = [call |-> "new", outcome |-> "Ok"]

-----------------------------------------------------------------------------
(* train *)

\* Mutant of TrainRefused: centroids, not the flag, tell that there was a training.
RefusedOnceFitted(sample) ==
  \/ /\ centroids # <<>> \/ sample = <<>>
     /\ Refuse("train", "InvalidConfig")
  \/ /\ ~trained
     /\ WrongDim \in Range(sample)
     /\ Refuse("train", "DimensionMismatch")
  \/ /\ ~trained
     /\ sample # <<>>
     /\ WrongDim \notin Range(sample)
     /\ Len(sample) < NClusters
     /\ Refuse("train", "InvalidConfig")

TrainRefused(sample) ==
  \/ /\ trained \/ sample = <<>>
     /\ Refuse("train", "InvalidConfig")
  \/ /\ ~trained
     /\ WrongDim \in Range(sample)
     /\ Refuse("train", "DimensionMismatch")
  \/ /\ ~trained
     /\ sample # <<>>
     /\ WrongDim \notin Range(sample)
     /\ Len(sample) < NClusters
     /\ Refuse("train", "InvalidConfig")

\* Mutant of TrainOutcome: the flag is raised before the quantizer is trained.
TrainMarksEarly(sample) ==
  /\ trained' = TRUE
  /\ pq' = IF UsePq /\ Len(sample) >= PqMinSample THEN sample ELSE pq
  /\ Returns("train", IF UsePq /\ Len(sample) < PqMinSample THEN "InvalidConfig" ELSE "Ok")

\* The quantizer, when there is one, is trained on the whole sample.
TrainOutcome(sample) ==
  \/ /\ UsePq
     /\ Len(sample) < PqMinSample
     /\ Returns("train", "InvalidConfig")
     /\ UNCHANGED <<trained, pq>>
  \/ /\ UsePq => Len(sample) >= PqMinSample
     /\ pq' = IF UsePq THEN sample ELSE pq
     /\ trained' = TRUE
     /\ Returns("train", "Ok")

\* k-means runs first and its centroids are stored before the quantizer is
\* trained, so a quantizer failure leaves them behind.
TrainFitted(sample) ==
  /\ ~trained
  /\ sample # <<>>
  /\ WrongDim \notin Range(sample)
  /\ Len(sample) >= NClusters
  /\ centroids' =
       KMeans[IF Len(sample) > TrainingSampleSize THEN TrainingSampleSize ELSE 0,
              Subsample(sample)]
  /\ TrainOutcome(sample)
  /\ UNCHANGED <<inverted_lists, id_to_cluster, next_seq, live_count,
                 n_probes, pq_refine_factor>>

Train(sample) == TrainRefused(sample) \/ TrainFitted(sample)

-----------------------------------------------------------------------------
(* insert *)

InsertRefused(id, v) ==
  \/ /\ ~trained
     /\ Refuse("insert", "InvalidConfig")
  \/ /\ trained
     /\ v = WrongDim
     /\ Refuse("insert", "DimensionMismatch")
  \/ /\ trained
     /\ v # WrongDim
     /\ id \in DOMAIN id_to_cluster
     /\ Refuse("insert", "Duplicate")
  \/ /\ trained
     /\ v # WrongDim
     /\ id \notin DOMAIN id_to_cluster
     /\ next_seq + 1 > MaxSeq
     /\ Refuse("insert", "InvalidConfig")

\* Mutant of NewEntry: the count of live entries serves as the stamp.
StampedByCount(id, v) ==
  [id |-> id, vector |-> v, seq |-> live_count,
   pq_code |-> IF pq = None THEN None ELSE Encode(pq, v)]

NewEntry(id, v) ==
  [id |-> id, vector |-> v, seq |-> next_seq,
   pq_code |-> IF pq = None THEN None ELSE Encode(pq, v)]

\* The stamp is consumed before the fallible encoding, the rest after it.
InsertStamped(id, v) ==
  /\ trained
  /\ v # WrongDim
  /\ id \notin DOMAIN id_to_cluster
  /\ next_seq + 1 <= MaxSeq
  /\ next_seq' = next_seq + 1
  /\ \/ /\ pq # None
        /\ QuantizeMayFail
        /\ Returns("insert", "QuantizeError")
        /\ UNCHANGED <<inverted_lists, id_to_cluster, live_count>>
     \/ LET cluster == AssignToCluster(centroids, v)
        IN  /\ id_to_cluster' = [i \in DOMAIN id_to_cluster \cup {id} |->
                                   IF i = id THEN cluster ELSE id_to_cluster[i]]
            /\ inverted_lists' = [inverted_lists EXCEPT ![cluster] = Append(@, NewEntry(id, v))]
            /\ live_count' = live_count + 1
            /\ Returns("insert", "Ok")
  /\ UNCHANGED <<trained, centroids, pq, n_probes, pq_refine_factor>>

Insert(id, v) == InsertRefused(id, v) \/ InsertStamped(id, v)

-----------------------------------------------------------------------------
(* delete *)

DeleteRefused(id) ==
  /\ id \notin DOMAIN id_to_cluster
  /\ Refuse("delete", "NotFound")

\* The id leaves the map first.  Were it then missing from its list, the call
\* would return NotFound with only half of the entry gone.
DeleteMapped(id) ==
  /\ id \in DOMAIN id_to_cluster
  /\ id_to_cluster' = [i \in DOMAIN id_to_cluster \ {id} |-> id_to_cluster[i]]
  /\ LET cluster   == id_to_cluster[id]
         list      == inverted_lists[cluster]
         positions == {p \in DOMAIN list : list[p].id = id}
         pos       == CHOOSE p \in positions : \A q \in positions : p <= q
     IN  IF positions = {}
         THEN /\ Returns("delete", "NotFound")
              /\ UNCHANGED <<inverted_lists, live_count>>
         ELSE /\ inverted_lists' = [inverted_lists EXCEPT ![cluster] = SwapRemove(@, pos)]
              /\ live_count' = live_count - 1
              /\ Returns("delete", "Ok")
  /\ UNCHANGED <<trained, centroids, next_seq, pq, n_probes, pq_refine_factor>>

Delete(id) == DeleteRefused(id) \/ DeleteMapped(id)

-----------------------------------------------------------------------------
(* retrain *)

\* Mutant of Snapshot: the entries as the lists hold them, cluster by cluster.
UnsortedSnapshot ==
  LET places == UNION {{c} \X DOMAIN inverted_lists[c] : c \in Clusters}
      before(x, y) == x[1] < y[1] \/ (x[1] = y[1] /\ x[2] <= y[2])
      place(i) == CHOOSE y \in places : Cardinality({x \in places : before(x, y)}) = i
  IN  [i \in 1..Cardinality(places) |-> inverted_lists[place(i)[1]][place(i)[2]]]

\* Every live entry in insertion order, whatever order the lists hold them in.
Snapshot == SortBySeq(Entries)

\* The capped working set k-means and the quantizer are both trained on.
RetrainSet == Subsample([i \in DOMAIN Snapshot |-> Snapshot[i].vector])

\* Mutant of Reencode: an entry that has a code keeps it.
EncodeOnce(e, book) ==
  IF book = None \/ e.pq_code # None THEN e
  ELSE [e EXCEPT !.pq_code = Encode(book, e.vector)]

\* An entry encoded through the codebook of the index, when there is one.
Reencode(e, book) ==
  IF book = None THEN e ELSE [e EXCEPT !.pq_code = Encode(book, e.vector)]

\* The lists and the map when they hold `kept`, put in by ascending stamp.
ListsOf(kept, cents) ==
  [c \in Clusters |-> SortBySeq({e \in kept : AssignToCluster(cents, e.vector) = c})]

MapOf(kept, cents) ==
  [id \in {e.id : e \in kept} |->
     AssignToCluster(cents, (CHOOSE e \in kept : e.id = id).vector)]

\* `kept` has been put back, and no other.
Relist(kept, cents) ==
  /\ inverted_lists' = ListsOf(kept, cents)
  /\ id_to_cluster' = MapOf(kept, cents)

Reencoded(n, book) == {Reencode(Snapshot[i], book) : i \in 1..n}

\* Mutants of PutBack: entries placed under the old centroids, a count that was
\* not reset, and only the training sample put back.
PutBackUnderOldModel(n, cents, book) ==
  Relist(Reencoded(n, book), centroids) /\ live_count' = n
PutBackOnTop(n, cents, book) ==
  Relist(Reencoded(n, book), cents) /\ live_count' = live_count + n
PutBackSample(n, cents, book) ==
  LET m == IF n > TrainingSampleSize THEN TrainingSampleSize ELSE n
  IN  Relist(Reencoded(m, book), cents) /\ live_count' = m

\* What is left once the first n entries of the snapshot have been put back one
\* after the other; the others are dropped.
PutBack(n, cents, book) ==
  Relist(Reencoded(n, book), cents) /\ live_count' = n

RetrainRefused ==
  /\ ~trained
  /\ Refuse("retrain", "InvalidConfig")

RetrainEmpty ==
  /\ trained
  /\ live_count = 0
  /\ Refuse("retrain", "Ok")

\* The snapshot is taken out of the lists before anything that can fail, so
\* a trainer that fails drops it.
RetrainKMeansFails ==
  /\ trained
  /\ live_count # 0
  /\ Len(RetrainSet) < NClusters
  /\ PutBack(0, centroids, pq)
  /\ Returns("retrain", "InvalidConfig")
  /\ UNCHANGED <<trained, centroids, next_seq, pq, n_probes, pq_refine_factor>>

RetrainPqFails ==
  /\ trained
  /\ live_count # 0
  /\ Len(RetrainSet) >= NClusters
  /\ UsePq
  /\ Len(RetrainSet) < PqMinSample
  /\ centroids' = KMeans[0, RetrainSet]
  /\ PutBack(0, centroids', pq)
  /\ Returns("retrain", "InvalidConfig")
  /\ UNCHANGED <<trained, next_seq, pq, n_probes, pq_refine_factor>>

\* The reassign loop stops at the first entry the quantizer refuses.
RetrainFitted ==
  /\ trained
  /\ live_count # 0
  /\ Len(RetrainSet) >= NClusters
  /\ UsePq => Len(RetrainSet) >= PqMinSample
  /\ centroids' = KMeans[0, RetrainSet]
  /\ pq' = IF UsePq THEN RetrainSet ELSE pq
  /\ \/ /\ PutBack(Len(Snapshot), centroids', pq')
        /\ Returns("retrain", "Ok")
     \/ /\ UsePq
        /\ QuantizeMayFail
        /\ \E n \in 0..(Len(Snapshot) - 1) : PutBack(n, centroids', pq')
        /\ Returns("retrain", "QuantizeError")
  /\ UNCHANGED <<trained, next_seq, n_probes, pq_refine_factor>>

Retrain ==
  \/ RetrainRefused
  \/ RetrainEmpty
  \/ RetrainKMeansFails
  \/ RetrainPqFails
  \/ RetrainFitted

-----------------------------------------------------------------------------
(* The runtime setters *)

\* Mutant of SetNProbes: the bounds are not checked.
SetNProbesUnchecked(n) ==
  /\ n_probes' = n
  /\ Returns("set_n_probes", "Ok")
  /\ UNCHANGED <<trained, centroids, inverted_lists, id_to_cluster, next_seq,
                 live_count, pq, pq_refine_factor>>

SetNProbes(n) ==
  \/ /\ n \notin Clusters
     /\ Refuse("set_n_probes", "InvalidConfig")
  \/ /\ n \in Clusters
     /\ n_probes' = n
     /\ Returns("set_n_probes", "Ok")
     /\ UNCHANGED <<trained, centroids, inverted_lists, id_to_cluster, next_seq,
                    live_count, pq, pq_refine_factor>>

SetPqRefineFactor(factor) ==
  /\ pq_refine_factor' = factor
  /\ Returns("set_pq_refine_factor", "Ok")
  /\ UNCHANGED <<trained, centroids, inverted_lists, id_to_cluster, next_seq,
                 live_count, pq, n_probes>>

-----------------------------------------------------------------------------

Next ==
  \/ \E sample \in Samples : Train(sample)
  \/ \E id \in Ids, v \in Vectors \cup {WrongDim} : Insert(id, v)
  \/ \E id \in Ids : Delete(id)
  \/ Retrain
  \/ \E n \in 0..(NClusters + 1) : SetNProbes(n)
  \/ \E factor \in RefineFactors : SetPqRefineFactor(factor)

Spec == Init /\ [][Next]_vars
=============================================================================
