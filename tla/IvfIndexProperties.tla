-------------------------- MODULE IvfIndexProperties --------------------------
(***************************************************************************)
(* What the calls of IvfIndex keep true, what a step may never do, and the *)
(* abstract store they implement.                                          *)
(***************************************************************************)
EXTENDS IvfIndex

TypeOK ==
  /\ trained \in BOOLEAN
  /\ centroids \in {<<>>} \cup [Clusters -> Points]
  /\ inverted_lists \in [Clusters -> Seq(Entry)]
  /\ DOMAIN id_to_cluster \subseteq Ids
  /\ id_to_cluster \in [DOMAIN id_to_cluster -> Clusters]
  /\ next_seq \in 0..MaxSeq
  /\ live_count \in Nat
  /\ pq \in {None} \cup Codebook
  /\ n_probes \in Clusters
  /\ pq_refine_factor \in RefineFactors
  /\ reply \in Reply

-----------------------------------------------------------------------------
(* Invariants *)

\* The map and the lists tell the same story after every call, the failed ones
\* included: each id of the map is at one position of the list the map names,
\* each entry of a list is in the map, and live_count counts them (index.rs
\* insert_inner, delete_inner, retrain).  delete relies on it to find what the
\* map promises, len() and the duplicate check to be right.
DirectoryExact ==
  /\ \A id \in DOMAIN id_to_cluster :
       \E p \in DOMAIN inverted_lists[id_to_cluster[id]] :
         inverted_lists[id_to_cluster[id]][p].id = id
  /\ \A c \in Clusters : \A p \in DOMAIN inverted_lists[c] :
       LET id == inverted_lists[c][p].id
       IN  /\ id \in DOMAIN id_to_cluster
           /\ id_to_cluster[id] = c
           /\ \A q \in DOMAIN inverted_lists[c] : inverted_lists[c][q].id = id => q = p
  /\ live_count = Cardinality(DOMAIN id_to_cluster)

\* No two live entries carry the same stamp and every stamp is below the next
\* one, through deletes, failed inserts and retrains: the top-k tie-break and
\* the order retrain works in depend on it (index.rs next_seq).
StampsDistinct ==
  \A c, d \in Clusters :
    \A p \in DOMAIN inverted_lists[c], q \in DOMAIN inverted_lists[d] :
      /\ inverted_lists[c][p].seq < next_seq
      /\ inverted_lists[c][p].seq = inverted_lists[d][q].seq => c = d /\ p = q

\* Every entry lies in the list of the first of its nearest centroids, as of
\* the centroids the index has now: a probe of that list must find it
\* (index.rs insert_inner and the reassign loop of retrain).
NearestPlacement ==
  \A c \in Clusters : \A p \in DOMAIN inverted_lists[c] :
    \A d \in Clusters :
      LET v == inverted_lists[c][p].vector
      IN  /\ SquaredL2[centroids[c], v] <= SquaredL2[centroids[d], v]
          /\ d < c => SquaredL2[centroids[c], v] < SquaredL2[centroids[d], v]

\* Every entry's code encodes its own vector through the codebook the index
\* has now, and there is no code without a codebook: a scan scores codes with
\* the tables of the current codebook only (index.rs retrain, pq_variant.rs).
CodesCurrent ==
  \A c \in Clusters : \A p \in DOMAIN inverted_lists[c] :
    inverted_lists[c][p].pq_code =
      IF pq = None THEN None ELSE Encode(pq, inverted_lists[c][p].vector)

\* "`Some` iff `cfg.use_pq` is `true` AND the index has been trained", also
\* after a training or a retraining that stopped half-way (index.rs:168).
PqIffTrained == (pq # None) <=> (UsePq /\ trained)

\* The inductive invariant: the parts above with what training establishes.
IndexInv ==
  /\ TypeOK
  /\ trained => centroids \in [Clusters -> Points]
  /\ ~trained => DOMAIN id_to_cluster = {}
  /\ IsFiniteSet(DOMAIN id_to_cluster)
  /\ DirectoryExact
  /\ StampsDistinct
  /\ NearestPlacement
  /\ CodesCurrent
  /\ PqIffTrained

\* What a retrain that succeeded leaves behind: a model and a layout that the
\* live vectors and their stamps alone decide.
Rebuilt ==
  reply = [call |-> "retrain", outcome |-> "Ok"] /\ live_count # 0 =>
    /\ centroids = KMeans[0, RetrainSet]
    /\ UsePq => pq = RetrainSet
    /\ inverted_lists = ListsOf(Entries, centroids)
    /\ id_to_cluster = MapOf(Entries, centroids)

-----------------------------------------------------------------------------
(* Action properties *)

\* A retrain directly after a successful one changes nothing: its outcome
\* depends on the live vectors and their stamps only, not on the order in which
\* swap_remove and the previous layout left them (index.rs retrain).
RetrainIsIdempotent ==
  [][ /\ Retrain
      /\ reply = [call |-> "retrain", outcome |-> "Ok"]
      /\ reply'.outcome = "Ok"
      => UNCHANGED index ]_vars

\* A sample train takes: every vector of the index's dimension, and enough of them
\* for k-means and for the quantizer.
Trainable(s) ==
  /\ s # <<>>
  /\ WrongDim \notin Range(s)
  /\ Len(s) >= NClusters
  /\ UsePq => Len(s) >= PqMinSample

\* Training can be tried again: whatever stopped earlier attempts and whatever
\* they left behind, a sample train takes is trained on, and the index is then
\* the one a first attempt would have made (index.rs train, where the centroids
\* of a failed attempt stay).
TrainForgetsFailures ==
  [][\A s \in Samples : ~trained /\ Trainable(s) /\ Train(s) =>
       /\ reply' = [call |-> "train", outcome |-> "Ok"]
       /\ trained' = TRUE
       /\ centroids' = KMeans[IF Len(s) > TrainingSampleSize THEN TrainingSampleSize ELSE 0,
                              Subsample(s)]
       /\ pq' = IF UsePq THEN s ELSE None
       /\ Entries' = {} /\ DOMAIN id_to_cluster' = {}
       /\ live_count' = 0 /\ next_seq' = 0]_vars

-----------------------------------------------------------------------------
(* The abstract store *)

StoredVectors == {[id |-> e.id, vector |-> e.vector, seq |-> e.seq] : e \in Entries}

Store == INSTANCE VectorStore WITH
           Ids <- Ids, Vectors <- Vectors, Stamps <- Stamps,
           ready <- trained, store <- StoredVectors, reply <- reply

\* Seen from outside, the index is the store of VectorStore: only insert,
\* delete and a failed retrain change what is held, each in the way that module
\* says (index.rs, all calls).
ImplementsVectorStore == Store!Spec

-----------------------------------------------------------------------------
(* What the documentation says and the code does not do *)

\* "Rebuild centroids ... over the currently-stored vectors ... without losing
\* any data" (index.rs:357).
RetrainKeepsEveryVector ==
  [][reply'.call = "retrain" => StoredVectors' = StoredVectors]_vars

\* "Length is `cfg.n_clusters` after training and `0` before" (index.rs:147).
NoCentroidsBeforeTraining == ~trained => centroids = <<>>

\* "The codebooks are trained on the same working set as the coarse k-means
\* centroids" (index.rs:169), which training_sample_size caps.
PqTrainedWithinTheCap == pq # None => Len(pq) <= TrainingSampleSize
=============================================================================
