------------------------------ MODULE IvfSearch ------------------------------
(***************************************************************************)
(* What a search answers in a state of IvfIndex: src/src/search.rs and the *)
(* scans of src/src/pq_variant.rs.  A search changes nothing (`&self`), so *)
(* it is an operator on the state, for a query, a number of hits and a     *)
(* filter, with the checks in the order the code makes them.  `cfg` holds  *)
(* the two tunable fields of IvfIndex::cfg; SelectTopK bounds n_probes by  *)
(* the number of centroids as it bounds any k.                             *)
(*                                                                         *)
(* compute_batch, build_query_tables and PqAdcTables::distance return a    *)
(* Result, and search hands their errors on.  They are taken not to fail:  *)
(* what they can object to is a shape, and the checks before them and the  *)
(* code of every entry settle the shapes.                                  *)
(*                                                                         *)
(* A filter is the set of the ids whose metadata satisfies it: an id has   *)
(* one live entry, and callers give it any metadata they like.             *)
(***************************************************************************)
EXTENDS IvfIndexProperties, TopK, SequencesExt

CONSTANTS
  Queries,      \* the vectors callers search for
  Compute,      \* compute_batch under the index's metric: <<query, point>> to a number
  DotProduct,   \* whether that metric is DotProduct, where more is nearer
  Reconstruct,  \* <<codebook, vector>> to the point the vector's code stands for
  NoFilter,     \* SearchParams::filter = None
  BadFilter,    \* a filter FilterEvaluator::new refuses
  Filters,      \* the filters callers use, sets of ids
  Ks            \* the values of SearchParams::k

ASSUME SearchAssumption ==
  /\ DotProduct \in BOOLEAN
  /\ \A f \in Filters : f \subseteq Ids
  /\ NoFilter \notin Filters \cup {BadFilter}
  /\ BadFilter \notin Filters
  /\ Ks \subseteq Nat
  /\ RefineFactors \subseteq Nat
  /\ WrongDim \notin Queries
  /\ None \notin Codebook \X Vectors
  /\ \A q \in Queries, p \in Points : Compute[q, p] \in Int
  /\ UsePq => \A q \in Queries, book \in Codebook, v \in Vectors :
                Compute[q, Reconstruct[Encode(book, v)]] \in Int

-----------------------------------------------------------------------------
(* Pass 1: the lists to probe *)

\* The distance a hit reports: smaller is nearer under every metric.
Nearness(q, p) == IF DotProduct THEN -Compute[q, p] ELSE Compute[q, p]

\* Mutant of ScoredCentroids: the sign of an inner product is left as it is.
RawCentroids(q) ==
  [c \in Clusters |-> [dist |-> Compute[q, centroids[c]], seq |-> c, cluster |-> c]]

ScoredCentroids(q) ==
  [c \in Clusters |-> [dist |-> Nearness(q, centroids[c]), seq |-> c, cluster |-> c]]

\* Mutant of Probed: of equally near centroids the last comes first.
ProbedFromTheLast(cfg, q) ==
  LET chosen == SelectTopK([c \in Clusters |-> [ScoredCentroids(q)[c] EXCEPT !.seq = -c]],
                           cfg.n_probes)
  IN  [i \in DOMAIN chosen |-> chosen[i].cluster]

\* The n_probes nearest centroids; of equally near ones the lower index.
Probed(cfg, q) ==
  LET chosen == SelectTopK(ScoredCentroids(q), cfg.n_probes)
  IN  [i \in DOMAIN chosen |-> chosen[i].cluster]

-----------------------------------------------------------------------------
(* Pass 2: the scan of the probed lists *)

Accepts(filter, e) == filter = NoFilter \/ e.id \in filter

\* Mutant of Survivors: the first entry the filter drops ends its list.
SurvivorsUntilDropped(cfg, q, filter) ==
  LET probed == Probed(cfg, q)
      upto(list) == {n \in 0..Len(list) : \A i \in 1..n : Accepts(filter, list[i])}
  IN  FlattenSeq([i \in DOMAIN probed |->
        LET list == inverted_lists[probed[i]]
        IN  SubSeq(list, 1, CHOOSE n \in upto(list) : \A m \in upto(list) : m <= n)])

\* The entries of one list the filter accepts, in the order of the list.
Passing(list, filter) ==
  LET passing[n \in 0..Len(list)] ==
        IF n = 0 THEN <<>>
        ELSE IF Accepts(filter, list[n]) THEN Append(passing[n - 1], list[n])
        ELSE passing[n - 1]
  IN  passing[Len(list)]

\* The entries the filter accepts, list after list.
Survivors(cfg, q, filter) ==
  LET probed == Probed(cfg, q)
  IN  FlattenSeq([i \in DOMAIN probed |-> Passing(inverted_lists[probed[i]], filter)])

Candidate(e, distance) == [dist |-> distance, seq |-> e.seq, entry |-> e]

\* Mutants of Exact: ties go to the entry scanned first, and the sign of an
\* inner product is left as it is.
ExactByPosition(q, entries) ==
  [i \in DOMAIN entries |-> [dist |-> Nearness(q, entries[i].vector), seq |-> i,
                             entry |-> entries[i]]]
ExactRaw(q, entries) ==
  [i \in DOMAIN entries |-> Candidate(entries[i], Compute[q, entries[i].vector])]

\* compute_batch over the vectors the entries keep.
Exact(q, entries) ==
  [i \in DOMAIN entries |-> Candidate(entries[i], Nearness(q, entries[i].vector))]

\* Mutant of Adc: the sign of an inner product is left as it is.
AdcRaw(q, entries) ==
  [i \in DOMAIN entries |-> Candidate(entries[i], Compute[q, Reconstruct[entries[i].pq_code]])]

\* PqAdcTables::distance: the query against the point a code stands for.
Adc(q, entries) ==
  [i \in DOMAIN entries |-> Candidate(entries[i], Nearness(q, Reconstruct[entries[i].pq_code]))]

Failed(error) == [outcome |-> error, hits |-> <<>>]

Found(chosen) ==
  [outcome |-> "Ok",
   hits |-> [r \in DOMAIN chosen |-> [id |-> chosen[r].entry.id, distance |-> chosen[r].dist]]]

\* Mutant of ScanFlat: the filter is applied to the top k.
ScanThenFilter(cfg, q, k, filter) ==
  Found(SelectSeq(SelectTopK(Exact(q, Survivors(cfg, q, NoFilter)), k),
                  LAMBDA c : Accepts(filter, c.entry)))

\* scan_flat_unfiltered and scan_flat_filtered; compute_batch does not fail.
ScanFlat(cfg, q, k, filter) == Found(SelectTopK(Exact(q, Survivors(cfg, q, filter)), k))

EntriesOf(cands) == [i \in DOMAIN cands |-> cands[i].entry]

\* Mutants of FinishScanPq: the refine keeps the shortlist's order, and the
\* shortlist has the length of the answer.
ShortlistAsItIs(cfg, q, k, cands) ==
  IF cfg.pq_refine_factor = 0
  THEN Found(SelectTopK(cands, k))
  ELSE Found(SubSeq(Exact(q, EntriesOf(SelectTopK(cands, cfg.pq_refine_factor * k))), 1,
                    Cap(cands, k)))
ShortlistOfK(cfg, q, k, cands) ==
  IF cfg.pq_refine_factor = 0
  THEN Found(SelectTopK(cands, k))
  ELSE Found(SelectTopK(Exact(q, EntriesOf(SelectTopK(cands, k))), k))

\* finish_scan_pq: the answer by code, or a shortlist by code rescored exactly.
FinishScanPq(cfg, q, k, cands) ==
  IF cfg.pq_refine_factor = 0
  THEN Found(SelectTopK(cands, k))
  ELSE Found(SelectTopK(Exact(q, EntriesOf(SelectTopK(cands, cfg.pq_refine_factor * k))), k))

\* scan_pq_unfiltered and scan_pq_filtered: an entry the filter drops is never
\* asked for its code.  Of the errors only a missing codebook or code is modelled.
ScanPq(cfg, q, k, filter) ==
  LET entries == Survivors(cfg, q, filter)
  IN  IF pq = None \/ \E i \in DOMAIN entries : entries[i].pq_code = None
      THEN Failed("InvalidConfig")
      ELSE FinishScanPq(cfg, q, k, Adc(q, entries))

-----------------------------------------------------------------------------

\* IndexCore::search, every return of its own; compute_batch does not fail.
Search(cfg, q, sameMetric, k, filter) ==
  CASE ~trained                                            -> Failed("InvalidConfig")
    [] trained /\ q = WrongDim                             -> Failed("DimensionMismatch")
    [] trained /\ q # WrongDim /\ ~sameMetric              -> Failed("InvalidMetric")
    [] OTHER ->
       IF k = 0 \/ live_count = 0 THEN Found(<<>>)
       ELSE IF filter = BadFilter THEN Failed("InvalidFilter")
       ELSE IF centroids = <<>> THEN Found(<<>>)
       ELSE IF UsePq THEN ScanPq(cfg, q, k, filter)
       ELSE ScanFlat(cfg, q, k, filter)
=============================================================================
