------------------------------- MODULE IvfConfig -------------------------------
(***************************************************************************)
(* IvfConfig of src/src/config.rs and what becomes of it: a caller changes *)
(* the default one field at a time, hands it to IvfIndex::new, which       *)
(* checks it against the dimension and the metric, and may change two      *)
(* fields of the index's copy later.  The checks are written three times   *)
(* in the code (validate, new, set_n_probes) and must agree.               *)
(*                                                                         *)
(* The seed is a payload here.  Which of the two errors refuses an index   *)
(* is modelled, the wording of its reason is not.                          *)
(***************************************************************************)
EXTENDS Integers

CONSTANTS
  None,       \* Option::None
  Sizes,      \* the numbers a caller tries for a field
  Dims,       \* the dimensions a caller tries
  PqMetrics,  \* Euclidean, DotProduct, Manhattan
  Metrics     \* all metrics of iqdb_types

ASSUME ConfigAssumption ==
  /\ Sizes \subseteq Nat
  /\ Dims \subseteq Nat
  /\ PqMetrics \subseteq Metrics
  /\ None \notin Nat

VARIABLES
  cfg,    \* the configuration the caller is building
  index,  \* None, or the index's dim, metric and copy of the configuration
  reply   \* what the last call returned

vars == <<cfg, index, reply>>

-----------------------------------------------------------------------------
(* IvfConfig *)

Config == [n_clusters : Nat, n_probes : Nat, training_sample_size : Nat,
           use_pq : BOOLEAN, pq_subvectors : {None} \cup Nat, pq_refine_factor : Nat]

Default == [n_clusters |-> 256, n_probes |-> 8, training_sample_size |-> 65536,
            use_pq |-> FALSE, pq_subvectors |-> None, pq_refine_factor |-> 4]

Numbers == {"n_clusters", "n_probes", "training_sample_size", "pq_refine_factor"}

\* What a caller can pass to the with_ method of each field.
Choices(field) ==
  CASE field = "use_pq"        -> BOOLEAN
    [] field = "pq_subvectors" -> {None} \cup Sizes
    [] field \in Numbers       -> Sizes

\* IvfConfig::validate.
Valid(c) ==
  /\ c.n_clusters > 0
  /\ c.n_probes > 0
  /\ c.n_probes <= c.n_clusters
  /\ c.training_sample_size > 0
  /\ c.use_pq => c.pq_subvectors # None /\ c.pq_subvectors >= 1

Init ==
  /\ cfg = Default
  /\ index = None
  /\ reply = "Ok"

\* The with_ methods: no field is checked against another here.  A caller whose
\* index exists has no more use for them: the index keeps a copy.
With(field, value) ==
  /\ index = None
  /\ cfg' = [cfg EXCEPT ![field] = value]
  /\ reply' = "Ok"
  /\ UNCHANGED index

-----------------------------------------------------------------------------
(* IvfIndex::new *)

\* Mutant of Divides: the operands are swapped.
DividesSwapped(m, dim) == m % dim = 0

Divides(m, dim) == dim % m = 0

\* Mutant of Outcome: the dimension is not checked.
OutcomeForAnyDim(dim, metric, c) ==
  IF ~Valid(c) THEN "InvalidConfig"
  ELSE IF c.use_pq /\ metric \notin PqMetrics THEN "InvalidMetric"
  ELSE IF c.use_pq /\ ~Divides(c.pq_subvectors, dim) THEN "InvalidConfig"
  ELSE "Ok"

\* What new answers: the checks in the code's order.
Outcome(dim, metric, c) ==
  IF dim = 0 \/ ~Valid(c) THEN "InvalidConfig"
  ELSE IF c.use_pq /\ metric \notin PqMetrics THEN "InvalidMetric"
  ELSE IF c.use_pq /\ ~Divides(c.pq_subvectors, dim) THEN "InvalidConfig"
  ELSE "Ok"

New(dim, metric) ==
  /\ index = None
  /\ reply' = Outcome(dim, metric, cfg)
  /\ index' = IF reply' = "Ok" THEN [dim |-> dim, metric |-> metric, cfg |-> cfg] ELSE None
  /\ UNCHANGED cfg

-----------------------------------------------------------------------------
(* The setters of the index *)

\* Mutant of Settable: the upper bound is one too low.
SettableBelowClusters(n) == n > 0 /\ n < index.cfg.n_clusters

\* What set_n_probes accepts.
Settable(n) == n > 0 /\ n <= index.cfg.n_clusters

SetNProbes(n) ==
  /\ index # None
  /\ \/ /\ ~Settable(n)
        /\ reply' = "InvalidConfig"
        /\ UNCHANGED index
     \/ /\ Settable(n)
        /\ reply' = "Ok"
        /\ index' = [index EXCEPT !.cfg.n_probes = n]
  /\ UNCHANGED cfg

SetPqRefineFactor(factor) ==
  /\ index # None
  /\ index' = [index EXCEPT !.cfg.pq_refine_factor = factor]
  /\ reply' = "Ok"
  /\ UNCHANGED cfg

Next ==
  \/ \E field \in DOMAIN cfg : \E value \in Choices(field) : With(field, value)
  \/ \E dim \in Dims, metric \in Metrics : New(dim, metric)
  \/ \E n \in Sizes : SetNProbes(n)
  \/ \E factor \in Sizes : SetPqRefineFactor(factor)

Spec == Init /\ [][Next]_vars

-----------------------------------------------------------------------------
(* Properties *)

TypeOK ==
  /\ cfg \in Config
  /\ index \in {None} \cup [dim : Nat \ {0}, metric : Metrics, cfg : Config]
  /\ reply \in {"Ok", "InvalidConfig", "InvalidMetric"}

\* After any use of the setters an index still has a configuration new would
\* accept for it: nothing reads cfg with checks of its own (config.rs validate,
\* index.rs new_unconfigured, set_n_probes).
StaysAcceptable == index # None => Outcome(index.dim, index.metric, index.cfg) = "Ok"

\* "the validation here is identical to IvfConfig::validate's rules"
\* (index.rs:273): set_n_probes accepts a number exactly when an index of the same
\* shape could be built with it.
SetterAgreesWithNew ==
  index # None =>
    \A n \in Sizes :
      Settable(n) <=>
        Outcome(index.dim, index.metric, [index.cfg EXCEPT !.n_probes = n]) = "Ok"

\* What training relies on: a sample is capped to at least one vector, there is
\* a cluster to probe, and the quantizer gets a number of subvectors that
\* splits the dimension (train.rs kmeans_plus_plus, search.rs ivf_search,
\* pq_variant.rs:67 "can't fail on shape grounds").
TrainersNeedsAreMet ==
  index # None =>
    /\ index.cfg.training_sample_size \in Nat \ {0}
    /\ index.cfg.n_probes \in 1..index.cfg.n_clusters
    /\ index.cfg.use_pq =>
         /\ index.metric \in PqMetrics
         /\ \E width \in 1..index.dim : index.cfg.pq_subvectors * width = index.dim
=============================================================================
