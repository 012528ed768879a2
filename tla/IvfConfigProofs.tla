--------------------------- MODULE IvfConfigProofs ---------------------------
(***************************************************************************)
(* The configuration of an index stays one the constructor would accept,   *)
(* for every number, dimension and metric.  The inductive invariant is     *)
(* StaysAcceptable with the types; the other two follow from it.           *)
(***************************************************************************)
EXTENDS IvfConfig, TLAPS

ConfigInv == TypeOK /\ StaysAcceptable

\* What new answers depends on n_probes only through Valid.
LEMMA OutcomeWithProbes ==
  ASSUME NEW dim \in Nat \ {0}, NEW metric, NEW c \in Config, NEW n \in Nat,
         Outcome(dim, metric, c) = "Ok"
  PROVE  Outcome(dim, metric, [c EXCEPT !.n_probes = n]) = "Ok"
           <=> n > 0 /\ n <= c.n_clusters
<1> DEFINE d == [c EXCEPT !.n_probes = n]
<1>1. /\ d.n_probes = n /\ d.n_clusters = c.n_clusters
      /\ d.training_sample_size = c.training_sample_size
      /\ d.use_pq = c.use_pq /\ d.pq_subvectors = c.pq_subvectors
  BY DEF Config
<1>2. Valid(c)
  BY DEF Outcome
<1>3. Valid(d) <=> n > 0 /\ n <= c.n_clusters
  <2> HIDE DEF d
  <2> QED  BY <1>1, <1>2 DEF Valid
<1>4. Outcome(dim, metric, d) = "Ok" <=> Valid(d)
  <2> HIDE DEF d
  <2> QED  BY <1>1, <1>2 DEF Outcome
<1> QED  BY <1>3, <1>4

\* The refine factor is read by no check.
LEMMA OutcomeWithRefine ==
  ASSUME NEW dim, NEW metric, NEW c \in Config, NEW factor \in Nat
  PROVE  Outcome(dim, metric, [c EXCEPT !.pq_refine_factor = factor])
           = Outcome(dim, metric, c)
<1> DEFINE d == [c EXCEPT !.pq_refine_factor = factor]
<1>1. /\ d.n_probes = c.n_probes /\ d.n_clusters = c.n_clusters
      /\ d.training_sample_size = c.training_sample_size
      /\ d.use_pq = c.use_pq /\ d.pq_subvectors = c.pq_subvectors
  BY DEF Config
<1> HIDE DEF d
<1> QED  BY <1>1 DEF Outcome, Valid

LEMMA InitHolds == Init => ConfigInv
BY DEF Init, ConfigInv, TypeOK, StaysAcceptable, Default, Config

LEMMA WithKeeps ==
  ASSUME ConfigInv, NEW field \in DOMAIN cfg, NEW value \in Choices(field),
         With(field, value)
  PROVE  ConfigInv'
<1>1. cfg \in Config /\ index = None /\ index' = None /\ reply' = "Ok"
  BY DEF ConfigInv, TypeOK, With
<1>2. cfg' \in Config
  BY <1>1, ConfigAssumption DEF With, Config, Choices, Numbers
<1> QED  BY <1>1, <1>2 DEF ConfigInv, TypeOK, StaysAcceptable

LEMMA NewKeeps ==
  ASSUME ConfigInv, NEW dim \in Dims, NEW metric \in Metrics, New(dim, metric)
  PROVE  ConfigInv'
<1>1. cfg \in Config /\ cfg' = cfg /\ reply' = Outcome(dim, metric, cfg)
  BY DEF ConfigInv, TypeOK, New
<1>2. reply' \in {"Ok", "InvalidConfig", "InvalidMetric"}
  BY <1>1 DEF Outcome
<1>3. CASE reply' = "Ok"
  <2>1. dim \in Nat \ {0}
    BY <1>1, <1>3, ConfigAssumption DEF Outcome
  <2>2. index' = [dim |-> dim, metric |-> metric, cfg |-> cfg]
    BY <1>3 DEF New
  <2> QED  BY <1>1, <1>2, <1>3, <2>1, <2>2 DEF ConfigInv, TypeOK, StaysAcceptable
<1>4. CASE reply' # "Ok"
  BY <1>1, <1>2, <1>4 DEF New, ConfigInv, TypeOK, StaysAcceptable
<1> QED  BY <1>3, <1>4

\* What a setter starts from.
LEMMA IndexFields ==
  ASSUME ConfigInv, index # None
  PROVE  /\ index \in [dim : Nat \ {0}, metric : Metrics, cfg : Config]
         /\ index.dim \in Nat \ {0} /\ index.cfg \in Config
         /\ Outcome(index.dim, index.metric, index.cfg) = "Ok"
BY DEF ConfigInv, TypeOK, StaysAcceptable

LEMMA SetNProbesKeeps ==
  ASSUME ConfigInv, NEW n \in Sizes, SetNProbes(n)
  PROVE  ConfigInv'
<1>1. index # None /\ cfg' = cfg /\ cfg \in Config
  BY DEF SetNProbes, ConfigInv, TypeOK
<1>2. n \in Nat
  BY ConfigAssumption
<1>3. CASE ~Settable(n)
  BY <1>1, <1>3 DEF SetNProbes, ConfigInv, TypeOK, StaysAcceptable
<1>4. CASE Settable(n)
  <2> DEFINE c == [index.cfg EXCEPT !.n_probes = n]
  <2>1. reply' = "Ok" /\ index' = [index EXCEPT !.cfg = c]
    BY <1>4 DEF SetNProbes
  <2>2. c \in Config
    BY <1>1, <1>2, IndexFields DEF Config
  <2>3. Outcome(index.dim, index.metric, c) = "Ok"
    BY <1>1, <1>2, <1>4, IndexFields, OutcomeWithProbes DEF Settable
  <2> HIDE DEF c
  <2>4. /\ index' \in [dim : Nat \ {0}, metric : Metrics, cfg : Config]
        /\ index'.dim = index.dim /\ index'.metric = index.metric /\ index'.cfg = c
    BY <1>1, <2>1, <2>2, IndexFields
  <2> QED  BY <1>1, <2>1, <2>3, <2>4 DEF ConfigInv, TypeOK, StaysAcceptable
<1> QED  BY <1>3, <1>4

LEMMA SetPqRefineFactorKeeps ==
  ASSUME ConfigInv, NEW factor \in Sizes, SetPqRefineFactor(factor)
  PROVE  ConfigInv'
<1> DEFINE c == [index.cfg EXCEPT !.pq_refine_factor = factor]
<1>1. /\ index # None /\ cfg' = cfg /\ cfg \in Config /\ reply' = "Ok"
      /\ index' = [index EXCEPT !.cfg = c]
  BY DEF SetPqRefineFactor, ConfigInv, TypeOK
<1>2. factor \in Nat
  BY ConfigAssumption
<1>3. c \in Config
  BY <1>1, <1>2, IndexFields DEF Config
<1>4. Outcome(index.dim, index.metric, c) = "Ok"
  BY <1>1, <1>2, IndexFields, OutcomeWithRefine
<1> HIDE DEF c
<1>5. /\ index' \in [dim : Nat \ {0}, metric : Metrics, cfg : Config]
      /\ index'.dim = index.dim /\ index'.metric = index.metric /\ index'.cfg = c
  BY <1>1, <1>3, IndexFields
<1> QED  BY <1>1, <1>4, <1>5 DEF ConfigInv, TypeOK, StaysAcceptable

LEMMA NextKeeps == ConfigInv /\ [Next]_vars => ConfigInv'
<1> SUFFICES ASSUME ConfigInv, [Next]_vars PROVE ConfigInv'
  OBVIOUS
<1>1. CASE \E field \in DOMAIN cfg : \E value \in Choices(field) : With(field, value)
  BY <1>1, WithKeeps
<1>2. CASE \E dim \in Dims, metric \in Metrics : New(dim, metric)
  BY <1>2, NewKeeps
<1>3. CASE \E n \in Sizes : SetNProbes(n)
  BY <1>3, SetNProbesKeeps
<1>4. CASE \E factor \in Sizes : SetPqRefineFactor(factor)
  BY <1>4, SetPqRefineFactorKeeps
<1>5. CASE UNCHANGED vars
  BY <1>5 DEF vars, ConfigInv, TypeOK, StaysAcceptable
<1> QED  BY <1>1, <1>2, <1>3, <1>4, <1>5 DEF Next

\* The invariant of the configuration (config.rs, index.rs).
THEOREM ConfigInvariant == Spec => []ConfigInv
<1> QED  BY InitHolds, NextKeeps, PTL DEF Spec

\* Every field keeps its type, and no index has the dimension 0.
THEOREM TypeCorrect == Spec => []TypeOK
<1>1. ConfigInv => TypeOK
  BY DEF ConfigInv
<1> QED  BY <1>1, ConfigInvariant, PTL

\* Whatever the setters did, new would accept the index's configuration.
THEOREM AcceptableCorrect == Spec => []StaysAcceptable
<1>1. ConfigInv => StaysAcceptable
  BY DEF ConfigInv
<1> QED  BY <1>1, ConfigInvariant, PTL

\* set_n_probes and the constructor draw the same line.
THEOREM SetterCorrect == Spec => []SetterAgreesWithNew
<1>1. ConfigInv => SetterAgreesWithNew
  <2> SUFFICES ASSUME ConfigInv, index # None, NEW n \in Sizes
               PROVE  Settable(n) <=>
                        Outcome(index.dim, index.metric,
                                [index.cfg EXCEPT !.n_probes = n]) = "Ok"
    BY DEF SetterAgreesWithNew
  <2>1. n \in Nat
    BY ConfigAssumption
  <2> QED  BY <2>1, IndexFields, OutcomeWithProbes DEF Settable
<1> QED  BY <1>1, ConfigInvariant, PTL

\* What the trainers and the search take for granted holds of every index.
THEOREM TrainersNeedsCorrect == Spec => []TrainersNeedsAreMet
<1>1. ConfigInv => TrainersNeedsAreMet
  <2> SUFFICES ASSUME ConfigInv, index # None PROVE TrainersNeedsAreMet
    BY DEF TrainersNeedsAreMet
  <2> DEFINE c == index.cfg
  <2>1. /\ c \in Config /\ index.dim \in Nat \ {0}
        /\ Outcome(index.dim, index.metric, c) = "Ok"
    BY IndexFields
  <2>2. Valid(c)
    BY <2>1 DEF Outcome
  <2>3. c.training_sample_size \in Nat \ {0} /\ c.n_probes \in 1..c.n_clusters
    BY <2>1, <2>2 DEF Valid, Config
  <2>4. ASSUME c.use_pq
        PROVE  /\ index.metric \in PqMetrics
               /\ \E width \in 1..index.dim : c.pq_subvectors * width = index.dim
    <3> DEFINE m == c.pq_subvectors
    <3>1. m \in Nat \ {0}
      BY <2>1, <2>2, <2>4 DEF Valid, Config
    <3>2. index.metric \in PqMetrics /\ index.dim % m = 0
      BY <2>1, <2>2, <2>4 DEF Outcome, Divides
    <3> DEFINE width == index.dim \div m
    <3>3. index.dim = m * width /\ width \in Int
      BY <2>1, <3>1, <3>2
    <3>4. width \in 1..index.dim
      <4> HIDE DEF width, m
      <4>1. width > 0
        BY <2>1, <3>1, <3>3
      <4>2. width <= index.dim
        BY <2>1, <3>1, <3>3, <4>1
      <4> QED  BY <2>1, <3>3, <4>1, <4>2
    <3> QED  BY <3>2, <3>3, <3>4
  <2> QED  BY <2>3, <2>4 DEF TrainersNeedsAreMet
<1> QED  BY <1>1, ConfigInvariant, PTL
=============================================================================
