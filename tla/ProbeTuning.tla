------------------------------ MODULE ProbeTuning ------------------------------
(***************************************************************************)
(* The read-only reports on the layout of an IvfIndex: suggest_n_probes    *)
(* (src/src/index.rs) and the occupancy snapshot of src/src/stats.rs.  A   *)
(* coverage is a fraction <<numerator, denominator>>.                      *)
(***************************************************************************)
EXTENDS IvfIndexProperties

CONSTANT Coverages  \* the coverages callers ask for, refused ones included

ASSUME CoverageAssumption ==
  \A c \in Coverages : c[1] \in Int /\ c[2] \in Nat \ {0}

Sizes == [c \in Clusters |-> Len(inverted_lists[c])]

\* The sizes in descending order: at position i the size that i lists reach and
\* fewer than i exceed.
SortedSizes ==
  [i \in Clusters |->
     CHOOSE n \in Range(Sizes) :
       /\ Cardinality({c \in Clusters : Sizes[c] >= n}) >= i
       /\ Cardinality({c \in Clusters : Sizes[c] > n}) < i]

\* The total of the n largest lists.
CumSum(n) ==
  LET sorted == SortedSizes
      sum[i \in 0..n] == IF i = 0 THEN 0 ELSE sum[i - 1] + sorted[i]
  IN  sum[n]

\* ceil(live_count * coverage).
Target(coverage) == (live_count * coverage[1] + coverage[2] - 1) \div coverage[2]

\* Mutant of FirstPrefix: the lists are taken in the order of their clusters.
UnsortedPrefix(coverage) ==
  LET sum[i \in 0..NClusters] == IF i = 0 THEN 0 ELSE sum[i - 1] + Sizes[i]
      enough == {n \in Clusters : sum[n] >= Target(coverage)}
  IN  IF enough = {} THEN NClusters ELSE CHOOSE n \in enough : \A m \in enough : n <= m

\* Mutant of FirstPrefix: the index of the last list taken, counted from 0.
ZeroBasedPrefix(coverage) ==
  LET enough == {n \in Clusters : CumSum(n) >= Target(coverage)}
  IN  IF enough = {} THEN NClusters
      ELSE (CHOOSE n \in enough : \A m \in enough : n <= m) - 1

\* The first prefix of the sorted lists that reaches the target.
FirstPrefix(coverage) ==
  LET enough == {n \in Clusters : CumSum(n) >= Target(coverage)}
  IN  IF enough = {} THEN NClusters ELSE CHOOSE n \in enough : \A m \in enough : n <= m

SuggestNProbes(coverage) ==
  CASE coverage[1] < 0 \/ coverage[1] > coverage[2] -> [outcome |-> "InvalidConfig", n |-> 0]
    [] OTHER ->
       [outcome |-> "Ok",
        n |-> IF ~trained \/ live_count = 0 \/ NClusters = 1 \/ coverage[1] = 0 THEN 1
              ELSE IF coverage[1] = coverage[2] THEN NClusters
              ELSE FirstPrefix(coverage)]

\* IvfClusterStats::from_sizes.  Its mean is the total over NClusters; its
\* variance is for human eyes and left out.
ClusterStats ==
  IF trained
  THEN [sizes |-> Sizes, total |-> SumFunction(Sizes)]
  ELSE [sizes |-> <<>>, total |-> 0]

-----------------------------------------------------------------------------

Legal == {c \in Coverages : SuggestNProbes(c).outcome = "Ok"}

Suggested(coverage) == SuggestNProbes(coverage).n

\* The number suggested is enough and no more than that: some choice of so many
\* lists holds the share of the vectors asked for, and no choice of one list
\* less does, a coverage of one asking for every list whatever it holds
\* (index.rs:500-509, tests/probe_tuning.rs).
SuggestionIsLeastCover ==
  trained /\ live_count > 0 =>
    \A c \in Legal :
      LET covers(lists) == SumFunctionOnSet(Sizes, lists) * c[2] >= live_count * c[1]
      IN  /\ \E lists \in SUBSET Clusters :
               Cardinality(lists) = Suggested(c) /\ covers(lists)
          /\ c[1] < c[2] => \A lists \in SUBSET Clusters :
               Cardinality(lists) < Suggested(c) /\ lists # {} => ~covers(lists)

\* A higher coverage never asks for fewer probes, across the special cases for
\* 0 and 1, and set_n_probes takes whatever is suggested in any state.
SuggestionIsMonotone ==
  \A c, d \in Legal :
    /\ Suggested(c) \in Clusters
    /\ c[1] * d[2] <= d[1] * c[2] => Suggested(c) <= Suggested(d)

\* The sizes in the statistics add up to len(): a call that fails half-way
\* leaves no vector counted that no list holds, and none held uncounted.
StatsAccountForEveryVector == ClusterStats.total = live_count
=============================================================================
