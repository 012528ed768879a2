-------------------------- MODULE IvfSearchProperties --------------------------
(***************************************************************************)
(* What a search promises in every state a sequence of calls can reach.    *)
(***************************************************************************)
EXTENDS IvfSearch

\* The index's own settings, and the answer they give to a well-formed request.
Cfg == [n_probes |-> n_probes, pq_refine_factor |-> pq_refine_factor]
Answer(q, k, filter) == Search(Cfg, q, TRUE, k, filter)

Accepted(filter) == {e \in Entries : Accepts(filter, e)}

EntryOf(id) == CHOOSE e \in Entries : e.id = id

\* The order of two points for a query, read off the metric itself; of equally
\* near ones the one with the lower stamp comes first.
Ahead(q, p, s, o, t) ==
  LET x == Compute[q, p]
      y == Compute[q, o]
  IN  (IF DotProduct THEN x > y ELSE x < y) \/ (x = y /\ s < t)

\* The exact order of two entries.
Nearer(q, e, f) == Ahead(q, e.vector, e.seq, f.vector, f.seq)

\* The accepted entries of the lists whose centroids have fewer than n_probes
\* others ahead of them.
InReach(q, filter) ==
  {e \in Accepted(filter) :
     LET home == id_to_cluster[e.id]
     IN  Cardinality({c \in Clusters : Ahead(q, centroids[c], c, centroids[home], home)})
           < n_probes}

\* The point an entry is scored by when there is no refine.
ScanPoint(e) == IF UsePq THEN Reconstruct[e.pq_code] ELSE e.vector

-----------------------------------------------------------------------------

\* A well-formed request on a trained index succeeds, whatever failed before
\* it, and returns as many hits as the accepted entries of the probed lists
\* allow: live, accepted, each once, in ascending order of distance, with exact
\* distances unless codes alone decide (search.rs, pq_variant.rs).  The errors
\* "the quantizer was not trained" and "entry without a code" are never met.
AnswersAreSound ==
  trained =>
    \A q \in Queries, k \in Ks, filter \in Filters \cup {NoFilter} :
      LET answer  == Answer(q, k, filter)
          hits    == answer.hits
          probed  == Range(Probed(Cfg, q))
          inReach == {e \in Accepted(filter) : id_to_cluster[e.id] \in probed}
          size    == Cardinality(inReach)
      IN  /\ answer.outcome = "Ok"
          /\ Len(hits) = IF k < size THEN k ELSE size
          /\ \A r, s \in DOMAIN hits : hits[r].id = hits[s].id => r = s
          /\ \A r \in DOMAIN hits : \E e \in inReach :
               /\ e.id = hits[r].id
               /\ ~UsePq \/ pq_refine_factor # 0 => hits[r].distance = Nearness(q, e.vector)
          /\ \A r, s \in DOMAIN hits : r < s => hits[r].distance <= hits[s].distance

\* With every list probed, and every candidate rescored when there are codes,
\* the answer is the exact one: rank r goes to the entry with exactly r - 1
\* accepted entries nearer or as near and older, whatever cluster each is in
\* (tests/proptest_invariants.rs: "must return exactly what the brute-force ...
\* oracle returns - same ids, same order").
ExhaustiveSearchIsExact ==
  trained /\ n_probes = NClusters =>
    \A q \in Queries, k \in Ks, filter \in Filters \cup {NoFilter} :
      LET accepted == Accepted(filter)
          size     == Cardinality(accepted)
          hits     == Answer(q, k, filter).hits
      IN  (UsePq => pq_refine_factor * k >= size) =>
            /\ Len(hits) = IF k < size THEN k ELSE size
            /\ \A r \in DOMAIN hits :
                 Cardinality({e \in accepted : Nearer(q, e, EntryOf(hits[r].id))}) = r - 1

\* Whatever number of lists is probed, and by codes alone too, the best entries
\* in reach are found, best first, as the metric and not its negation orders
\* centroids and entries: the one at rank r has exactly r - 1 ahead of it
\* (search.rs:116, 169 and 240, pq_variant.rs:119 and 172: negated inner products).
BestInReachIsFound ==
  trained /\ (UsePq => pq_refine_factor = 0) =>
    \A q \in Queries, k \in Ks, filter \in Filters \cup {NoFilter} :
      LET inReach == InReach(q, filter)
          size    == Cardinality(inReach)
          hits    == Answer(q, k, filter).hits
      IN  /\ Len(hits) = IF k < size THEN k ELSE size
          /\ \A r \in DOMAIN hits : \E e \in inReach :
               /\ e.id = hits[r].id
               /\ Cardinality({f \in inReach : Ahead(q, ScanPoint(f), f.seq, ScanPoint(e), e.seq)})
                    = r - 1

\* The metric orders points as squared_l2, which places the entries, does, and
\* no point is as near a vector as the vector itself.
MetricAgrees ==
  /\ Vectors \subseteq Queries
  /\ \A v \in Vectors, p, o \in Points :
       Nearness(v, p) <= Nearness(v, o) <=> SquaredL2[p, v] <= SquaredL2[o, v]
  /\ \A v \in Vectors, p \in Points : p # v => SquaredL2[v, v] < SquaredL2[p, v]

\* Under a metric that orders points as squared_l2 does, a stored vector is
\* found by searching for it, even in the nearest list alone: insert, retrain
\* and search agree on the list, ties included.  Of copies the oldest is found.
StoredVectorIsFound ==
  ~UsePq =>
    \A e \in Entries :
      LET copies == {f \in Entries : f.vector = e.vector}
          oldest == CHOOSE f \in copies : \A g \in copies : f.seq <= g.seq
          hits   == Answer(e.vector, 1, NoFilter).hits
      IN  Len(hits) = 1 /\ hits[1].id = oldest.id

\* A filter is applied before the top k is taken, not after: the hit at rank r
\* is the r-th accepted one of the whole unfiltered ranking of the probed lists,
\* and there are k of them or as many as the ranking has.  Not so when a
\* shortlist by code lies in between (search.rs scan_flat_filtered,
\* pq_variant.rs scan_pq_filtered).
FilterComesFirst ==
  trained /\ (UsePq => pq_refine_factor = 0) =>
    \A q \in Queries :
      LET ranking == Answer(q, live_count, NoFilter).hits
      IN  \A filter \in Filters, k \in Ks :
            LET places == {i \in DOMAIN ranking : ranking[i].id \in filter}
                size   == Cardinality(places)
                hits   == Answer(q, k, filter).hits
            IN  /\ Len(hits) = IF k < size THEN k ELSE size
                /\ \A r \in DOMAIN hits : \E i \in places :
                     /\ Cardinality({j \in places : j < i}) = r - 1
                     /\ hits[r] = ranking[i]

\* One probe more never gives a worse answer: rank for rank the distance is no
\* larger, and there are no fewer hits (config.rs n_probes).  A shortlist by
\* code is excluded: an entry of the new list can crowd a nearer one out of it.
MoreProbesNeverWorse ==
  trained /\ n_probes < NClusters /\ (UsePq => pq_refine_factor = 0) =>
    \A q \in Queries, k \in Ks, filter \in Filters \cup {NoFilter} :
      LET fewer == Answer(q, k, filter).hits
          more  == Search([Cfg EXCEPT !.n_probes = @ + 1], q, TRUE, k, filter).hits
      IN  /\ Len(more) >= Len(fewer)
          /\ \A r \in DOMAIN fewer : more[r].distance <= fewer[r].distance

\* A larger refine factor never gives a worse answer, and any factor none worse
\* than codes alone: of the hits at least as many are as near in exact distance
\* as any one of the smaller factor's (tests/ivf_pq_recall.rs: "the refine path
\* must recover at least as much ground truth as the ADC-only path").
MoreRefineNeverWorse ==
  UsePq /\ trained =>
    \A q \in Queries, k \in Ks, filter \in Filters \cup {NoFilter} :
      LET less == {EntryOf(hit.id) : hit \in Range(Answer(q, k, filter).hits)}
      IN  \A factor \in RefineFactors : pq_refine_factor < factor =>
            LET found == Range(Search([Cfg EXCEPT !.pq_refine_factor = factor],
                                      q, TRUE, k, filter).hits)
                more  == {EntryOf(hit.id) : hit \in found}
                within(entries, e) ==
                  Cardinality({o \in entries : Nearness(q, o.vector) <= Nearness(q, e.vector)})
            IN  \A e \in less : within(more, e) >= within(less, e)
=============================================================================
