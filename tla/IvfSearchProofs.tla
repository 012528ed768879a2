---------------------------- MODULE IvfSearchProofs ----------------------------
(***************************************************************************)
(* Theorems about the answers of IvfSearch in every state a sequence of    *)
(* calls can reach, for every value of the constants.                      *)
(***************************************************************************)
EXTENDS IvfIndexProofs, IvfSearchProperties

-----------------------------------------------------------------------------
(* Sequences that list a set *)

\* s holds each member of S at exactly one position, and nothing else.
Lists(s, S) ==
  /\ s \in Seq(S)
  /\ \A i, j \in 1..Len(s) : s[i] = s[j] => i = j
  /\ \A e \in S : \E i \in 1..Len(s) : s[i] = e

LEMMA ListsFacts ==
  ASSUME NEW s, NEW S, Lists(s, S)
  PROVE  /\ Len(s) \in Nat /\ DOMAIN s = 1..Len(s)
         /\ \A i \in 1..Len(s) : s[i] \in S
         /\ IsFiniteSet(S) /\ Cardinality(S) = Len(s)
<1>1. /\ Len(s) \in Nat /\ s \in [1..Len(s) -> S] /\ DOMAIN s = 1..Len(s)
  BY LenProperties DEF Lists
<1>2. /\ \A i, j \in 1..Len(s) : s[i] = s[j] => i = j
      /\ \A e \in S : \E i \in 1..Len(s) : s[i] = e
  BY DEF Lists
<1>3. IsFiniteSet(1..Len(s)) /\ Cardinality(1..Len(s)) = Len(s)
  BY <1>1, FS_Interval
<1>4. IsFiniteSet(S) /\ Cardinality(S) = Cardinality(1..Len(s))
  BY <1>1, <1>2, <1>3, OneToOneSize
<1> QED  BY <1>1, <1>3, <1>4

\* One more at the end.
LEMMA ListsAppended ==
  ASSUME NEW s, NEW S, Lists(s, S), NEW e, e \notin S
  PROVE  Lists(Append(s, e), S \cup {e})
<1>1. /\ Len(s) \in Nat /\ s \in Seq(S) /\ s \in Seq(S \cup {e})
      /\ \A i \in 1..Len(s) : s[i] \in S
  BY ListsFacts, SeqMonotonic, S \subseteq S \cup {e} DEF Lists
<1>2. /\ Append(s, e) \in Seq(S \cup {e})
      /\ Len(Append(s, e)) = Len(s) + 1
      /\ \A i \in 1..Len(s) : Append(s, e)[i] = s[i]
      /\ Append(s, e)[Len(s) + 1] = e
  BY <1>1, AppendProperties, e \in S \cup {e}
<1>3. ASSUME NEW i \in 1..(Len(s) + 1), NEW j \in 1..(Len(s) + 1),
             Append(s, e)[i] = Append(s, e)[j]
      PROVE  i = j
  <2>1. (i \in 1..Len(s) \/ i = Len(s) + 1) /\ (j \in 1..Len(s) \/ j = Len(s) + 1)
    BY <1>1
  <2> QED  BY <1>1, <1>2, <1>3, <2>1 DEF Lists
<1>4. ASSUME NEW f \in S \cup {e}
      PROVE  \E i \in 1..(Len(s) + 1) : Append(s, e)[i] = f
  <2>1. CASE f = e
    BY <1>1, <1>2, <2>1
  <2>2. CASE f \in S
    <3>1. PICK i \in 1..Len(s) : s[i] = f
      BY <2>2 DEF Lists
    <3> QED  BY <1>1, <1>2, <3>1
  <2> QED  BY <2>1, <2>2
<1> QED  BY <1>2, <1>3, <1>4 DEF Lists

\* One after the other.
LEMMA ListsJoined ==
  ASSUME NEW s, NEW S, Lists(s, S), NEW t, NEW T, Lists(t, T), S \cap T = {}
  PROVE  Lists(s \o t, S \cup T)
<1>1. /\ Len(s) \in Nat /\ s \in Seq(S) /\ s \in Seq(S \cup T)
      /\ \A i \in 1..Len(s) : s[i] \in S
  BY ListsFacts, SeqMonotonic, S \subseteq S \cup T DEF Lists
<1>2. /\ Len(t) \in Nat /\ t \in Seq(T) /\ t \in Seq(S \cup T)
      /\ \A i \in 1..Len(t) : t[i] \in T
  BY ListsFacts, SeqMonotonic, T \subseteq S \cup T DEF Lists
<1>3. /\ s \o t \in Seq(S \cup T)
      /\ Len(s \o t) = Len(s) + Len(t)
      /\ \A i \in 1..(Len(s) + Len(t)) :
           (s \o t)[i] = IF i <= Len(s) THEN s[i] ELSE t[i - Len(s)]
  BY <1>1, <1>2, ConcatProperties
<1> HIDE DEF Lists
<1>4. ASSUME NEW i \in 1..(Len(s) + Len(t)), NEW j \in 1..(Len(s) + Len(t)),
             (s \o t)[i] = (s \o t)[j]
      PROVE  i = j
  <2>1. /\ i <= Len(s) => i \in 1..Len(s)
        /\ ~(i <= Len(s)) => i - Len(s) \in 1..Len(t)
        /\ j <= Len(s) => j \in 1..Len(s)
        /\ ~(j <= Len(s)) => j - Len(s) \in 1..Len(t)
    BY <1>1, <1>2
  <2>2. (i <= Len(s)) <=> (j <= Len(s))
    BY <1>1, <1>2, <1>3, <1>4, <2>1
  <2>3. CASE i <= Len(s)
    BY <1>3, <1>4, <2>1, <2>2, <2>3 DEF Lists
  <2>4. CASE ~(i <= Len(s))
    <3>1. t[i - Len(s)] = t[j - Len(s)]
      BY <1>3, <1>4, <2>2, <2>4
    <3>2. i - Len(s) = j - Len(s)
      BY <2>1, <2>2, <2>4, <3>1 DEF Lists
    <3> QED  BY <1>1, <3>2
  <2> QED  BY <2>3, <2>4
<1>5. ASSUME NEW f \in S \cup T
      PROVE  \E i \in 1..(Len(s) + Len(t)) : (s \o t)[i] = f
  <2>1. CASE f \in S
    <3>1. PICK i \in 1..Len(s) : s[i] = f
      BY <2>1 DEF Lists
    <3>2. i \in 1..(Len(s) + Len(t)) /\ i <= Len(s)
      BY <1>1, <1>2
    <3> QED  BY <1>3, <3>1, <3>2
  <2>2. CASE f \in T
    <3>1. PICK i \in 1..Len(t) : t[i] = f
      BY <2>2 DEF Lists
    <3>2. /\ Len(s) + i \in 1..(Len(s) + Len(t)) /\ ~(Len(s) + i <= Len(s))
          /\ Len(s) + i - Len(s) = i
      BY <1>1, <1>2
    <3> QED  BY <1>3, <3>1, <3>2
  <2> QED  BY <2>1, <2>2
<1> QED  BY <1>3, <1>4, <1>5 DEF Lists

\* The filter of a scan keeps of a list exactly what it accepts (search.rs
\* scan_flat_filtered).
LEMMA PassingLists ==
  ASSUME NEW list, NEW S, Lists(list, S), NEW filter
  PROVE  Lists(Passing(list, filter), {e \in S : Accepts(filter, e)})
<1> DEFINE len == Len(list)
           turn(g, n) == IF n = 0 THEN <<>>
                         ELSE IF Accepts(filter, list[n]) THEN Append(g[n - 1], list[n])
                         ELSE g[n - 1]
           step == [x \in Seq(S) \X (1..len) |->
                      IF Accepts(filter, list[x[2]]) THEN Append(x[1], list[x[2]]) ELSE x[1]]
           p == CHOOSE g : g = [n \in 0..len |-> turn(g, n)]
           past(m) == {e \in S : Accepts(filter, e) /\ \E i \in 1..m : list[i] = e}
           reached == {m \in 0..len : Lists(p[m], past(m))}
<1>1. /\ len \in Nat
      /\ \A i \in 1..len : list[i] \in S
      /\ \A i, j \in 1..len : list[i] = list[j] => i = j
      /\ \A e \in S : \E i \in 1..len : list[i] = e
  BY ListsFacts DEF Lists
<1>2. Passing(list, filter) = p[len]
  BY DEF Passing
<1>3. \E g : g = [n \in 0..len |-> turn(g, n)]
  <2>1. step \in [Seq(S) \X (1..len) -> Seq(S)]
    <3>1. \A s \in Seq(S), n \in 1..len : Append(s, list[n]) \in Seq(S)
      BY <1>1, AppendProperties
    <3> QED  BY <3>1
  <2>2. <<>> \in Seq(S)
    BY EmptySeq
  <2>3. PICK g : Computed(g, Seq(S), <<>>, len, step)
    <3> HIDE DEF step, len
    <3> QED  BY <1>1, <2>1, <2>2, StepByStep
  <2>4. ASSUME NEW n \in 0..len
        PROVE  g[n] = turn(g, n)
    <3>1. CASE n = 0
      BY <2>3, <3>1 DEF Computed
    <3>2. CASE n # 0
      <4>1. n \in 1..len /\ n - 1 \in 0..len
        BY <1>1, <3>2
      <4>2. g[n - 1] \in Seq(S) /\ g[n] = step[<<g[n - 1], n>>]
        <5> HIDE DEF step, len
        <5> QED  BY <2>3, <4>1 DEF Computed
      <4> QED  BY <3>2, <4>1, <4>2
    <3> QED  BY <3>1, <3>2
  <2>5. g = [n \in 0..len |-> g[n]]
    BY <2>3 DEF Computed
  <2> HIDE DEF turn
  <2> QED  BY <2>4, <2>5
<1>4. \A n \in 0..len : p[n] = turn(p, n)
  <2> HIDE DEF turn
  <2>1. p = [n \in 0..len |-> turn(p, n)]
    BY <1>3, Zenon
  <2> HIDE DEF p
  <2> QED  BY <2>1
<1> HIDE DEF p
<1>5. 0 \in reached
  <2>1. p[0] = <<>> /\ past(0) = {}
    BY <1>1, <1>4
  <2>2. Lists(<<>>, {})
    BY EmptySeq DEF Lists
  <2> QED  BY <1>1, <2>1, <2>2
<1>6. ASSUME NEW m \in 1..len, m - 1 \in reached
      PROVE  m \in reached
  <2>1. m \in 0..len /\ m # 0 /\ m - 1 \in Nat
    BY <1>1
  <2>2. Lists(p[m - 1], past(m - 1))
    BY <1>6
  <2>3. p[m] = IF Accepts(filter, list[m]) THEN Append(p[m - 1], list[m]) ELSE p[m - 1]
    BY <1>4, <2>1
  <2>4. list[m] \in S /\ list[m] \notin past(m - 1)
    BY <1>1, <2>1
  <2>5. past(m) = IF Accepts(filter, list[m]) THEN past(m - 1) \cup {list[m]}
                  ELSE past(m - 1)
    <3>1. \A i \in 1..m : i \in 1..(m - 1) \/ i = m
      BY <2>1
    <3>2. \A i \in 1..(m - 1) : i \in 1..m
      BY <2>1
    <3>3. m \in 1..m
      BY <2>1
    <3> HIDE DEF len
    <3> QED  BY <2>4, <3>1, <3>2, <3>3
  <2> HIDE DEF past
  <2> QED  BY <2>1, <2>2, <2>3, <2>4, <2>5, ListsAppended
<1>7. len \in reached
  <2>1. len \in Nat /\ len \in 0..len
    BY <1>1
  <2> HIDE DEF reached, len
  <2> QED  BY <1>5, <1>6, <2>1, UpTo
<1>8. past(len) = {e \in S : Accepts(filter, e)}
  BY <1>1
<1> QED  BY <1>2, <1>7, <1>8

\* The lists of a scan one after the other list what they list together
\* (search.rs scan_flat_unfiltered).
LEMMA FlattenLists ==
  ASSUME NEW n \in Nat, NEW seqs, seqs = [i \in 1..n |-> seqs[i]], NEW parts,
         \A i \in 1..n : Lists(seqs[i], parts[i]),
         \A i, j \in 1..n : i # j => parts[i] \cap parts[j] = {}
  PROVE  Lists(FlattenSeq(seqs), UNION {parts[i] : i \in 1..n})
<1> DEFINE turn(g, i) == IF i = 1 THEN seqs[i] ELSE g[i - 1] \o seqs[i]
           U == UNION {parts[i] : i \in 1..n}
           step == [x \in Seq(U) \X (1..n) |-> x[1] \o seqs[x[2]]]
           p == CHOOSE g : g = [i \in 1..n |-> turn(g, i)]
           past(m) == UNION {parts[i] : i \in 1..m}
           reached == {m \in 0..n : m = 0 \/ Lists(p[m], past(m))}
<1>1. Len(seqs) = n
  <2> DEFINE any == {seqs[i] : i \in 1..n}
  <2>1. seqs \in [1..n -> any]
    OBVIOUS
  <2> HIDE DEF any
  <2> QED  BY <2>1, LenProperties, SeqDef
<1>2. CASE n = 0
  <2>1. FlattenSeq(seqs) = seqs /\ seqs = <<>> /\ U = {}
    BY <1>1, <1>2 DEF FlattenSeq
  <2>2. Lists(<<>>, {})
    BY EmptySeq DEF Lists
  <2> QED  BY <2>1, <2>2
<1>3. CASE n # 0
  <2>1. FlattenSeq(seqs) = p[n]
    BY <1>1, <1>3 DEF FlattenSeq
  <2>2. \A i \in 1..n : seqs[i] \in Seq(U)
    <3> SUFFICES ASSUME NEW i \in 1..n PROVE seqs[i] \in Seq(U)
      OBVIOUS
    <3>1. parts[i] \subseteq U /\ seqs[i] \in Seq(parts[i])
      BY DEF Lists
    <3> HIDE DEF U
    <3> QED  BY <3>1, SeqMonotonic
  <2>3. \E g : g = [i \in 1..n |-> turn(g, i)]
    <3>1. step \in [Seq(U) \X (1..n) -> Seq(U)] /\ <<>> \in Seq(U)
      <4> HIDE DEF U
      <4> QED  BY <2>2, ConcatProperties, EmptySeq
    <3>2. PICK h : Computed(h, Seq(U), <<>>, n, step)
      <4> HIDE DEF step, U
      <4> QED  BY <3>1, StepByStep
    <3> DEFINE g == [i \in 1..n |-> h[i]]
    <3>3. ASSUME NEW i \in 1..n
          PROVE  g[i] = turn(g, i)
      <4>1. h[i - 1] \in Seq(U) /\ h[i] = h[i - 1] \o seqs[i]
        <5>1. h[i - 1] \in Seq(U) /\ h[i] = step[<<h[i - 1], i>>]
          <6> HIDE DEF step, U
          <6> QED  BY <3>2 DEF Computed
        <5> HIDE DEF U
        <5> QED  BY <5>1
      <4>2. CASE i = 1
        <5>1. h[i - 1] = <<>>
          BY <3>2, <4>2 DEF Computed
        <5> HIDE DEF U
        <5> QED  BY <2>2, <4>1, <4>2, <5>1, ConcatEmptySeq
      <4>3. CASE i # 1
        <5>1. g[i] = h[i] /\ g[i - 1] = h[i - 1]
          BY <4>3
        <5> HIDE DEF g
        <5> QED  BY <4>1, <4>3, <5>1
      <4> QED  BY <4>2, <4>3
    <3>4. g = [i \in 1..n |-> g[i]]
      OBVIOUS
    <3> HIDE DEF turn, g
    <3>5. g = [i \in 1..n |-> turn(g, i)]
      BY <3>3, <3>4
    <3> QED  BY <3>5
  <2>4. \A i \in 1..n : p[i] = turn(p, i)
    <3> HIDE DEF turn
    <3>1. p = [i \in 1..n |-> turn(p, i)]
      BY <2>3, Zenon
    <3> HIDE DEF p
    <3> QED  BY <3>1
  <2> HIDE DEF p
  <2>5. 0 \in reached
    OBVIOUS
  <2>6. ASSUME NEW m \in 1..n, m - 1 \in reached
        PROVE  m \in reached
    <3>1. m \in 0..n /\ Lists(seqs[m], parts[m])
      OBVIOUS
    <3>2. CASE m = 1
      <4>1. p[m] = seqs[m] /\ past(m) = parts[m]
        BY <2>4, <3>2
      <4> HIDE DEF past
      <4> QED  BY <3>1, <4>1
    <3>3. CASE m # 1
      <4>1. m - 1 \in 1..n /\ m - 1 # 0
        BY <3>3
      <4>2. Lists(p[m - 1], past(m - 1))
        BY <2>6, <4>1
      <4>3. p[m] = p[m - 1] \o seqs[m]
        BY <2>4, <3>3
      <4>4. past(m - 1) \cap parts[m] = {}
        <5>1. \A i \in 1..(m - 1) : i \in 1..n /\ i # m
          OBVIOUS
        <5> QED  BY <5>1
      <4>5. past(m) = past(m - 1) \cup parts[m]
        <5>1. \A i \in 1..m : i \in 1..(m - 1) \/ i = m
          OBVIOUS
        <5>2. m \in 1..m /\ \A i \in 1..(m - 1) : i \in 1..m
          OBVIOUS
        <5> QED  BY <5>1, <5>2
      <4> HIDE DEF past
      <4>6. Lists(p[m], past(m))
        BY <3>1, <4>2, <4>3, <4>4, <4>5, ListsJoined
      <4> QED  BY <3>1, <4>6
    <3> QED  BY <3>2, <3>3
  <2>7. n \in reached
    <3> HIDE DEF reached
    <3>1. n \in 0..n
      OBVIOUS
    <3> QED  BY <2>5, <2>6, <3>1, UpTo
  <2>8. past(n) = U
    OBVIOUS
  <2> HIDE DEF past, U
  <2> QED  BY <1>3, <2>1, <2>7, <2>8 DEF U
<1> QED  BY <1>2, <1>3

-----------------------------------------------------------------------------
(* What a scan reads *)

\* The inverted list of a cluster lists the entries the map places there.
LEMMA ClusterLists ==
  ASSUME IndexInv, NEW c \in Clusters
  PROVE  Lists(inverted_lists[c], {e \in Entries : id_to_cluster[e.id] = c})
<1> DEFINE list == inverted_lists[c]
           home == {e \in Entries : id_to_cluster[e.id] = c}
<1>0. TypeOK /\ DirectoryExact
  BY DEF IndexInv
<1>1. /\ Len(list) \in Nat /\ DOMAIN list = 1..Len(list) /\ list \in Seq(Entry)
      /\ \A p \in 1..Len(list) : list[p] \in Entries
  BY <1>0, ListEntry
<1>2. \A p \in 1..Len(list) : list[p] \in home
  BY <1>0, <1>1 DEF DirectoryExact
<1>3. list \in Seq(home)
  <2>1. list \in [1..Len(list) -> home]
    <3>1. list \in [1..Len(list) -> Entry]
      BY <1>1, LenProperties
    <3> HIDE DEF home, list
    <3> QED  BY <1>2, <3>1
  <2> HIDE DEF home, list
  <2> QED  BY <1>1, <2>1, SeqDef
<1>4. ASSUME NEW i \in 1..Len(list), NEW j \in 1..Len(list), list[i] = list[j]
      PROVE  i = j
  <2>1. list[j].id = list[i].id
    BY <1>4
  <2> QED  BY <1>0, <1>1, <2>1 DEF DirectoryExact
<1>5. ASSUME NEW e \in home
      PROVE  \E i \in 1..Len(list) : list[i] = e
  <2>1. PICK d \in Clusters : \E p \in DOMAIN inverted_lists[d] : inverted_lists[d][p] = e
    BY <1>0, EntryPosition
  <2>2. id_to_cluster[e.id] = d
    BY <1>0, <2>1 DEF DirectoryExact
  <2> QED  BY <1>1, <2>1, <2>2
<1> HIDE DEF list, home
<1>6. Lists(list, home)
  BY <1>3, <1>4, <1>5 DEF Lists
<1> QED  BY <1>6 DEF list, home

LEMMA Negated ==
  ASSUME NEW x \in Int, NEW y \in Int
  PROVE  -x \in Int /\ (-x < -y <=> x > y) /\ (-x = -y <=> x = y)
OBVIOUS

\* What a hit reports is a number and orders points as the metric does, an
\* inner product the other way round (search.rs, negated DotProduct).
LEMMA NearnessIsNumber ==
  ASSUME NEW q, NEW p, Compute[q, p] \in Int
  PROVE  Nearness(q, p) \in Int
<1>1. -Compute[q, p] \in Int
  BY Negated
<1> QED  BY <1>1, Zenon DEF Nearness

LEMMA NearnessOrders ==
  ASSUME NEW q, NEW p, Compute[q, p] \in Int, NEW o, Compute[q, o] \in Int
  PROVE  /\ Nearness(q, p) < Nearness(q, o) <=>
              IF DotProduct THEN Compute[q, p] > Compute[q, o]
              ELSE Compute[q, p] < Compute[q, o]
         /\ Nearness(q, p) = Nearness(q, o) <=> Compute[q, p] = Compute[q, o]
<1>1. /\ -Compute[q, p] < -Compute[q, o] <=> Compute[q, p] > Compute[q, o]
      /\ -Compute[q, p] = -Compute[q, o] <=> Compute[q, p] = Compute[q, o]
  BY Negated
<1> QED  BY <1>1, Zenon DEF Nearness

\* The centroids as candidates, and the nearest of them in order.
Centres(q) == {ScoredCentroids(q)[c] : c \in Clusters}
NearestCentres(cfg, q) == SelectTopK(ScoredCentroids(q), cfg.n_probes)
Probes(cfg) == IF cfg.n_probes < NClusters THEN cfg.n_probes ELSE NClusters

LEMMA CentresFacts ==
  ASSUME IndexInv, trained, NEW q \in Queries
  PROVE  /\ Rankable(Centres(q))
         /\ Cardinality(Centres(q)) = NClusters
         /\ Selectable(ScoredCentroids(q))
         /\ Candidates(ScoredCentroids(q)) = Centres(q)
         /\ Len(ScoredCentroids(q)) = NClusters
         /\ \A s \in Centres(q) : s.cluster \in Clusters /\ s = ScoredCentroids(q)[s.cluster]
         /\ \A c \in Clusters : /\ ScoredCentroids(q)[c].seq = c
                                /\ ScoredCentroids(q)[c].cluster = c
                                /\ ScoredCentroids(q)[c].dist = Nearness(q, centroids[c])
                                /\ Nearness(q, centroids[c]) \in Int
<1> DEFINE s == ScoredCentroids(q)
<1>1. NClusters \in Nat /\ Clusters = 1..NClusters
  BY ConfigAssumption DEF Clusters
<1>2. \A c \in Clusters : Nearness(q, centroids[c]) \in Int
  <2>1. \A c \in Clusters : Compute[q, centroids[c]] \in Int
    BY SearchAssumption DEF IndexInv
  <2> QED  BY <2>1, NearnessIsNumber
<1>3. \A c \in Clusters : s[c].seq = c /\ s[c].cluster = c /\ s[c].dist = Nearness(q, centroids[c])
  BY DEF ScoredCentroids
<1>4. /\ DOMAIN s = 1..NClusters
      /\ s \in [1..NClusters -> Centres(q)]
  BY <1>1 DEF ScoredCentroids, Centres
<1> HIDE DEF s
<1>5. Len(s) = NClusters
  BY <1>1, <1>4, LenProperties, SeqDef
<1>6. Centres(q) = {s[c] : c \in Clusters}
  BY DEF Centres, s
<1>7. Candidates(s) = Centres(q)
  BY <1>1, <1>5, <1>6 DEF Candidates
<1>8. \A t \in Centres(q) : t.cluster \in Clusters /\ t = s[t.cluster] /\ t.seq = t.cluster
  BY <1>3, <1>6
<1>9. IsFiniteSet(Centres(q)) /\ Cardinality(Centres(q)) = NClusters
  <2>1. IsFiniteSet(1..NClusters) /\ Cardinality(1..NClusters) = NClusters
    BY <1>1, FS_Interval
  <2>2. \A x, y \in 1..NClusters : s[x] = s[y] => x = y
    BY <1>1, <1>3
  <2>3. \A t \in Centres(q) : \E c \in 1..NClusters : s[c] = t
    BY <1>1, <1>8
  <2> QED  BY <1>4, <2>1, <2>2, <2>3, OneToOneSize
<1>10. \A t \in Centres(q) : Scored(t)
  BY <1>1, <1>2, <1>3, <1>8 DEF Scored
<1>11. \A t, u \in Centres(q) : t.seq = u.seq => t = u
  BY <1>8
<1>12. Rankable(Centres(q))
  BY <1>9, <1>10, <1>11 DEF Rankable
<1>13. Selectable(s)
  BY <1>1, <1>3, <1>5, <1>7, <1>12 DEF Selectable
<1> QED  BY <1>2, <1>3, <1>5, <1>7, <1>8, <1>9, <1>12, <1>13 DEF s

\* The probed lists: the nearest centroids, each once, in the order a ranking
\* of all of them has (search.rs pass 1).
LEMMA ProbedFacts ==
  ASSUME IndexInv, trained, NEW q \in Queries, NEW cfg, cfg.n_probes \in Nat
  PROVE  /\ Probes(cfg) \in 0..NClusters
         /\ RanksLeast(NearestCentres(cfg, q), Centres(q), Probes(cfg))
         /\ Probed(cfg, q) = [i \in 1..Probes(cfg) |-> NearestCentres(cfg, q)[i].cluster]
         /\ \A i \in 1..Probes(cfg) : Probed(cfg, q)[i] \in Clusters
         /\ \A i, j \in 1..Probes(cfg) : Probed(cfg, q)[i] = Probed(cfg, q)[j] => i = j
<1> DEFINE m == Probes(cfg)
           out == NearestCentres(cfg, q)
<1>1. m \in 0..NClusters /\ m = Cap(ScoredCentroids(q), cfg.n_probes) /\ m \in Nat
  BY CentresFacts, ConfigAssumption DEF Probes, Cap
<1>2. Rankable(Centres(q)) /\ RanksLeast(out, Centres(q), m)
  BY <1>1, CentresFacts, SelectTopKRanks DEF NearestCentres
<1> HIDE DEF m
<1>3. out \in [1..m -> Centres(q)]
  BY <1>2 DEF RanksLeast
<1>4. Probed(cfg, q) = [i \in 1..m |-> out[i].cluster]
  BY <1>3 DEF Probed, NearestCentres
<1> HIDE DEF out
<1>5. \A i \in 1..m : out[i].cluster \in Clusters /\ out[i] = ScoredCentroids(q)[out[i].cluster]
  BY <1>3, CentresFacts
<1>6. ASSUME NEW i \in 1..m, NEW j \in 1..m, out[i].cluster = out[j].cluster
      PROVE  i = j
  <2>1. out[i] = out[j]
    BY <1>5, <1>6
  <2>2. i \in Nat /\ j \in Nat
    BY <1>1
  <2>3. CASE i < j
    BY <1>1, <1>2, <2>1, <2>3, RanksAscend
  <2>4. CASE j < i
    BY <1>1, <1>2, <2>1, <2>4, RanksAscend
  <2> QED  BY <2>2, <2>3, <2>4
<1> QED  BY <1>1, <1>2, <1>4, <1>5, <1>6 DEF m, out

\* The entries a scan can return: accepted, in a probed list.
Reach(cfg, q, filter) ==
  {e \in Accepted(filter) : id_to_cluster[e.id] \in Range(Probed(cfg, q))}

\* A scan reads each of them once and nothing else (search.rs, pq_variant.rs).
LEMMA SurvivorsListReach ==
  ASSUME IndexInv, trained, NEW q \in Queries, NEW cfg, cfg.n_probes \in Nat, NEW filter
  PROVE  Lists(Survivors(cfg, q, filter), Reach(cfg, q, filter))
<1> DEFINE m == Probes(cfg)
           probed == Probed(cfg, q)
           seqs == [i \in 1..m |-> Passing(inverted_lists[probed[i]], filter)]
           home(c) == {e \in Entries : id_to_cluster[e.id] = c}
           parts == [i \in 1..m |-> {e \in home(probed[i]) : Accepts(filter, e)}]
<1>1. /\ m \in Nat /\ DOMAIN probed = 1..m
      /\ \A i \in 1..m : probed[i] \in Clusters
      /\ \A i, j \in 1..m : probed[i] = probed[j] => i = j
  BY ProbedFacts
<1>2. Survivors(cfg, q, filter) = FlattenSeq(seqs)
  BY <1>1 DEF Survivors
<1> HIDE DEF m, probed
<1>3. ASSUME NEW i \in 1..m
      PROVE  Lists(seqs[i], parts[i])
  <2>1. Lists(inverted_lists[probed[i]], home(probed[i]))
    BY <1>1, ClusterLists
  <2> HIDE DEF home
  <2>2. Lists(Passing(inverted_lists[probed[i]], filter), {e \in home(probed[i]) : Accepts(filter, e)})
    BY <2>1, PassingLists
  <2> QED  BY <2>2
<1>4. \A i, j \in 1..m : i # j => parts[i] \cap parts[j] = {}
  BY <1>1
<1>5. seqs = [i \in 1..m |-> seqs[i]]
  OBVIOUS
<1>6. UNION {parts[i] : i \in 1..m} = Reach(cfg, q, filter)
  <2>1. Range(probed) = {probed[i] : i \in 1..m}
    BY <1>1 DEF Range
  <2> QED  BY <2>1 DEF Reach, Accepted, probed
<1> HIDE DEF seqs, parts
<1> QED  BY <1>1, <1>2, <1>3, <1>4, <1>5, <1>6, FlattenLists

-----------------------------------------------------------------------------
(* Entries as candidates *)

\* The entries of S as candidates, their distances given by d.
CandidatesOf(S, d) == {Candidate(e, d[e]) : e \in S}

\* The exact distance of each entry, and its distance by code.
ByVector(q) == [e \in Entries |-> Nearness(q, e.vector)]
ByCode(q) == [e \in Entries |-> Nearness(q, Reconstruct[e.pq_code])]

LEMMA CandidateFields ==
  ASSUME NEW e, NEW x
  PROVE  /\ Candidate(e, x).dist = x
         /\ Candidate(e, x).seq = e.seq
         /\ Candidate(e, x).entry = e
BY DEF Candidate

LEMMA CandidatesOfFacts ==
  ASSUME IndexInv, NEW S \in SUBSET Entries, NEW d \in [Entries -> Int]
  PROVE  /\ IsFiniteSet(S)
         /\ Rankable(CandidatesOf(S, d))
         /\ Cardinality(CandidatesOf(S, d)) = Cardinality(S)
         /\ \A e \in S : Candidate(e, d[e]) \in CandidatesOf(S, d)
         /\ \A c \in CandidatesOf(S, d) :
              /\ c.entry \in S /\ c.seq = c.entry.seq /\ c.dist = d[c.entry]
              /\ c = Candidate(c.entry, d[c.entry])
<1> DEFINE C == CandidatesOf(S, d)
           cand == [e \in S |-> Candidate(e, d[e])]
<1>1. IsFiniteSet(S)
  BY EntriesFacts, FS_Subset
<1>2. \A e \in S : cand[e] \in C /\ cand[e].entry = e
  BY CandidateFields DEF CandidatesOf
<1>3. \A c \in C : /\ c.entry \in S /\ c.seq = c.entry.seq /\ c.dist = d[c.entry]
                   /\ c = Candidate(c.entry, d[c.entry]) /\ cand[c.entry] = c
  <2> SUFFICES ASSUME NEW e \in S
               PROVE  LET c == Candidate(e, d[e])
                      IN  /\ c.entry \in S /\ c.seq = c.entry.seq /\ c.dist = d[c.entry]
                          /\ c = Candidate(c.entry, d[c.entry]) /\ cand[c.entry] = c
    BY DEF CandidatesOf
  <2> QED  BY CandidateFields
<1>4. cand \in [S -> C]
  <2>1. cand = [e \in S |-> cand[e]]
    OBVIOUS
  <2> HIDE DEF cand, C
  <2> QED  BY <1>2, <2>1
<1>5. IsFiniteSet(C) /\ Cardinality(C) = Cardinality(S)
  <2> HIDE DEF cand, C
  <2> QED  BY <1>1, <1>2, <1>3, <1>4, OneToOneSize
<1>6. \A c \in C : Scored(c)
  <2> HIDE DEF C, cand
  <2> TAKE c \in C
  <2>1. c.entry \in S /\ c.seq = c.entry.seq /\ c.dist = d[c.entry]
    BY <1>3
  <2>2. c.entry.seq \in Nat /\ d[c.entry] \in Int
    BY <2>1, EntriesFacts
  <2> QED  BY <2>1, <2>2 DEF Scored
<1>7. \A b, c \in C : b.seq = c.seq => b = c
  <2> HIDE DEF C, cand
  <2> SUFFICES ASSUME NEW b \in C, NEW c \in C, b.seq = c.seq PROVE b = c
    OBVIOUS
  <2>1. /\ b.entry \in S /\ b.seq = b.entry.seq /\ cand[b.entry] = b
        /\ c.entry \in S /\ c.seq = c.entry.seq /\ cand[c.entry] = c
    BY <1>3
  <2>2. b.entry = c.entry
    BY <2>1, EntriesFacts
  <2> QED  BY <2>1, <2>2
<1>8. \A e \in S : Candidate(e, d[e]) \in C
  BY DEF CandidatesOf
<1> HIDE DEF C
<1> QED  BY <1>1, <1>3, <1>5, <1>6, <1>7, <1>8 DEF Rankable, C

\* The entries of a sequence as candidates, in its order.
ScoredBy(cands, entries, d) ==
  cands = [i \in 1..Len(entries) |-> Candidate(entries[i], d[entries[i]])]

\* A scan that scores entries by d selects from the candidates of what it read.
LEMMA ScoredEntries ==
  ASSUME IndexInv, NEW S \in SUBSET Entries, NEW d \in [Entries -> Int],
         NEW entries, Lists(entries, S), NEW cands, ScoredBy(cands, entries, d),
         NEW k \in Nat
  PROVE  /\ Cap(cands, k) = IF k < Cardinality(S) THEN k ELSE Cardinality(S)
         /\ Cap(cands, k) \in Nat
         /\ RanksLeast(SelectTopK(cands, k), CandidatesOf(S, d), Cap(cands, k))
<1>1. /\ Len(entries) \in Nat /\ Cardinality(S) = Len(entries)
      /\ \A i \in 1..Len(entries) : entries[i] \in S
      /\ \A i, j \in 1..Len(entries) : entries[i] = entries[j] => i = j
      /\ \A e \in S : \E i \in 1..Len(entries) : entries[i] = e
  BY ListsFacts DEF Lists
<1>2. Len(cands) = Len(entries) /\ \A i \in 1..Len(entries) : cands[i] = Candidate(entries[i], d[entries[i]])
  <2> DEFINE any == {Candidate(entries[i], d[entries[i]]) : i \in 1..Len(entries)}
  <2>1. cands \in [1..Len(entries) -> any]
    BY DEF ScoredBy
  <2>2. \A i \in 1..Len(entries) : cands[i] = Candidate(entries[i], d[entries[i]])
    BY DEF ScoredBy
  <2> HIDE DEF any
  <2> QED  BY <1>1, <2>1, <2>2, LenProperties, SeqDef
<1>3. Candidates(cands) = CandidatesOf(S, d)
  <2>1. \A c \in Candidates(cands) : c \in CandidatesOf(S, d)
    BY <1>1, <1>2 DEF Candidates, CandidatesOf
  <2>2. \A c \in CandidatesOf(S, d) : c \in Candidates(cands)
    BY <1>1, <1>2 DEF Candidates, CandidatesOf
  <2> QED  BY <2>1, <2>2
<1>4. \A i, j \in 1..Len(cands) : cands[i].seq = cands[j].seq => i = j
  <2> SUFFICES ASSUME NEW i \in 1..Len(cands), NEW j \in 1..Len(cands),
                      cands[i].seq = cands[j].seq
               PROVE  i = j
    OBVIOUS
  <2>1. entries[i].seq = entries[j].seq
    BY <1>2, CandidateFields
  <2>2. entries[i] \in Entries /\ entries[j] \in Entries
    BY <1>1, <1>2
  <2> QED  BY <1>1, <1>2, <2>1, <2>2, EntriesFacts
<1>5. Rankable(CandidatesOf(S, d))
  BY CandidatesOfFacts
<1>6. Selectable(cands)
  BY <1>1, <1>2, <1>3, <1>4, <1>5 DEF Selectable
<1>7. Cap(cands, k) \in Nat /\ RanksLeast(SelectTopK(cands, k), Candidates(cands), Cap(cands, k))
  BY <1>6, SelectTopKRanks
<1> QED  BY <1>1, <1>2, <1>3, <1>7 DEF Cap

-----------------------------------------------------------------------------
(* What a search answers *)

\* What a caller may ask: search.rs gives the filters it can evaluate a place of
\* their own, and a query of the index's dimension.
Request(cfg, q, k, filter) ==
  /\ cfg.n_probes \in Nat
  /\ cfg.pq_refine_factor \in Nat
  /\ q \in Queries
  /\ k \in Nat
  /\ filter \in Filters \cup {NoFilter}

AtMost(k, S) == IF k < Cardinality(S) THEN k ELSE Cardinality(S)

\* What a caller is told of n ranked candidates.
Reports(hits, out, n) ==
  hits = [r \in 1..n |-> [id |-> out[r].entry.id, distance |-> out[r].dist]]

\* The hits are the n least candidates of C, in order.
HitsRank(hits, C, n) == \E out : RanksLeast(out, C, n) /\ Reports(hits, out, n)

\* The entries at the first n ranks.
Ranked(out, n) == {out[i].entry : i \in 1..n}

\* S is a shortlist of n entries: the nearest by code of the entries in reach.
Shortlisted(S, R, q, n) ==
  \E out : /\ RanksLeast(out, CandidatesOf(R, ByCode(q)), n)
           /\ S = Ranked(out, n)

LEMMA ReachFacts ==
  ASSUME IndexInv, NEW cfg, NEW q, NEW filter
  PROVE  /\ Reach(cfg, q, filter) \in SUBSET Entries
         /\ IsFiniteSet(Reach(cfg, q, filter))
         /\ Cardinality(Reach(cfg, q, filter)) \in Nat
         /\ Cardinality(Reach(cfg, q, filter)) <= live_count
<1>1. Reach(cfg, q, filter) \in SUBSET Entries
  BY DEF Reach, Accepted
<1>2. IsFiniteSet(Entries)
  BY EntriesFacts
<1> QED  BY <1>1, <1>2, EntriesCounted, FS_Subset, FS_CardinalityType

\* While there are codes, the metric has a number for the point of each.
LEMMA ComputedByCode ==
  ASSUME IndexInv, UsePq, trained, NEW q \in Queries, NEW e \in Entries
  PROVE  Compute[q, Reconstruct[e.pq_code]] \in Int /\ e.pq_code # None
<1>1. e.vector \in Vectors
  BY EntriesFacts DEF Entry
<1>2. pq # None /\ pq \in Codebook
  BY DEF IndexInv, PqIffTrained, TypeOK
<1>3. PICK c \in Clusters : \E p \in DOMAIN inverted_lists[c] : inverted_lists[c][p] = e
  BY EntryPosition DEF IndexInv
<1>4. e.pq_code = Encode(pq, e.vector)
  BY <1>2, <1>3 DEF IndexInv, CodesCurrent
<1>5. Compute[q, Reconstruct[Encode(pq, e.vector)]] \in Int
  BY <1>1, <1>2, SearchAssumption
<1>6. Encode(pq, e.vector) # None
  <2>1. None \notin Codebook \X Vectors
    BY SearchAssumption, Zenon
  <2>2. Encode(pq, e.vector) \in Codebook \X Vectors
    BY <1>1, <1>2 DEF Encode
  <2> QED  BY <2>1, <2>2
<1> QED  BY <1>4, <1>5, <1>6

\* Both kinds of distance are numbers, the one by code while there are codes.
LEMMA DistancesAreNumbers ==
  ASSUME IndexInv, NEW q \in Queries
  PROVE  /\ ByVector(q) \in [Entries -> Int]
         /\ UsePq /\ trained => ByCode(q) \in [Entries -> Int]
         /\ UsePq /\ trained => pq # None /\ \A e \in Entries : e.pq_code # None
<1>1. ASSUME NEW e \in Entries
      PROVE  /\ Nearness(q, e.vector) \in Int
             /\ UsePq /\ trained => Nearness(q, Reconstruct[e.pq_code]) \in Int
             /\ UsePq /\ trained => e.pq_code # None
  <2>1. Compute[q, e.vector] \in Int
    BY EntriesFacts, SearchAssumption, DataAssumption DEF Entry
  <2>2. ASSUME UsePq, trained
        PROVE  Compute[q, Reconstruct[e.pq_code]] \in Int /\ e.pq_code # None
    BY <2>2, ComputedByCode
  <2> QED  BY <2>1, <2>2, NearnessIsNumber
<1> QED  BY <1>1 DEF ByVector, ByCode, IndexInv, PqIffTrained

\* What each scan returns, for entries that list what is in reach.
LEMMA ExactIsScored ==
  ASSUME IndexInv, NEW q \in Queries, NEW S \in SUBSET Entries, NEW entries, Lists(entries, S)
  PROVE  ScoredBy(Exact(q, entries), entries, ByVector(q))
<1>1. DOMAIN entries = 1..Len(entries) /\ \A i \in 1..Len(entries) : entries[i] \in Entries
  BY ListsFacts
<1> QED  BY <1>1 DEF Exact, ByVector, ScoredBy

LEMMA AdcIsScored ==
  ASSUME IndexInv, NEW q \in Queries, NEW S \in SUBSET Entries, NEW entries, Lists(entries, S)
  PROVE  ScoredBy(Adc(q, entries), entries, ByCode(q))
<1>1. DOMAIN entries = 1..Len(entries) /\ \A i \in 1..Len(entries) : entries[i] \in Entries
  BY ListsFacts
<1> QED  BY <1>1 DEF Adc, ByCode, ScoredBy

LEMMA FoundRanks ==
  ASSUME NEW out, NEW C, NEW n \in Nat, RanksLeast(out, C, n)
  PROVE  Found(out).outcome = "Ok" /\ HitsRank(Found(out).hits, C, n)
<1>1. DOMAIN out = 1..n
  BY DEF RanksLeast
<1>2. Reports(Found(out).hits, out, n)
  BY <1>1 DEF Found, Reports
<1> QED  BY <1>2 DEF Found, HitsRank

LEMMA NothingRanks ==
  ASSUME NEW C
  PROVE  Found(<<>>).outcome = "Ok" /\ HitsRank(Found(<<>>).hits, C, 0) /\ RanksLeast(<<>>, C, 0)
<1>1. RanksLeast(<<>>, C, 0)
  BY DEF RanksLeast
<1> QED  BY <1>1, FoundRanks

\* The entries of a ranking are different ones of those ranked.
LEMMA RankedEntries ==
  ASSUME IndexInv, NEW R \in SUBSET Entries, NEW d \in [Entries -> Int], NEW n \in Nat,
         NEW out, RanksLeast(out, CandidatesOf(R, d), n)
  PROVE  /\ Ranked(out, n) \in SUBSET R
         /\ DOMAIN out = 1..n
         /\ Lists(EntriesOf(out), Ranked(out, n))
         /\ Len(EntriesOf(out)) = n
<1> DEFINE C == CandidatesOf(R, d)
           S == Ranked(out, n)
           s == EntriesOf(out)
<1>1. Rankable(C) /\ out \in [1..n -> C] /\ \A c \in C : c.entry \in R /\ c.seq = c.entry.seq
  BY CandidatesOfFacts DEF RanksLeast
<1>2. s = [i \in 1..n |-> out[i].entry]
  BY <1>1 DEF EntriesOf
<1>3. S \in SUBSET R
  <2> HIDE DEF C
  <2> QED  BY <1>1 DEF Ranked
<1>4. s \in [1..n -> S]
  BY <1>2 DEF Ranked
<1> HIDE DEF C, s
<1>5. s \in Seq(S) /\ Len(s) = n
  <2> HIDE DEF S
  <2> QED  BY <1>4, SeqDef, LenProperties
<1>6. ASSUME NEW i \in 1..n, NEW j \in 1..n, s[i] = s[j]
      PROVE  i = j
  <2>1. out[i].entry = out[j].entry
    BY <1>2, <1>6
  <2>2. out[i].seq = out[j].seq
    BY <1>1, <2>1
  <2>3. out[i] = out[j]
    BY <1>1, <2>2 DEF Rankable
  <2>4. RanksLeast(out, C, n)
    BY DEF C
  <2>5. CASE i < j
    BY <1>1, <2>3, <2>4, <2>5, RanksAscend
  <2>6. CASE j < i
    BY <1>1, <2>3, <2>4, <2>6, RanksAscend
  <2> QED  BY <2>5, <2>6
<1>7. \A e \in S : \E i \in 1..n : s[i] = e
  BY <1>2 DEF Ranked
<1> HIDE DEF S
<1>8. Lists(s, S)
  BY <1>5, <1>6, <1>7 DEF Lists
<1> QED  BY <1>1, <1>3, <1>5, <1>8 DEF S, s

LEMMA RankedSize ==
  ASSUME IndexInv, NEW R \in SUBSET Entries, NEW d \in [Entries -> Int], NEW n \in Nat,
         NEW out, RanksLeast(out, CandidatesOf(R, d), n)
  PROVE  Cardinality(Ranked(out, n)) = n
<1>1. Lists(EntriesOf(out), Ranked(out, n)) /\ Len(EntriesOf(out)) = n
  BY RankedEntries
<1> QED  BY <1>1, ListsFacts

\* The checks a well-formed request passes (search.rs IndexCore::search).
LEMMA SearchPasses ==
  ASSUME IndexInv, trained, NEW cfg, NEW q, NEW k, NEW filter, Request(cfg, q, k, filter)
  PROVE  Search(cfg, q, TRUE, k, filter) =
           IF k = 0 \/ live_count = 0 THEN Found(<<>>)
           ELSE IF UsePq THEN ScanPq(cfg, q, k, filter) ELSE ScanFlat(cfg, q, k, filter)
<1>1. q # WrongDim
  BY SearchAssumption DEF Request
<1>2. filter # BadFilter
  BY SearchAssumption DEF Request
<1>3. centroids # <<>>
  <2>1. DOMAIN centroids = 1..NClusters /\ 1 \in 1..NClusters
    BY ConfigAssumption DEF IndexInv, Clusters
  <2>2. DOMAIN <<>> = {}
    OBVIOUS
  <2> QED  BY <2>1, <2>2
<1> QED  BY <1>1, <1>2, <1>3 DEF Search

\* A search that compares vectors ranks the entries in reach.
LEMMA FlatScanRanks ==
  ASSUME IndexInv, trained, NEW cfg, NEW q, NEW k, NEW filter, Request(cfg, q, k, filter),
         NEW R, R = Reach(cfg, q, filter)
  PROVE  /\ ScanFlat(cfg, q, k, filter).outcome = "Ok"
         /\ HitsRank(ScanFlat(cfg, q, k, filter).hits, CandidatesOf(R, ByVector(q)), AtMost(k, R))
<1> DEFINE s == Survivors(cfg, q, filter)
           d == ByVector(q)
           cands == Exact(q, s)
<1>0. cfg.n_probes \in Nat /\ q \in Queries /\ k \in Nat
  BY DEF Request
<1>1. Lists(s, R) /\ R \in SUBSET Entries
  BY <1>0, SurvivorsListReach, ReachFacts
<1>2. d \in [Entries -> Int]
  BY <1>0, DistancesAreNumbers
<1> HIDE DEF s
<1>3. ScoredBy(cands, s, d)
  BY <1>0, <1>1, ExactIsScored
<1> HIDE DEF cands, d
<1>4. /\ Cap(cands, k) = AtMost(k, R) /\ AtMost(k, R) \in Nat
      /\ RanksLeast(SelectTopK(cands, k), CandidatesOf(R, d), Cap(cands, k))
  BY <1>0, <1>1, <1>2, <1>3, ScoredEntries DEF AtMost
<1>5. ScanFlat(cfg, q, k, filter) = Found(SelectTopK(cands, k))
  BY DEF ScanFlat, cands, s
<1> QED  BY <1>4, <1>5, FoundRanks DEF d

\* A search by code ranks the entries in reach, or a shortlist of them.
LEMMA PqScanRanks ==
  ASSUME IndexInv, trained, UsePq,
         NEW cfg, NEW q, NEW k, NEW filter, Request(cfg, q, k, filter),
         NEW R, R = Reach(cfg, q, filter)
  PROVE  /\ ScanPq(cfg, q, k, filter).outcome = "Ok"
         /\ cfg.pq_refine_factor = 0 =>
              HitsRank(ScanPq(cfg, q, k, filter).hits, CandidatesOf(R, ByCode(q)), AtMost(k, R))
         /\ cfg.pq_refine_factor # 0 =>
              \E S : /\ Shortlisted(S, R, q, AtMost(cfg.pq_refine_factor * k, R))
                     /\ HitsRank(ScanPq(cfg, q, k, filter).hits, CandidatesOf(S, ByVector(q)),
                                 AtMost(k, R))
<1> DEFINE s == Survivors(cfg, q, filter)
           d == ByCode(q)
           cands == Adc(q, s)
           factor == cfg.pq_refine_factor
<1>0. cfg.n_probes \in Nat /\ q \in Queries /\ k \in Nat /\ factor \in Nat
  BY DEF Request
<1>1. Lists(s, R) /\ R \in SUBSET Entries /\ Cardinality(R) \in Nat
  BY <1>0, SurvivorsListReach, ReachFacts
<1>2. /\ d \in [Entries -> Int] /\ ByVector(q) \in [Entries -> Int]
      /\ pq # None /\ \A e \in Entries : e.pq_code # None
  BY <1>0, DistancesAreNumbers
<1>3. ScanPq(cfg, q, k, filter) = FinishScanPq(cfg, q, k, cands)
  <2>1. \A i \in DOMAIN s : s[i] \in Entries
    <3> HIDE DEF s
    <3> QED  BY <1>1, ListsFacts
  <2> QED  BY <1>2, <2>1 DEF ScanPq
<1> HIDE DEF s
<1>4. ScoredBy(cands, s, d)
  BY <1>0, <1>1, AdcIsScored
<1> HIDE DEF cands, d, factor
<1>5. ASSUME NEW n \in Nat
      PROVE  /\ Cap(cands, n) = AtMost(n, R) /\ AtMost(n, R) \in Nat
             /\ RanksLeast(SelectTopK(cands, n), CandidatesOf(R, d), Cap(cands, n))
  BY <1>1, <1>2, <1>4, ScoredEntries DEF AtMost
<1>6. CASE factor = 0
  <2>1. ScanPq(cfg, q, k, filter) = Found(SelectTopK(cands, k))
    BY <1>3, <1>6 DEF FinishScanPq, factor
  <2> QED  BY <1>0, <1>5, <1>6, <2>1, FoundRanks DEF d, factor
<1>7. CASE factor # 0
  <2> DEFINE n == AtMost(factor * k, R)
             short == SelectTopK(cands, factor * k)
             S == Ranked(short, n)
             entries == EntriesOf(short)
             again == Exact(q, entries)
  <2>1. factor * k \in Nat /\ k <= factor * k
    <3>1. factor * k = k + (factor - 1) * k /\ (factor - 1) * k \in Nat
      BY <1>0, <1>7
    <3> QED  BY <1>0, <3>1
  <2>2. n \in Nat /\ RanksLeast(short, CandidatesOf(R, d), n)
    BY <1>5, <2>1
  <2>3. ScanPq(cfg, q, k, filter) = Found(SelectTopK(again, k))
    BY <1>3, <1>7 DEF FinishScanPq, factor
  <2> HIDE DEF n, short
  <2>4. S \in SUBSET R /\ Lists(entries, S) /\ Cardinality(S) = n
    <3>0. R \in SUBSET Entries /\ d \in [Entries -> Int]
      BY <1>1, <1>2
    <3>1. Lists(entries, S)
      BY <2>2, <3>0, RankedEntries
    <3>2. S \in SUBSET R
      BY <2>2, <3>0, RankedEntries
    <3>3. Cardinality(S) = n
      BY <2>2, <3>0, RankedSize
    <3> QED  BY <3>1, <3>2, <3>3
  <2>5. Shortlisted(S, R, q, n)
    BY <2>2 DEF Shortlisted, d
  <2> HIDE DEF S, entries
  <2>6. S \in SUBSET Entries
    BY <1>1, <2>4
  <2>7. ScoredBy(again, entries, ByVector(q))
    BY <1>0, <2>4, <2>6, ExactIsScored
  <2> HIDE DEF again
  <2>8. /\ Cap(again, k) = AtMost(k, S) /\ AtMost(k, S) \in Nat
        /\ RanksLeast(SelectTopK(again, k), CandidatesOf(S, ByVector(q)), Cap(again, k))
    BY <1>0, <1>2, <2>4, <2>6, <2>7, ScoredEntries DEF AtMost
  <2>9. AtMost(k, S) = AtMost(k, R)
    BY <1>0, <1>1, <2>1, <2>4 DEF AtMost, n
  <2>10. HitsRank(ScanPq(cfg, q, k, filter).hits, CandidatesOf(S, ByVector(q)), AtMost(k, R))
         /\ ScanPq(cfg, q, k, filter).outcome = "Ok"
    BY <2>3, <2>8, <2>9, FoundRanks
  <2> QED  BY <1>7, <2>5, <2>10 DEF n, factor
<1> QED  BY <1>6, <1>7

LEMMA ShortlistSize ==
  ASSUME IndexInv, UsePq, trained, NEW q \in Queries, NEW R \in SUBSET Entries, NEW n \in Nat,
         NEW S, Shortlisted(S, R, q, n)
  PROVE  S \in SUBSET R /\ Cardinality(S) = n
<1>1. ByCode(q) \in [Entries -> Int]
  BY DistancesAreNumbers
<1>2. PICK out : RanksLeast(out, CandidatesOf(R, ByCode(q)), n) /\ S = Ranked(out, n)
  BY DEF Shortlisted
<1>3. S \in SUBSET R
  BY <1>1, <1>2, RankedEntries
<1>4. Cardinality(S) = n
  BY <1>1, <1>2, RankedSize
<1> QED  BY <1>3, <1>4

-----------------------------------------------------------------------------
(* What the hits of an answer are *)

\* The hits rank n of the entries of S by d, and out is that ranking.
HitsOf(hits, out, S, d, n) ==
  /\ S \in SUBSET Entries
  /\ d \in [Entries -> Int]
  /\ n \in Nat
  /\ RanksLeast(out, CandidatesOf(S, d), n)
  /\ Reports(hits, out, n)

LEMMA HitsRanked ==
  ASSUME NEW S \in SUBSET Entries, NEW d \in [Entries -> Int], NEW n \in Nat,
         NEW hits, HitsRank(hits, CandidatesOf(S, d), n)
  PROVE  \E out : HitsOf(hits, out, S, d, n)
<1>1. PICK out : RanksLeast(out, CandidatesOf(S, d), n) /\ Reports(hits, out, n)
  BY DEF HitsRank
<1>2. HitsOf(hits, out, S, d, n)
  BY <1>1 DEF HitsOf
<1> QED  BY <1>2

\* The hit at a rank is the entry there with its distance.
LEMMA HitEntry ==
  ASSUME IndexInv, NEW S, NEW d, NEW n, NEW out, NEW hits, HitsOf(hits, out, S, d, n),
         NEW r \in 1..n
  PROVE  /\ hits[r].id = out[r].entry.id
         /\ hits[r].distance = d[out[r].entry]
         /\ out[r].entry \in S
<1>1. out[r] \in CandidatesOf(S, d)
  BY DEF HitsOf, RanksLeast
<1>2. out[r].entry \in S /\ out[r].dist = d[out[r].entry]
  BY <1>1, CandidatesOfFacts DEF HitsOf
<1>3. hits[r] = [id |-> out[r].entry.id, distance |-> out[r].dist]
  BY DEF HitsOf, Reports
<1> QED  BY <1>1, <1>2, <1>3

LEMMA RankedCandidate ==
  ASSUME IndexInv, NEW S, NEW d, NEW n, NEW out, NEW hits, HitsOf(hits, out, S, d, n),
         NEW r \in 1..n
  PROVE  /\ out[r] \in CandidatesOf(S, d)
         /\ out[r] = Candidate(out[r].entry, d[out[r].entry])
<1>1. out[r] \in CandidatesOf(S, d)
  BY DEF HitsOf, RanksLeast
<1>2. out[r] = Candidate(out[r].entry, d[out[r].entry])
  BY <1>1, CandidatesOfFacts DEF HitsOf
<1> QED  BY <1>1, <1>2

\* A ranking of entries as hits: as many as there are ranks, no id twice, each
\* with the distance of an entry, in ascending order.
LEMMA HitsFacts ==
  ASSUME IndexInv, NEW S, NEW d, NEW n, NEW out, NEW hits, HitsOf(hits, out, S, d, n)
  PROVE  /\ Len(hits) = n
         /\ DOMAIN hits = 1..n
         /\ \A r, s \in 1..n : hits[r].id = hits[s].id => r = s
         /\ \A r, s \in 1..n : r < s => hits[r].distance <= hits[s].distance
<1> DEFINE C == CandidatesOf(S, d)
<1> S \in SUBSET Entries /\ d \in [Entries -> Int] /\ n \in Nat
  BY DEF HitsOf
<1> RanksLeast(out, CandidatesOf(S, d), n) /\ Reports(hits, out, n)
  BY DEF HitsOf
<1>1. Rankable(C) /\ out \in [1..n -> C]
  BY CandidatesOfFacts DEF RanksLeast
<1>2. \A r \in 1..n : /\ out[r] \in C /\ out[r].entry \in S /\ out[r].dist = d[out[r].entry]
                      /\ out[r].seq = out[r].entry.seq
                      /\ out[r] = Candidate(out[r].entry, d[out[r].entry])
  <2> TAKE r \in 1..n
  <2>1. out[r] \in C
    BY <1>1
  <2> QED  BY <2>1, CandidatesOfFacts
<1>3. Len(hits) = n
  <2> DEFINE any == {[id |-> out[r].entry.id, distance |-> out[r].dist] : r \in 1..n}
  <2>1. hits \in [1..n -> any]
    BY DEF Reports
  <2> HIDE DEF any
  <2> QED  BY <2>1, LenProperties, SeqDef
<1>4. ASSUME NEW r \in 1..n, NEW s \in 1..n, r < s
      PROVE  hits[r].distance <= hits[s].distance /\ hits[r].id # hits[s].id
  <2>1. Precedes(out[r], out[s]) /\ out[r] # out[s]
    BY <1>1, <1>4, RanksAscend
  <2>2. hits[r].distance <= hits[s].distance
    <3>1. Scored(out[r]) /\ Scored(out[s])
      BY <1>1, <1>2 DEF Rankable
    <3>2. out[r].dist <= out[s].dist
      BY <2>1, <3>1 DEF Precedes, Scored
    <3> QED  BY <3>2 DEF Reports
  <2>3. hits[r].id # hits[s].id
    <3> SUFFICES ASSUME hits[r].id = hits[s].id PROVE FALSE
      OBVIOUS
    <3>1. out[r].entry.id = out[s].entry.id
      BY DEF Reports
    <3>2. out[r].entry = out[s].entry
      BY <1>2, <3>1, EntriesFacts
    <3>3. out[r] \in C /\ out[s] \in C /\ out[r].seq = out[s].seq
      BY <1>2, <3>2
    <3> QED  BY <1>1, <2>1, <3>3 DEF Rankable
  <2> QED  BY <2>2, <2>3
<1>5. \A r, s \in 1..n : hits[r].id = hits[s].id => r = s
  <2> SUFFICES ASSUME NEW r \in 1..n, NEW s \in 1..n, hits[r].id = hits[s].id PROVE r = s
    OBVIOUS
  <2>1. ~(r < s) /\ ~(s < r)
    BY <1>4
  <2> QED  BY <2>1
<1>6. DOMAIN hits = 1..n
  BY DEF Reports
<1> QED  BY <1>3, <1>4, <1>5, <1>6

\* The settings the index holds make a request.
LEMMA CfgRequests ==
  ASSUME IndexInv, NEW q \in Queries, NEW k \in Nat, NEW filter \in Filters \cup {NoFilter}
  PROVE  /\ Request(Cfg, q, k, filter)
         /\ Cfg.n_probes = n_probes /\ n_probes \in Clusters
         /\ Cfg.pq_refine_factor = pq_refine_factor /\ pq_refine_factor \in Nat
<1>1. n_probes \in Clusters /\ n_probes \in Nat
  BY ConfigAssumption DEF IndexInv, TypeOK, Clusters
<1>2. pq_refine_factor \in Nat
  BY SearchAssumption DEF IndexInv, TypeOK
<1> QED  BY <1>1, <1>2 DEF Request, Cfg

\* A request on a trained index is answered with a ranking of the entries in
\* reach, of a shortlist of them, or with nothing (search.rs, pq_variant.rs).
LEMMA SearchRanks ==
  ASSUME IndexInv, trained, NEW cfg, NEW q, NEW k, NEW filter, Request(cfg, q, k, filter),
         NEW R, R = Reach(cfg, q, filter), NEW answer, answer = Search(cfg, q, TRUE, k, filter)
  PROVE  /\ answer.outcome = "Ok"
         /\ AtMost(k, R) \in Nat
         /\ ~UsePq => HitsRank(answer.hits, CandidatesOf(R, ByVector(q)), AtMost(k, R))
         /\ UsePq /\ cfg.pq_refine_factor = 0 =>
              HitsRank(answer.hits, CandidatesOf(R, ByCode(q)), AtMost(k, R))
         /\ UsePq /\ cfg.pq_refine_factor # 0 =>
              \E S : /\ Shortlisted(S, R, q, AtMost(cfg.pq_refine_factor * k, R))
                     /\ HitsRank(answer.hits, CandidatesOf(S, ByVector(q)), AtMost(k, R))
<1>0. q \in Queries /\ k \in Nat /\ cfg.pq_refine_factor \in Nat
  BY DEF Request
<1>1. R \in SUBSET Entries /\ IsFiniteSet(R) /\ Cardinality(R) \in Nat /\ Cardinality(R) <= live_count
  BY ReachFacts
<1>2. AtMost(k, R) \in Nat
  BY <1>0, <1>1 DEF AtMost
<1>3. CASE k = 0 \/ live_count = 0
  <2>1. answer = Found(<<>>)
    BY <1>3, SearchPasses
  <2>2. AtMost(k, R) = 0
    BY <1>0, <1>1, <1>3, EntriesCounted DEF AtMost
  <2>3. \A C : Found(<<>>).outcome = "Ok" /\ HitsRank(Found(<<>>).hits, C, 0)
    BY NothingRanks
  <2>4. AtMost(cfg.pq_refine_factor * k, R) = 0
    <3>1. k = 0 \/ Cardinality(R) = 0
      BY <1>0, <1>1, <1>3, EntriesCounted
    <3>2. cfg.pq_refine_factor * 0 = 0 /\ cfg.pq_refine_factor * k \in Nat
      BY <1>0
    <3> QED  BY <1>1, <3>1, <3>2 DEF AtMost
  <2>5. Shortlisted({}, R, q, 0)
    <3>1. RanksLeast(<<>>, CandidatesOf(R, ByCode(q)), 0)
      BY NothingRanks
    <3>2. {} = Ranked(<<>>, 0)
      BY DEF Ranked
    <3> QED  BY <3>1, <3>2 DEF Shortlisted
  <2> QED  BY <1>2, <2>1, <2>2, <2>3, <2>4, <2>5
<1>4. CASE ~(k = 0 \/ live_count = 0)
  <2>1. answer = IF UsePq THEN ScanPq(cfg, q, k, filter) ELSE ScanFlat(cfg, q, k, filter)
    BY <1>4, SearchPasses
  <2>2. CASE UsePq
    <3>1. answer = ScanPq(cfg, q, k, filter)
      BY <2>1, <2>2
    <3> QED  BY <1>2, <2>2, <3>1, PqScanRanks
  <2>3. CASE ~UsePq
    <3>1. answer = ScanFlat(cfg, q, k, filter)
      BY <2>1, <2>3
    <3> QED  BY <1>2, <2>3, <3>1, FlatScanRanks
  <2> QED  BY <2>2, <2>3
<1> QED  BY <1>3, <1>4

\* Hits that rank the entries of S by d answer a search of the entries R in reach.
RankedFrom(hits, cfg, q, k, R, S, d) ==
  /\ S \subseteq R
  /\ HitsRank(hits, CandidatesOf(S, d), AtMost(k, R))
  /\ ~UsePq \/ cfg.pq_refine_factor # 0 => d = ByVector(q)
  /\ ~UsePq \/ cfg.pq_refine_factor = 0 => S = R
  /\ UsePq /\ cfg.pq_refine_factor = 0 => d = ByCode(q)
  /\ UsePq /\ cfg.pq_refine_factor # 0 =>
       Shortlisted(S, R, q, AtMost(cfg.pq_refine_factor * k, R))

\* Whatever the index is set to, hits rank some of the entries in reach by one
\* of the two distances.
LEMMA AnswerRanked ==
  ASSUME IndexInv, trained, NEW cfg, NEW q, NEW k, NEW filter, Request(cfg, q, k, filter),
         NEW R, R = Reach(cfg, q, filter), NEW hits, hits = Search(cfg, q, TRUE, k, filter).hits
  PROVE  \E S \in SUBSET Entries, d \in [Entries -> Int] :
           RankedFrom(hits, cfg, q, k, R, S, d)
<1>0. q \in Queries /\ k \in Nat /\ cfg.pq_refine_factor \in Nat
  BY DEF Request
<1>1. /\ R \in SUBSET Entries /\ Cardinality(R) \in Nat
      /\ ByVector(q) \in [Entries -> Int]
      /\ UsePq => ByCode(q) \in [Entries -> Int]
  BY <1>0, ReachFacts, DistancesAreNumbers
<1>2. CASE ~UsePq
  <2>1. HitsRank(hits, CandidatesOf(R, ByVector(q)), AtMost(k, R))
    BY <1>2, SearchRanks
  <2>2. RankedFrom(hits, cfg, q, k, R, R, ByVector(q))
    BY <1>2, <2>1 DEF RankedFrom
  <2> QED  BY <1>1, <2>2
<1>3. CASE UsePq /\ cfg.pq_refine_factor = 0
  <2>1. HitsRank(hits, CandidatesOf(R, ByCode(q)), AtMost(k, R))
    BY <1>3, SearchRanks
  <2>2. RankedFrom(hits, cfg, q, k, R, R, ByCode(q))
    BY <1>3, <2>1 DEF RankedFrom
  <2> QED  BY <1>1, <1>3, <2>2
<1>4. CASE UsePq /\ cfg.pq_refine_factor # 0
  <2>1. PICK S : /\ Shortlisted(S, R, q, AtMost(cfg.pq_refine_factor * k, R))
                 /\ HitsRank(hits, CandidatesOf(S, ByVector(q)), AtMost(k, R))
    BY <1>4, SearchRanks
  <2>2. S \in SUBSET R
    <3>1. AtMost(cfg.pq_refine_factor * k, R) \in Nat
      <4>1. cfg.pq_refine_factor * k \in Nat
        BY <1>0
      <4> QED  BY <1>1, <4>1 DEF AtMost
    <3> QED  BY <1>0, <1>1, <1>4, <2>1, <3>1, ShortlistSize
  <2>3. RankedFrom(hits, cfg, q, k, R, S, ByVector(q))
    BY <1>4, <2>1, <2>2 DEF RankedFrom
  <2> QED  BY <1>1, <2>2, <2>3
<1> QED  BY <1>2, <1>3, <1>4

-----------------------------------------------------------------------------
(* What a search promises *)

\* A well-formed request on a trained index is answered, and its hits are as
\* many as the accepted entries of the probed lists allow: live, accepted, each
\* once, in ascending order, with exact distances unless codes alone decide
\* (search.rs, pq_variant.rs).
THEOREM AnswersSound == Spec => []AnswersAreSound
<1>1. IndexInv => AnswersAreSound
  <2> SUFFICES ASSUME IndexInv, trained, NEW q \in Queries, NEW k \in Ks,
                      NEW filter \in Filters \cup {NoFilter}
               PROVE  LET answer  == Answer(q, k, filter)
                          hits    == answer.hits
                          probed  == Range(Probed(Cfg, q))
                          inReach == {e \in Accepted(filter) : id_to_cluster[e.id] \in probed}
                          size    == Cardinality(inReach)
                      IN  /\ answer.outcome = "Ok"
                          /\ Len(hits) = IF k < size THEN k ELSE size
                          /\ \A r, s \in DOMAIN hits : hits[r].id = hits[s].id => r = s
                          /\ \A r \in DOMAIN hits : \E e \in inReach :
                               /\ e.id = hits[r].id
                               /\ ~UsePq \/ pq_refine_factor # 0 =>
                                    hits[r].distance = Nearness(q, e.vector)
                          /\ \A r, s \in DOMAIN hits :
                               r < s => hits[r].distance <= hits[s].distance
    BY DEF AnswersAreSound
  <2> DEFINE R == Reach(Cfg, q, filter)
             hits == Answer(q, k, filter).hits
             n == AtMost(k, R)
  <2>1. k \in Nat
    BY SearchAssumption
  <2>2. Request(Cfg, q, k, filter) /\ Cfg.pq_refine_factor = pq_refine_factor
    BY <2>1, CfgRequests
  <2>3. Answer(q, k, filter).outcome = "Ok" /\ n \in Nat
    BY <2>2, SearchRanks DEF Answer
  <2>4. hits = Search(Cfg, q, TRUE, k, filter).hits
    BY DEF Answer
  <2> HIDE DEF R, hits
  <2>a. PICK S \in SUBSET Entries, d \in [Entries -> Int] : RankedFrom(hits, Cfg, q, k, R, S, d)
    BY <2>2, <2>4, AnswerRanked DEF R
  <2>5. /\ S \subseteq R
        /\ HitsRank(hits, CandidatesOf(S, d), n)
        /\ ~UsePq \/ pq_refine_factor # 0 => d = ByVector(q)
    BY <2>2, <2>a DEF RankedFrom
  <2> HIDE DEF n
  <2>6. PICK out : HitsOf(hits, out, S, d, n)
    BY <2>3, <2>5, HitsRanked
  <2>7. /\ Len(hits) = n /\ DOMAIN hits = 1..n
        /\ \A r, s \in 1..n : hits[r].id = hits[s].id => r = s
        /\ \A r, s \in 1..n : r < s => hits[r].distance <= hits[s].distance
    BY <2>6, HitsFacts
  <2>8. ASSUME NEW r \in 1..n
        PROVE  \E e \in R : /\ e.id = hits[r].id
                            /\ ~UsePq \/ pq_refine_factor # 0 =>
                                 hits[r].distance = Nearness(q, e.vector)
    <3>1. /\ hits[r].id = out[r].entry.id
          /\ hits[r].distance = d[out[r].entry]
          /\ out[r].entry \in S
      BY <2>6, HitEntry
    <3>2. out[r].entry \in R /\ out[r].entry \in Entries
      BY <2>5, <3>1
    <3>3. ~UsePq \/ pq_refine_factor # 0 => d[out[r].entry] = Nearness(q, out[r].entry.vector)
      BY <2>5, <3>2 DEF ByVector
    <3> QED  BY <3>1, <3>2, <3>3
  <2>9. R = {e \in Accepted(filter) : id_to_cluster[e.id] \in Range(Probed(Cfg, q))}
    BY DEF R, Reach
  <2>10. n = IF k < Cardinality(R) THEN k ELSE Cardinality(R)
    BY DEF n, AtMost
  <2>11. Answer(q, k, filter).hits = hits
    BY DEF hits
  <2> QED  BY <2>3, <2>7, <2>8, <2>9, <2>10, <2>11
<1>2. Spec => []IndexInv
  BY IndexInvariant
<1> QED  BY <1>1, <1>2, PTL

\* Entries are counted as their candidates are.
LEMMA CandidatesCounted ==
  ASSUME IndexInv, NEW S \in SUBSET Entries, NEW d \in [Entries -> Int],
         NEW T \in SUBSET CandidatesOf(S, d)
  PROVE  Cardinality({e \in S : Candidate(e, d[e]) \in T}) = Cardinality(T)
<1> DEFINE E == {e \in S : Candidate(e, d[e]) \in T}
           cand == [e \in E |-> Candidate(e, d[e])]
<1>1. IsFiniteSet(E)
  BY CandidatesOfFacts, FS_Subset
<1>2. cand \in [E -> T]
  OBVIOUS
<1>3. \A e \in E : cand[e].entry = e
  BY CandidateFields
<1>4. ASSUME NEW c \in T
      PROVE  c.entry \in E /\ cand[c.entry] = c
  <2>1. c \in CandidatesOf(S, d)
    OBVIOUS
  <2>2. c.entry \in S /\ c = Candidate(c.entry, d[c.entry])
    BY <2>1, CandidatesOfFacts
  <2> QED  BY <2>2
<1> HIDE DEF E, cand
<1>5. Cardinality(T) = Cardinality(E)
  BY <1>1, <1>2, <1>3, <1>4, OneToOneSize
<1> QED  BY <1>5 DEF E

LEMMA EntryOfId ==
  ASSUME IndexInv, NEW e \in Entries
  PROVE  EntryOf(e.id) = e
<1>1. \A f \in Entries : f.id = e.id => f = e
  BY EntriesFacts
<1> QED  BY <1>1 DEF EntryOf

\* What a hit reports orders points as the metric does, ties by stamp.
LEMMA AheadIsNearness ==
  ASSUME NEW q, NEW p, Compute[q, p] \in Int, NEW o, Compute[q, o] \in Int, NEW s, NEW t
  PROVE  Ahead(q, p, s, o, t) <=>
           \/ Nearness(q, p) < Nearness(q, o)
           \/ Nearness(q, p) = Nearness(q, o) /\ s < t
<1>1. /\ Nearness(q, p) < Nearness(q, o) <=>
           IF DotProduct THEN Compute[q, p] > Compute[q, o]
           ELSE Compute[q, p] < Compute[q, o]
      /\ Nearness(q, p) = Nearness(q, o) <=> Compute[q, p] = Compute[q, o]
  BY NearnessOrders
<1> QED  BY <1>1, Zenon DEF Ahead

\* Exact candidates are ordered as the metric orders the entries.
LEMMA NearerPrecedes ==
  ASSUME IndexInv, NEW q \in Queries, NEW e \in Entries, NEW f \in Entries
  PROVE  Nearer(q, e, f) <=>
           Precedes(Candidate(e, ByVector(q)[e]), Candidate(f, ByVector(q)[f]))
<1>1. Compute[q, e.vector] \in Int /\ Compute[q, f.vector] \in Int
  BY EntriesFacts, SearchAssumption, DataAssumption DEF Entry
<1>2. ByVector(q)[e] = Nearness(q, e.vector) /\ ByVector(q)[f] = Nearness(q, f.vector)
  BY DEF ByVector
<1>3. Precedes(Candidate(e, ByVector(q)[e]), Candidate(f, ByVector(q)[f])) <=>
        \/ Nearness(q, e.vector) < Nearness(q, f.vector)
        \/ Nearness(q, e.vector) = Nearness(q, f.vector) /\ e.seq < f.seq
  BY <1>2, CandidateFields DEF Precedes
<1>4. Nearer(q, e, f) <=>
        \/ Nearness(q, e.vector) < Nearness(q, f.vector)
        \/ Nearness(q, e.vector) = Nearness(q, f.vector) /\ e.seq < f.seq
  BY <1>1, AheadIsNearness DEF Nearer
<1> QED  BY <1>3, <1>4

\* With every list probed every entry is in reach.
LEMMA AllInReach ==
  ASSUME IndexInv, trained, NEW q \in Queries, NEW cfg, cfg.n_probes = NClusters, NEW filter
  PROVE  Reach(cfg, q, filter) = Accepted(filter)
<1> DEFINE probed == Probed(cfg, q)
<1>1. NClusters \in Nat /\ Clusters = 1..NClusters
  BY ConfigAssumption DEF Clusters
<1>2. Probes(cfg) = NClusters
  BY <1>1 DEF Probes
<1>3. /\ probed = [i \in 1..NClusters |-> NearestCentres(cfg, q)[i].cluster]
      /\ \A i \in 1..NClusters : probed[i] \in 1..NClusters
      /\ \A i, j \in 1..NClusters : probed[i] = probed[j] => i = j
  BY <1>1, <1>2, ProbedFacts
<1> HIDE DEF probed
<1>4. probed \in [1..NClusters -> 1..NClusters]
  BY <1>3
<1>5. IsFiniteSet(1..NClusters) /\ Cardinality(1..NClusters) = NClusters
  BY <1>1, FS_Interval
<1>6. \A c \in 1..NClusters : \E i \in 1..NClusters : probed[i] = c
  <2> DEFINE ranks == 1..NClusters
  <2>1. IsFiniteSet(ranks) /\ 1..Cardinality(ranks) = ranks
    BY <1>5
  <2>2. \A i, j \in ranks : probed[i] = probed[j] => i = j
    BY <1>3
  <2>3. probed \in [ranks -> ranks]
    BY <1>4
  <2> HIDE DEF ranks
  <2>4. probed \in [ranks -> 1..Cardinality(ranks)]
    BY <2>1, <2>3
  <2>5. \A c \in 1..Cardinality(ranks) : \E i \in ranks : probed[i] = c
    BY <2>1, <2>2, <2>4, InjectionIsOnto
  <2> QED  BY <2>1, <2>5 DEF ranks
<1>7. Range(probed) = Clusters
  BY <1>1, <1>4, <1>6 DEF Range
<1>8. \A e \in Entries : id_to_cluster[e.id] \in Clusters
  BY EntriesFacts DEF IndexInv, TypeOK
<1> QED  BY <1>7, <1>8 DEF Reach, Accepted, probed

\* A hit at rank r follows r - 1 of the entries that were ranked.
LEMMA EntriesBefore ==
  ASSUME IndexInv, NEW S, NEW d, NEW n, NEW out, NEW hits, HitsOf(hits, out, S, d, n),
         NEW r \in 1..n
  PROVE  Cardinality({e \in S : Precedes(Candidate(e, d[e]),
                                         Candidate(out[r].entry, d[out[r].entry]))}) = r - 1
<1> DEFINE C == CandidatesOf(S, d)
           T == {t \in C : Precedes(t, out[r])}
<1>1. S \in SUBSET Entries /\ d \in [Entries -> Int]
  BY DEF HitsOf
<1>2. out[r] = Candidate(out[r].entry, d[out[r].entry])
  BY RankedCandidate
<1>3. Cardinality(T) = r - 1
  <2>1. RanksLeast(out, C, n)
    BY DEF HitsOf
  <2> HIDE DEF C
  <2> QED  BY <2>1 DEF RanksLeast
<1>4. \A e \in S : Candidate(e, d[e]) \in C
  BY DEF CandidatesOf
<1>5. {e \in S : Precedes(Candidate(e, d[e]), out[r])} = {e \in S : Candidate(e, d[e]) \in T}
  <2> HIDE DEF C
  <2> QED  BY <1>4
<1>6. T \in SUBSET C
  OBVIOUS
<1> HIDE DEF T
<1>7. Cardinality({e \in S : Candidate(e, d[e]) \in T}) = Cardinality(T)
  BY <1>1, <1>6, CandidatesCounted
<1>8. Cardinality({e \in S : Precedes(Candidate(e, d[e]), out[r])}) = r - 1
  BY <1>3, <1>5, <1>7
<1> QED  BY <1>2, <1>8

\* Of the whole ranking by exact distance each hit follows as many entries as
\* are nearer.
LEMMA ExactRank ==
  ASSUME IndexInv, NEW q \in Queries, NEW S \in SUBSET Entries, NEW n \in Nat,
         NEW hits, HitsRank(hits, CandidatesOf(S, ByVector(q)), n), NEW r \in 1..n
  PROVE  Cardinality({e \in S : Nearer(q, e, EntryOf(hits[r].id))}) = r - 1
<1> DEFINE d == ByVector(q)
<1>1. d \in [Entries -> Int]
  BY DistancesAreNumbers
<1>2. PICK out : HitsOf(hits, out, S, d, n)
  BY <1>1, HitsRanked
<1> DEFINE f == out[r].entry
<1>3. f \in S /\ hits[r].id = f.id
  BY <1>2, HitEntry
<1>4. EntryOf(hits[r].id) = f
  BY <1>3, EntryOfId
<1>5. Cardinality({e \in S : Precedes(Candidate(e, d[e]), Candidate(f, d[f]))}) = r - 1
  BY <1>2, EntriesBefore
<1>6. \A e \in S : Nearer(q, e, f) <=> Precedes(Candidate(e, d[e]), Candidate(f, d[f]))
  BY <1>3, NearerPrecedes
<1> HIDE DEF f, d
<1>7. {e \in S : Nearer(q, e, f)}
        = {e \in S : Precedes(Candidate(e, d[e]), Candidate(f, d[f]))}
  BY <1>6
<1> QED  BY <1>4, <1>5, <1>7

\* With every list probed, and every candidate rescored when there are codes,
\* the answer is the exact one: rank r goes to the entry with exactly r - 1
\* accepted entries nearer or as near and older (search.rs; the brute-force
\* oracle of tests/proptest_invariants.rs).
THEOREM ExhaustiveExact == Spec => []ExhaustiveSearchIsExact
<1>1. IndexInv => ExhaustiveSearchIsExact
  <2> SUFFICES ASSUME IndexInv, trained, n_probes = NClusters, NEW q \in Queries, NEW k \in Ks,
                      NEW filter \in Filters \cup {NoFilter},
                      UsePq => pq_refine_factor * k >= Cardinality(Accepted(filter))
               PROVE  LET accepted == Accepted(filter)
                          size     == Cardinality(accepted)
                          hits     == Answer(q, k, filter).hits
                      IN  /\ Len(hits) = IF k < size THEN k ELSE size
                          /\ \A r \in DOMAIN hits :
                               Cardinality({e \in accepted : Nearer(q, e, EntryOf(hits[r].id))})
                                 = r - 1
    BY DEF ExhaustiveSearchIsExact
  <2> DEFINE R == Accepted(filter)
             hits == Answer(q, k, filter).hits
             n == AtMost(k, R)
             factor == pq_refine_factor
  <2>1. k \in Nat /\ R \in SUBSET Entries
    BY SearchAssumption DEF Accepted
  <2>2. /\ Request(Cfg, q, k, filter) /\ factor \in Nat
        /\ Cfg.pq_refine_factor = factor /\ Cfg.n_probes = n_probes
    BY <2>1, CfgRequests
  <2>3. R = Reach(Cfg, q, filter)
    BY <2>2, AllInReach
  <2>4. hits = Search(Cfg, q, TRUE, k, filter).hits
    BY DEF Answer
  <2>5. IsFiniteSet(R) /\ Cardinality(R) \in Nat
    BY <2>3, ReachFacts
  <2>6. n \in Nat
    BY <2>1, <2>5 DEF AtMost
  <2> HIDE DEF R, hits
  <2>a. PICK S \in SUBSET Entries, d \in [Entries -> Int] : RankedFrom(hits, Cfg, q, k, R, S, d)
    BY <2>2, <2>3, <2>4, AnswerRanked
  <2>7. /\ S \subseteq R
        /\ HitsRank(hits, CandidatesOf(S, d), n)
        /\ ~UsePq \/ factor # 0 => d = ByVector(q)
        /\ ~UsePq \/ factor = 0 => S = R
        /\ UsePq /\ factor # 0 => Shortlisted(S, R, q, AtMost(factor * k, R))
    BY <2>2, <2>a DEF RankedFrom
  <2>8. n = 0 \/ (S = R /\ d = ByVector(q))
    <3>1. CASE ~UsePq
      BY <2>7, <3>1
    <3>2. CASE UsePq /\ factor = 0
      <4>1. factor * k = 0
        BY <2>1, <3>2
      <4>2. Cardinality(R) = 0
        BY <2>5, <3>2, <4>1 DEF R
      <4> QED  BY <2>1, <4>2 DEF AtMost
    <3>3. CASE UsePq /\ factor # 0
      <4>1. factor * k \in Nat
        BY <2>1, <2>2
      <4>2. AtMost(factor * k, R) = Cardinality(R)
        BY <2>5, <3>3, <4>1 DEF AtMost, R
      <4>3. S \in SUBSET R /\ Cardinality(S) = Cardinality(R)
        BY <2>1, <2>5, <2>7, <3>3, <4>2, ShortlistSize
      <4> QED  BY <2>5, <2>7, <3>3, <4>3, FS_Subset
    <3> QED  BY <3>1, <3>2, <3>3
  <2> HIDE DEF n
  <2>9. Len(hits) = n /\ DOMAIN hits = 1..n
    <3>1. PICK out : HitsOf(hits, out, S, d, n)
      BY <2>6, <2>7, HitsRanked
    <3> QED  BY <3>1, HitsFacts
  <2>10. ASSUME NEW r \in 1..n
         PROVE  Cardinality({e \in R : Nearer(q, e, EntryOf(hits[r].id))}) = r - 1
    <3>1. S = R /\ d = ByVector(q)
      BY <2>6, <2>8
    <3>2. HitsRank(hits, CandidatesOf(R, ByVector(q)), n)
      BY <2>7, <3>1
    <3> QED  BY <2>1, <2>6, <3>2, ExactRank
  <2> QED  BY <2>9, <2>10 DEF R, hits, n, AtMost
<1>2. Spec => []IndexInv
  BY IndexInvariant
<1> QED  BY <1>1, <1>2, PTL

\* The distance a scan ranks entries by.
ScanDistance(q) == IF UsePq THEN ByCode(q) ELSE ByVector(q)

LEMMA ScanDistanceTyped ==
  ASSUME IndexInv, trained, NEW q \in Queries
  PROVE  ScanDistance(q) \in [Entries -> Int]
BY DistancesAreNumbers DEF ScanDistance

LEMMA AtMostTyped ==
  ASSUME IndexInv, NEW cfg, NEW q, NEW filter, NEW k \in Nat
  PROVE  AtMost(k, Reach(cfg, q, filter)) \in Nat
BY ReachFacts DEF AtMost

\* Without a shortlist the answer ranks all the entries in reach.
LEMMA DirectAnswer ==
  ASSUME IndexInv, trained, NEW cfg, NEW q, NEW k, NEW filter, Request(cfg, q, k, filter),
         UsePq => cfg.pq_refine_factor = 0
  PROVE  HitsRank(Search(cfg, q, TRUE, k, filter).hits,
                  CandidatesOf(Reach(cfg, q, filter), ScanDistance(q)),
                  AtMost(k, Reach(cfg, q, filter)))
<1> DEFINE R == Reach(cfg, q, filter)
           hits == Search(cfg, q, TRUE, k, filter).hits
<1>1. CASE UsePq
  <2>1. HitsRank(hits, CandidatesOf(R, ByCode(q)), AtMost(k, R))
    BY <1>1, SearchRanks
  <2> QED  BY <1>1, <2>1 DEF ScanDistance
<1>2. CASE ~UsePq
  <2>1. HitsRank(hits, CandidatesOf(R, ByVector(q)), AtMost(k, R))
    BY <1>2, SearchRanks
  <2> QED  BY <1>2, <2>1 DEF ScanDistance
<1> QED  BY <1>1, <1>2

\* The lists in reach by the metric's own order are the ones a search probes.
LEMMA InReachIsReach ==
  ASSUME IndexInv, trained, NEW q \in Queries, NEW filter
  PROVE  InReach(q, filter) = Reach(Cfg, q, filter)
<1> DEFINE s == ScoredCentroids(q)
           C == Centres(q)
           out == NearestCentres(Cfg, q)
           closer(h) == {c \in Clusters : Ahead(q, centroids[c], c, centroids[h], h)}
           before(x) == {t \in C : Precedes(t, x)}
<1>1. NClusters \in Nat /\ Clusters = 1..NClusters /\ n_probes \in Clusters
  BY ConfigAssumption DEF IndexInv, TypeOK, Clusters
<1>2. Cfg.n_probes = n_probes /\ n_probes \in Nat /\ Probes(Cfg) = n_probes
  BY <1>1 DEF Cfg, Probes
<1>3. /\ RanksLeast(out, C, n_probes)
      /\ Probed(Cfg, q) = [i \in 1..n_probes |-> out[i].cluster]
  BY <1>2, ProbedFacts
<1>4. /\ Rankable(C)
      /\ \A c \in Clusters : /\ s[c] \in C /\ s[c].seq = c /\ s[c].cluster = c
                             /\ s[c].dist = Nearness(q, centroids[c])
      /\ \A t \in C : t.cluster \in Clusters /\ t = s[t.cluster]
  BY CentresFacts DEF Centres
<1>5. ASSUME NEW c \in Clusters, NEW h \in Clusters
      PROVE  Ahead(q, centroids[c], c, centroids[h], h) <=> Precedes(s[c], s[h])
  <2>1. Compute[q, centroids[c]] \in Int /\ Compute[q, centroids[h]] \in Int
    BY SearchAssumption DEF IndexInv
  <2>2. Ahead(q, centroids[c], c, centroids[h], h) <=>
          \/ Nearness(q, centroids[c]) < Nearness(q, centroids[h])
          \/ Nearness(q, centroids[c]) = Nearness(q, centroids[h]) /\ c < h
    BY <2>1, AheadIsNearness
  <2> HIDE DEF s
  <2> QED  BY <1>4, <2>2 DEF Precedes
<1> HIDE DEF s, C, out
<1>6. ASSUME NEW h \in Clusters
      PROVE  Cardinality(closer(h)) = Cardinality(before(s[h]))
  <2> DEFINE score == [c \in closer(h) |-> s[c]]
  <2>1. IsFiniteSet(closer(h))
    <3>1. IsFiniteSet(Clusters)
      BY <1>1, FS_Interval
    <3> QED  BY <3>1, FS_Subset
  <2>2. score \in [closer(h) -> before(s[h])]
    BY <1>4, <1>5
  <2>3. \A c, d \in closer(h) : score[c] = score[d] => c = d
    BY <1>4
  <2>4. ASSUME NEW t \in before(s[h])
        PROVE  \E c \in closer(h) : score[c] = t
    <3>1. t.cluster \in Clusters /\ t = s[t.cluster]
      BY <1>4
    <3>2. t.cluster \in closer(h)
      BY <1>5, <3>1
    <3> QED  BY <3>1, <3>2
  <2> HIDE DEF closer, before, score
  <2> QED  BY <2>1, <2>2, <2>3, <2>4, OneToOneSize
<1>7. ASSUME NEW h \in Clusters
      PROVE  Cardinality(closer(h)) < n_probes <=> h \in Range(Probed(Cfg, q))
  <2>1. s[h] \in C /\ s[h].cluster = h
    BY <1>4
  <2>2. ASSUME Cardinality(closer(h)) < n_probes
        PROVE  h \in Range(Probed(Cfg, q))
    <3> DEFINE r == Cardinality(before(s[h])) + 1
    <3>1. r \in 1..n_probes /\ out[r] = s[h]
      <4>1. Cardinality(before(s[h])) < n_probes
        BY <1>6, <2>2
      <4> QED  BY <1>2, <1>3, <1>4, <2>1, <4>1, RanksComplete
    <3> HIDE DEF r
    <3>2. Probed(Cfg, q)[r] = h /\ r \in DOMAIN Probed(Cfg, q)
      BY <1>3, <2>1, <3>1
    <3> QED  BY <3>2 DEF Range
  <2>3. ASSUME h \in Range(Probed(Cfg, q))
        PROVE  Cardinality(closer(h)) < n_probes
    <3>1. PICK i \in 1..n_probes : out[i].cluster = h
      BY <1>3, <2>3 DEF Range
    <3>2. out[i] \in C /\ Cardinality(before(out[i])) = i - 1
      BY <1>3 DEF RanksLeast
    <3>3. out[i] = s[h]
      BY <1>4, <3>1, <3>2
    <3>4. Cardinality(closer(h)) = i - 1
      <4> HIDE DEF closer, before
      <4> QED  BY <1>6, <3>2, <3>3
    <3> QED  BY <1>2, <3>4
  <2> QED  BY <2>2, <2>3
<1>8. \A e \in Entries : id_to_cluster[e.id] \in Clusters
  BY EntriesFacts DEF IndexInv, TypeOK
<1>9. Accepted(filter) \subseteq Entries
  BY DEF Accepted
<1> QED  BY <1>7, <1>8, <1>9 DEF InReach, Reach

\* Candidates of a scan without a refine are ordered as the metric orders the
\* points they are scored by.
LEMMA ScanPrecedes ==
  ASSUME IndexInv, trained, NEW q \in Queries, NEW e \in Entries, NEW f \in Entries
  PROVE  Ahead(q, ScanPoint(e), e.seq, ScanPoint(f), f.seq) <=>
           Precedes(Candidate(e, ScanDistance(q)[e]), Candidate(f, ScanDistance(q)[f]))
<1>1. ASSUME NEW x \in Entries
      PROVE  /\ Compute[q, ScanPoint(x)] \in Int
             /\ ScanDistance(q)[x] = Nearness(q, ScanPoint(x))
  <2>1. CASE UsePq
    BY <2>1, ComputedByCode DEF ScanPoint, ScanDistance, ByCode
  <2>2. CASE ~UsePq
    <3>1. Compute[q, x.vector] \in Int
      BY EntriesFacts, SearchAssumption, DataAssumption DEF Entry
    <3> QED  BY <2>2, <3>1 DEF ScanPoint, ScanDistance, ByVector
  <2> QED  BY <2>1, <2>2
<1>2. Ahead(q, ScanPoint(e), e.seq, ScanPoint(f), f.seq) <=>
        \/ ScanDistance(q)[e] < ScanDistance(q)[f]
        \/ ScanDistance(q)[e] = ScanDistance(q)[f] /\ e.seq < f.seq
  BY <1>1, AheadIsNearness
<1> QED  BY <1>2, CandidateFields DEF Precedes

\* Whatever number of lists is probed, and by codes alone too, the best entries in
\* reach are found, best first, as the metric and not its negation orders
\* centroids and entries (search.rs, pq_variant.rs scans).
THEOREM BestFound == Spec => []BestInReachIsFound
<1>1. IndexInv => BestInReachIsFound
  <2> SUFFICES ASSUME IndexInv, trained, UsePq => pq_refine_factor = 0, NEW q \in Queries,
                      NEW k \in Ks, NEW filter \in Filters \cup {NoFilter}
               PROVE  LET inReach == InReach(q, filter)
                          size    == Cardinality(inReach)
                          hits    == Answer(q, k, filter).hits
                      IN  /\ Len(hits) = IF k < size THEN k ELSE size
                          /\ \A r \in DOMAIN hits : \E e \in inReach :
                               /\ e.id = hits[r].id
                               /\ Cardinality({f \in inReach :
                                      Ahead(q, ScanPoint(f), f.seq, ScanPoint(e), e.seq)})
                                    = r - 1
    BY DEF BestInReachIsFound
  <2> DEFINE R == InReach(q, filter)
             d == ScanDistance(q)
             hits == Answer(q, k, filter).hits
             n == AtMost(k, R)
  <2>1. k \in Nat
    BY SearchAssumption
  <2>2. Request(Cfg, q, k, filter) /\ Cfg.pq_refine_factor = pq_refine_factor
    BY <2>1, CfgRequests
  <2>3. R = Reach(Cfg, q, filter) /\ R \in SUBSET Entries
    BY InReachIsReach, ReachFacts
  <2>4. n \in Nat /\ d \in [Entries -> Int]
    BY <2>1, <2>3, AtMostTyped, ScanDistanceTyped
  <2>5. HitsRank(hits, CandidatesOf(R, d), n)
    BY <2>2, <2>3, DirectAnswer DEF Answer
  <2> HIDE DEF R, d, hits, n
  <2>6. PICK out : HitsOf(hits, out, R, d, n)
    BY <2>3, <2>4, <2>5, HitsRanked
  <2>7. Len(hits) = n /\ DOMAIN hits = 1..n
    BY <2>6, HitsFacts
  <2>8. ASSUME NEW r \in 1..n
        PROVE  \E e \in R :
                 /\ e.id = hits[r].id
                 /\ Cardinality({f \in R : Ahead(q, ScanPoint(f), f.seq, ScanPoint(e), e.seq)})
                      = r - 1
    <3> DEFINE e == out[r].entry
    <3>1. e \in R /\ e.id = hits[r].id
      BY <2>6, HitEntry
    <3>2. Cardinality({f \in R : Precedes(Candidate(f, d[f]), Candidate(e, d[e]))}) = r - 1
      BY <2>6, EntriesBefore
    <3>3. \A f \in R : Ahead(q, ScanPoint(f), f.seq, ScanPoint(e), e.seq) <=>
                        Precedes(Candidate(f, d[f]), Candidate(e, d[e]))
      BY <2>3, <3>1, ScanPrecedes DEF d
    <3> HIDE DEF e
    <3>4. {f \in R : Ahead(q, ScanPoint(f), f.seq, ScanPoint(e), e.seq)}
            = {f \in R : Precedes(Candidate(f, d[f]), Candidate(e, d[e]))}
      BY <3>3
    <3> QED  BY <3>1, <3>2, <3>4
  <2> QED  BY <2>7, <2>8 DEF R, hits, n, AtMost
<1>2. Spec => []IndexInv
  BY IndexInvariant
<1> QED  BY <1>1, <1>2, PTL

LEMMA CandidatesMonotonic ==
  ASSUME NEW S, NEW T \in SUBSET S, NEW d
  PROVE  CandidatesOf(T, d) \in SUBSET CandidatesOf(S, d)
BY DEF CandidatesOf

\* A filter is applied before the top k is taken: the hit at rank r is the r-th
\* accepted one of the whole unfiltered ranking, and there are k of them or as
\* many as that ranking has (search.rs scan_flat_filtered, pq_variant.rs
\* scan_pq_filtered).
THEOREM FilterFirst == Spec => []FilterComesFirst
<1>1. IndexInv => FilterComesFirst
  <2> SUFFICES ASSUME IndexInv, trained, UsePq => pq_refine_factor = 0, NEW q \in Queries,
                      NEW filter \in Filters, NEW k \in Ks
               PROVE  LET ranking == Answer(q, live_count, NoFilter).hits
                          places == {i \in DOMAIN ranking : ranking[i].id \in filter}
                          size   == Cardinality(places)
                          hits   == Answer(q, k, filter).hits
                      IN  /\ Len(hits) = IF k < size THEN k ELSE size
                          /\ \A r \in DOMAIN hits : \E i \in places :
                               /\ Cardinality({j \in places : j < i}) = r - 1
                               /\ hits[r] = ranking[i]
    BY DEF FilterComesFirst
  <2> DEFINE ranking == Answer(q, live_count, NoFilter).hits
             hits == Answer(q, k, filter).hits
             U == Reach(Cfg, q, NoFilter)
             R == Reach(Cfg, q, filter)
             d == ScanDistance(q)
             n == AtMost(k, R)
             N == Cardinality(U)
             places == {i \in DOMAIN ranking : ranking[i].id \in filter}
  <2>1. k \in Nat /\ live_count \in Nat /\ filter # NoFilter
    BY SearchAssumption, EntriesCounted
  <2>2. /\ Request(Cfg, q, k, filter) /\ Request(Cfg, q, live_count, NoFilter)
        /\ Cfg.pq_refine_factor = pq_refine_factor
    BY <2>1, CfgRequests
  <2>3. /\ hits = Search(Cfg, q, TRUE, k, filter).hits
        /\ ranking = Search(Cfg, q, TRUE, live_count, NoFilter).hits
    BY DEF Answer
  <2>4. N \in Nat /\ N <= live_count /\ IsFiniteSet(U)
    BY ReachFacts
  <2>5. AtMost(live_count, U) = N
    BY <2>1, <2>4 DEF AtMost
  <2>6. R = {e \in U : e.id \in filter}
    BY <2>1 DEF Reach, Accepted, Accepts
  <2>7. /\ d \in [Entries -> Int] /\ U \in SUBSET Entries
        /\ HitsRank(ranking, CandidatesOf(U, d), N)
    <3>1. HitsRank(ranking, CandidatesOf(U, d), AtMost(live_count, U))
      BY <2>2, <2>3, DirectAnswer
    <3>2. d \in [Entries -> Int] /\ U \in SUBSET Entries
      BY ScanDistanceTyped, ReachFacts
    <3> HIDE DEF U, d, ranking
    <3> QED  BY <2>5, <3>1, <3>2
  <2>8. R \in SUBSET Entries /\ n \in Nat /\ HitsRank(hits, CandidatesOf(R, d), n)
    <3>1. HitsRank(hits, CandidatesOf(R, d), n)
      BY <2>2, <2>3, DirectAnswer
    <3> QED  BY <2>1, <3>1, AtMostTyped, ReachFacts
  <2> HIDE DEF U, R, hits, ranking
  <2> DEFINE C == CandidatesOf(U, d)
             D == CandidatesOf(R, d)
  <2> HIDE DEF n, N, d
  <2>9. PICK all : HitsOf(ranking, all, U, d, N)
    BY <2>4, <2>7, HitsRanked DEF N
  <2>10. PICK out : HitsOf(hits, out, R, d, n)
    BY <2>7, <2>8, HitsRanked
  <2>11. Rankable(C) /\ Cardinality(C) = N
    BY <2>7, CandidatesOfFacts DEF N
  <2>12. Cardinality(D) = Cardinality(R) /\ Rankable(D)
    BY <2>7, <2>8, CandidatesOfFacts
  <2>13. D \in SUBSET C
    BY <2>6, CandidatesMonotonic
  <2>14. Len(hits) = n /\ DOMAIN hits = 1..n
    BY <2>10, HitsFacts
  <2>15. places = {i \in 1..N : all[i] \in D}
    <3>1. DOMAIN ranking = 1..N
      BY <2>9 DEF HitsOf, Reports
    <3>2. ASSUME NEW i \in 1..N
          PROVE  ranking[i].id \in filter <=> all[i] \in D
      <4>1. /\ all[i].entry \in U /\ ranking[i].id = all[i].entry.id
            /\ all[i] = Candidate(all[i].entry, d[all[i].entry])
        <5>1. all[i].entry \in U /\ ranking[i].id = all[i].entry.id
          BY <2>9, HitEntry
        <5>2. all[i] = Candidate(all[i].entry, d[all[i].entry])
          BY <2>9, RankedCandidate
        <5> QED  BY <5>1, <5>2
      <4>2. all[i].entry \in R => all[i] \in D
        BY <2>7, <2>8, <4>1, CandidatesOfFacts
      <4>3. all[i] \in D => all[i].entry \in R
        BY <2>7, <2>8, CandidatesOfFacts
      <4> HIDE DEF D, C
      <4> QED  BY <2>6, <4>1, <4>2, <4>3
    <3> HIDE DEF D
    <3> QED  BY <3>1, <3>2
  <2> HIDE DEF C, D, places
  <2>16. /\ Cardinality(places) = Cardinality(D)
         /\ \A c \in D : \E i \in places :
              /\ all[i] = c
              /\ Cardinality({j \in places : j < i}) = Cardinality({t \in D : Precedes(t, c)})
    <3>1. places = PlacesOf(all, D, Cardinality(C))
      BY <2>11, <2>15 DEF PlacesOf
    <3>2. RanksLeast(all, C, Cardinality(C))
      BY <2>9, <2>11 DEF HitsOf, C
    <3>3. Cardinality(places) = Cardinality(D)
      BY <2>11, <2>13, <3>1, <3>2, RankingOfSome
    <3>4. SameOrder(all, places, D)
      BY <2>11, <2>13, <3>1, <3>2, RankingOfSome
    <3> QED  BY <3>3, <3>4 DEF SameOrder
  <2>17. ASSUME NEW r \in 1..n
         PROVE  \E i \in places : /\ Cardinality({j \in places : j < i}) = r - 1
                                  /\ hits[r] = ranking[i]
    <3>0. RanksLeast(out, D, n)
      BY <2>10 DEF HitsOf, D
    <3>1. out[r] \in D /\ Cardinality({t \in D : Precedes(t, out[r])}) = r - 1
      BY <3>0 DEF RanksLeast
    <3>2. PICK i \in places :
            /\ all[i] = out[r]
            /\ Cardinality({j \in places : j < i}) = Cardinality({t \in D : Precedes(t, out[r])})
      BY <2>16, <3>1
    <3>3. i \in 1..N
      BY <2>15
    <3>4. hits[r] = ranking[i]
      BY <2>9, <2>10, <3>2, <3>3 DEF HitsOf, Reports
    <3> QED  BY <3>1, <3>2, <3>4
  <2>18. Len(hits) = IF k < Cardinality(places) THEN k ELSE Cardinality(places)
    BY <2>12, <2>14, <2>16 DEF n, AtMost
  <2> QED  BY <2>14, <2>17, <2>18 DEF places, ranking, hits
<1>2. Spec => []IndexInv
  BY IndexInvariant
<1> QED  BY <1>1, <1>2, PTL

\* More probes reach whatever fewer probes reach.
LEMMA MoreProbesReachMore ==
  ASSUME IndexInv, trained, NEW q \in Queries, NEW few, NEW many,
         few.n_probes \in Nat, many.n_probes \in Nat, few.n_probes <= many.n_probes, NEW filter
  PROVE  Reach(few, q, filter) \subseteq Reach(many, q, filter)
<1> DEFINE m == Probes(few)
           n == Probes(many)
<1>1. m \in Nat /\ n \in Nat /\ m <= n
  BY ConfigAssumption DEF Probes
<1>2. /\ RanksLeast(NearestCentres(few, q), Centres(q), m)
      /\ RanksLeast(NearestCentres(many, q), Centres(q), n)
      /\ Probed(few, q) = [i \in 1..m |-> NearestCentres(few, q)[i].cluster]
      /\ Probed(many, q) = [i \in 1..n |-> NearestCentres(many, q)[i].cluster]
  BY ProbedFacts
<1>3. Rankable(Centres(q))
  BY CentresFacts
<1> HIDE DEF m, n
<1>4. \A i \in 1..m : NearestCentres(few, q)[i] = NearestCentres(many, q)[i]
  BY <1>1, <1>2, <1>3, RanksPrefix
<1>5. \A i \in 1..m : i \in 1..n
  BY <1>1
<1>6. Range(Probed(few, q)) \subseteq Range(Probed(many, q))
  BY <1>2, <1>4, <1>5 DEF Range
<1> QED  BY <1>6 DEF Reach

\* One probe more never gives a worse answer: there are no fewer hits, and rank
\* for rank the distance is no larger (config.rs n_probes).
THEOREM MoreProbes == Spec => []MoreProbesNeverWorse
<1>1. IndexInv => MoreProbesNeverWorse
  <2> SUFFICES ASSUME IndexInv, trained, UsePq => pq_refine_factor = 0, NEW q \in Queries,
                      NEW k \in Ks, NEW filter \in Filters \cup {NoFilter}
               PROVE  LET fewer == Answer(q, k, filter).hits
                          more  == Search([Cfg EXCEPT !.n_probes = @ + 1], q, TRUE, k, filter).hits
                      IN  /\ Len(more) >= Len(fewer)
                          /\ \A r \in DOMAIN fewer : more[r].distance <= fewer[r].distance
    BY DEF MoreProbesNeverWorse
  <2> DEFINE wide == [Cfg EXCEPT !.n_probes = @ + 1]
             fewer == Answer(q, k, filter).hits
             more == Search(wide, q, TRUE, k, filter).hits
             R == Reach(Cfg, q, filter)
             U == Reach(wide, q, filter)
             d == ScanDistance(q)
             m == AtMost(k, R)
             n == AtMost(k, U)
  <2>1. k \in Nat
    BY SearchAssumption
  <2>2. /\ Request(Cfg, q, k, filter)
        /\ Cfg.pq_refine_factor = pq_refine_factor /\ Cfg.n_probes \in Nat
        /\ pq_refine_factor \in Nat
    BY <2>1, CfgRequests DEF Request
  <2>3. wide.n_probes = Cfg.n_probes + 1 /\ wide.pq_refine_factor = pq_refine_factor
    BY DEF Cfg
  <2>4. fewer = Search(Cfg, q, TRUE, k, filter).hits
    BY DEF Answer
  <2> HIDE DEF wide
  <2>5. Request(wide, q, k, filter)
    BY <2>1, <2>2, <2>3 DEF Request
  <2>6. R \subseteq U
    BY <2>2, <2>3, MoreProbesReachMore
  <2>7. /\ d \in [Entries -> Int] /\ m \in Nat /\ R \in SUBSET Entries
        /\ HitsRank(fewer, CandidatesOf(R, d), m)
    <3>1. HitsRank(fewer, CandidatesOf(R, d), m)
      BY <2>2, <2>4, DirectAnswer
    <3> QED  BY <2>1, <3>1, ScanDistanceTyped, AtMostTyped, ReachFacts
  <2>8. n \in Nat /\ U \in SUBSET Entries /\ HitsRank(more, CandidatesOf(U, d), n)
    <3>1. HitsRank(more, CandidatesOf(U, d), n)
      BY <2>3, <2>5, DirectAnswer
    <3> QED  BY <2>1, <3>1, AtMostTyped, ReachFacts
  <2> HIDE DEF R, U, fewer, more
  <2>9. m <= n
    <3>1. IsFiniteSet(U) /\ IsFiniteSet(R)
      BY <2>7, <2>8, CandidatesOfFacts
    <3>2. Cardinality(R) <= Cardinality(U) /\ Cardinality(R) \in Nat /\ Cardinality(U) \in Nat
      BY <2>6, <3>1, FS_Subset, FS_CardinalityType
    <3> QED  BY <2>1, <3>2 DEF AtMost
  <2> DEFINE C == CandidatesOf(R, d)
             D == CandidatesOf(U, d)
  <2> HIDE DEF d, m, n
  <2>10. PICK few : HitsOf(fewer, few, R, d, m)
    BY <2>7, HitsRanked
  <2>11. PICK many : HitsOf(more, many, U, d, n)
    BY <2>7, <2>8, HitsRanked
  <2>12. Rankable(D) /\ C \in SUBSET D
    BY <2>6, <2>7, <2>8, CandidatesOfFacts, CandidatesMonotonic
  <2>13. Len(fewer) = m /\ DOMAIN fewer = 1..m /\ Len(more) = n
    BY <2>10, <2>11, HitsFacts
  <2>a. RanksLeast(few, C, m) /\ RanksLeast(many, D, n)
    BY <2>10, <2>11 DEF HitsOf
  <2> HIDE DEF C, D
  <2>14. ASSUME NEW r \in 1..m
         PROVE  more[r].distance <= fewer[r].distance
    <3>1. r \in 1..n
      BY <2>7, <2>8, <2>9
    <3>2. ~Precedes(few[r], many[r])
      BY <2>7, <2>8, <2>a, <2>12, <3>1, MoreCandidatesRankNoLater
    <3>3. few[r] \in D /\ many[r] \in D
      BY <2>a, <2>12, <3>1 DEF RanksLeast
    <3>4. Scored(few[r]) /\ Scored(many[r])
      BY <2>12, <3>3 DEF Rankable
    <3>5. many[r].dist <= few[r].dist
      BY <3>2, <3>4 DEF Precedes, Scored
    <3>6. more[r].distance = many[r].dist /\ fewer[r].distance = few[r].dist
      BY <2>10, <2>11, <3>1 DEF HitsOf, Reports
    <3> QED  BY <3>5, <3>6
  <2> QED  BY <2>7, <2>8, <2>9, <2>13, <2>14 DEF more, fewer, wide
<1>2. Spec => []IndexInv
  BY IndexInvariant
<1> QED  BY <1>1, <1>2, PTL

\* The entries an answer names.
Named(hits) == {EntryOf(hit.id) : hit \in Range(hits)}

LEMMA NamedAreRanked ==
  ASSUME IndexInv, NEW S, NEW d, NEW n, NEW out, NEW hits, HitsOf(hits, out, S, d, n)
  PROVE  Named(hits) = Ranked(out, n)
<1>1. Range(hits) = {hits[r] : r \in 1..n}
  <2>1. DOMAIN hits = 1..n
    BY HitsFacts
  <2> QED  BY <2>1 DEF Range
<1>2. ASSUME NEW r \in 1..n
      PROVE  EntryOf(hits[r].id) = out[r].entry
  <2>1. out[r].entry \in S /\ hits[r].id = out[r].entry.id
    BY HitEntry
  <2>2. out[r].entry \in Entries
    BY <2>1 DEF HitsOf
  <2> QED  BY <2>1, <2>2, EntryOfId
<1> QED  BY <1>1, <1>2 DEF Named, Ranked

\* A longer shortlist holds a shorter one.
LEMMA ShortlistsNest ==
  ASSUME IndexInv, UsePq, trained, NEW q \in Queries, NEW R \in SUBSET Entries,
         NEW m \in Nat, NEW n \in Nat, m <= n,
         NEW S, Shortlisted(S, R, q, m), NEW T, Shortlisted(T, R, q, n)
  PROVE  S \subseteq T
<1> DEFINE C == CandidatesOf(R, ByCode(q))
<1>1. Rankable(C)
  <2>1. ByCode(q) \in [Entries -> Int]
    BY DistancesAreNumbers
  <2> QED  BY <2>1, CandidatesOfFacts
<1>2. PICK few : RanksLeast(few, C, m) /\ S = Ranked(few, m)
  BY DEF Shortlisted
<1>3. PICK many : RanksLeast(many, C, n) /\ T = Ranked(many, n)
  BY DEF Shortlisted
<1> HIDE DEF C
<1>4. \A r \in 1..m : few[r] = many[r]
  BY <1>1, <1>2, <1>3, RanksPrefix
<1>5. \A r \in 1..m : r \in 1..n
  OBVIOUS
<1> QED  BY <1>2, <1>3, <1>4, <1>5 DEF Ranked

\* Of how many entries the hits of a search by code are taken.
ShortlistLength(cfg, k, R) ==
  IF cfg.pq_refine_factor = 0 THEN AtMost(k, R) ELSE AtMost(cfg.pq_refine_factor * k, R)

LEMMA ShortlistLengthTyped ==
  ASSUME NEW R, Cardinality(R) \in Nat, NEW k \in Nat, NEW cfg, cfg.pq_refine_factor \in Nat
  PROVE  ShortlistLength(cfg, k, R) \in Nat /\ AtMost(k, R) \in Nat
<1>1. cfg.pq_refine_factor * k \in Nat
  OBVIOUS
<1> QED  BY <1>1 DEF ShortlistLength, AtMost

\* L is size entries of a shortlist of n.
TakenFromShortlist(L, size, R, q, n) ==
  /\ Cardinality(L) = size
  /\ \E S : Shortlisted(S, R, q, n) /\ L \subseteq S

\* Codes alone or not, the hits of a search by code name entries of a shortlist.
LEMMA NamedAreShortlisted ==
  ASSUME IndexInv, trained, UsePq,
         NEW cfg, NEW q, NEW k, NEW filter, Request(cfg, q, k, filter),
         NEW R, R = Reach(cfg, q, filter), NEW hits, hits = Search(cfg, q, TRUE, k, filter).hits
  PROVE  TakenFromShortlist(Named(hits), AtMost(k, R), R, q, ShortlistLength(cfg, k, R))
<1>0. q \in Queries /\ k \in Nat /\ cfg.pq_refine_factor \in Nat
  BY DEF Request
<1>1. R \in SUBSET Entries /\ Cardinality(R) \in Nat
  BY ReachFacts
<1>2. AtMost(k, R) \in Nat
  BY <1>0, <1>1 DEF AtMost
<1>3. PICK S \in SUBSET Entries, d \in [Entries -> Int] : RankedFrom(hits, cfg, q, k, R, S, d)
  BY AnswerRanked
<1>4. PICK out : HitsOf(hits, out, S, d, AtMost(k, R))
  <2>1. HitsRank(hits, CandidatesOf(S, d), AtMost(k, R))
    BY <1>3 DEF RankedFrom
  <2> QED  BY <1>2, <2>1, HitsRanked
<1>5. Named(hits) = Ranked(out, AtMost(k, R))
  BY <1>4, NamedAreRanked
<1>6. RanksLeast(out, CandidatesOf(S, d), AtMost(k, R))
  BY <1>4 DEF HitsOf
<1>7. Cardinality(Named(hits)) = AtMost(k, R)
  <2>1. Cardinality(Ranked(out, AtMost(k, R))) = AtMost(k, R)
    BY <1>2, <1>6, RankedSize
  <2> QED  BY <1>5, <2>1
<1>8. CASE cfg.pq_refine_factor = 0
  <2>1. S = R /\ d = ByCode(q)
    BY <1>3, <1>8 DEF RankedFrom
  <2>2. Shortlisted(Named(hits), R, q, AtMost(k, R))
    BY <1>5, <1>6, <2>1 DEF Shortlisted
  <2> QED  BY <1>7, <1>8, <2>2 DEF ShortlistLength, TakenFromShortlist
<1>9. CASE cfg.pq_refine_factor # 0
  <2>1. Shortlisted(S, R, q, AtMost(cfg.pq_refine_factor * k, R))
    BY <1>3, <1>9 DEF RankedFrom
  <2>2. Named(hits) \subseteq S
    BY <1>2, <1>5, <1>6, RankedEntries
  <2> QED  BY <1>7, <1>9, <2>1, <2>2 DEF ShortlistLength, TakenFromShortlist
<1> QED  BY <1>8, <1>9

\* The entries as near as e.
Within(S, q, e) == {o \in S : Nearness(q, o.vector) <= Nearness(q, e.vector)}

\* Of as many entries of S none has more as near as one of its own than the
\* nearest of S have.
LEMMA NearestHaveMostWithin ==
  ASSUME IndexInv, NEW q \in Queries, NEW S, NEW n, NEW out, NEW hits,
         HitsOf(hits, out, S, ByVector(q), n),
         NEW L \in SUBSET S, Cardinality(L) = n, NEW e \in L
  PROVE  Cardinality(Within(Ranked(out, n), q, e)) >= Cardinality(Within(L, q, e))
<1> DEFINE d == ByVector(q)
           C == CandidatesOf(S, d)
           M == Ranked(out, n)
<1>1. S \in SUBSET Entries /\ n \in Nat /\ d \in [Entries -> Int] /\ RanksLeast(out, C, n)
  BY DEF HitsOf
<1>2. \A o \in S : d[o] = Nearness(q, o.vector) /\ d[o] \in Int
  BY <1>1 DEF ByVector
<1>3. IsFiniteSet(S)
  BY <1>1, CandidatesOfFacts
<1>4. M \in SUBSET S
  BY <1>1, RankedEntries
<1>5. Cardinality(M) = n
  BY <1>1, RankedSize
<1>6. IsFiniteSet(M) /\ IsFiniteSet(L)
  BY <1>3, <1>4, FS_Subset
<1>7. Within(M, q, e) \in SUBSET M /\ Within(L, q, e) \in SUBSET L
  BY DEF Within
<1>8. /\ IsFiniteSet(Within(M, q, e)) /\ IsFiniteSet(Within(L, q, e))
      /\ Cardinality(Within(M, q, e)) \in Nat /\ Cardinality(Within(L, q, e)) \in Nat
      /\ Cardinality(Within(L, q, e)) <= n
  BY <1>6, <1>7, FS_Subset, FS_CardinalityType
<1> HIDE DEF d
<1>9. CASE \A o \in M : d[o] <= d[e]
  <2>1. Within(M, q, e) = M
    BY <1>2, <1>4, <1>9 DEF Within
  <2>2. Cardinality(Within(M, q, e)) = n
    BY <1>5, <2>1
  <2> QED  BY <1>1, <1>8, <2>2
<1>10. CASE ~(\A o \in M : d[o] <= d[e])
  <2>1. PICK r \in 1..n : ~(d[out[r].entry] <= d[e])
    BY <1>10 DEF Ranked
  <2> DEFINE f == out[r].entry
  <2>2. /\ f \in S /\ out[r] = Candidate(f, d[f])
    <3>1. f \in S
      BY HitEntry
    <3>2. out[r] = Candidate(f, d[f])
      BY RankedCandidate DEF d
    <3> QED  BY <3>1, <3>2
  <2> HIDE DEF f
  <2>3. ~(d[f] <= d[e])
    BY <2>1 DEF f
  <2>4. ASSUME NEW x \in Within(L, q, e)
        PROVE  x \in M
    <3>1. x \in S /\ d[x] <= d[e]
      BY <1>2 DEF Within
    <3>2. d[x] < d[f]
      BY <1>2, <2>2, <2>3, <3>1
    <3>3. Precedes(Candidate(x, d[x]), out[r])
      BY <2>2, <3>2, CandidateFields DEF Precedes
    <3>4. Candidate(x, d[x]) \in C
      BY <3>1 DEF CandidatesOf
    <3>5. Rankable(C)
      BY <1>1, CandidatesOfFacts
    <3> HIDE DEF C, M
    <3>6. PICK s \in 1..n : out[s] = Candidate(x, d[x])
      BY <1>1, <3>3, <3>4, <3>5, RanksClosed
    <3>7. out[s].entry = x
      BY <3>6, CandidateFields
    <3> QED  BY <3>7 DEF Ranked, M
  <2>5. Within(L, q, e) \subseteq Within(M, q, e)
    BY <2>4 DEF Within
  <2>6. Cardinality(Within(L, q, e)) <= Cardinality(Within(M, q, e))
    BY <1>8, <2>5, FS_Subset
  <2> QED  BY <1>8, <2>6
<1> QED  BY <1>9, <1>10

\* A larger refine factor never gives a worse answer, and any factor none worse
\* than codes alone: of its hits at least as many are as near in exact distance
\* as any one of the smaller factor's (pq_variant.rs finish_scan_pq).
THEOREM MoreRefine == Spec => []MoreRefineNeverWorse
<1>1. IndexInv => MoreRefineNeverWorse
  <2> SUFFICES ASSUME IndexInv, UsePq, trained, NEW q \in Queries, NEW k \in Ks,
                      NEW filter \in Filters \cup {NoFilter},
                      NEW factor \in RefineFactors, pq_refine_factor < factor,
                      NEW e \in Named(Answer(q, k, filter).hits)
               PROVE  LET less  == Named(Answer(q, k, filter).hits)
                          more  == Named(Search([Cfg EXCEPT !.pq_refine_factor = factor],
                                                q, TRUE, k, filter).hits)
                      IN  Cardinality(Within(more, q, e)) >= Cardinality(Within(less, q, e))
    BY DEF MoreRefineNeverWorse, Named, Within
  <2> DEFINE cfg == [Cfg EXCEPT !.pq_refine_factor = factor]
             found == Answer(q, k, filter).hits
             refound == Search(cfg, q, TRUE, k, filter).hits
             R == Reach(Cfg, q, filter)
             K == AtMost(k, R)
             m == ShortlistLength(Cfg, k, R)
             n == ShortlistLength(cfg, k, R)
  <2>1. k \in Nat /\ factor \in Nat
    BY SearchAssumption
  <2>2. /\ Request(Cfg, q, k, filter)
        /\ Cfg.pq_refine_factor = pq_refine_factor /\ pq_refine_factor \in Nat
        /\ Cfg.n_probes \in Nat
    BY <2>1, CfgRequests DEF Request
  <2>3. cfg.n_probes = Cfg.n_probes /\ cfg.pq_refine_factor = factor
    BY DEF Cfg
  <2>4. found = Search(Cfg, q, TRUE, k, filter).hits
    BY DEF Answer
  <2>5. factor # 0
    BY <2>1, <2>2
  <2> HIDE DEF cfg
  <2>6. Request(cfg, q, k, filter)
    BY <2>1, <2>2, <2>3 DEF Request
  <2>7. R = Reach(cfg, q, filter)
    BY <2>3 DEF Reach, Probed
  <2>8. R \in SUBSET Entries /\ Cardinality(R) \in Nat
    BY ReachFacts
  <2> HIDE DEF R, found, refound
  <2>9. K \in Nat /\ m \in Nat /\ n \in Nat
    <3>1. Cfg.pq_refine_factor \in Nat /\ cfg.pq_refine_factor \in Nat
      BY <2>1, <2>2, <2>3
    <3> QED  BY <2>1, <2>8, <3>1, ShortlistLengthTyped
  <2>10. m <= n
    <3>1. n = AtMost(factor * k, R)
      BY <2>3, <2>5 DEF ShortlistLength
    <3>2. factor * k \in Nat /\ k <= factor * k
      <4>1. factor * k = k + (factor - 1) * k /\ (factor - 1) * k \in Nat
        BY <2>1, <2>5
      <4> QED  BY <2>1, <4>1
    <3>3. pq_refine_factor * k \in Nat /\ pq_refine_factor * k <= factor * k
      <4>1. factor * k = pq_refine_factor * k + (factor - pq_refine_factor) * k
        BY <2>1, <2>2
      <4>2. pq_refine_factor * k \in Nat /\ (factor - pq_refine_factor) * k \in Nat
        BY <2>1, <2>2
      <4> QED  BY <2>1, <4>1, <4>2
    <3>4. m = AtMost(k, R) \/ m = AtMost(pq_refine_factor * k, R)
      BY <2>2 DEF ShortlistLength
    <3> HIDE DEF m, n
    <3> QED  BY <2>1, <2>8, <3>1, <3>2, <3>3, <3>4 DEF AtMost
  <2>11. TakenFromShortlist(Named(found), K, R, q, m)
    BY <2>2, <2>4, NamedAreShortlisted DEF R
  <2> HIDE DEF m
  <2>12. PICK S : Shortlisted(S, R, q, m) /\ Named(found) \subseteq S
    BY <2>11 DEF TakenFromShortlist
  <2>13. PICK T \in SUBSET Entries, d \in [Entries -> Int] : RankedFrom(refound, cfg, q, k, R, T, d)
    BY <2>6, <2>7, AnswerRanked DEF refound
  <2>14. d = ByVector(q) /\ Shortlisted(T, R, q, n)
    BY <2>3, <2>5, <2>13 DEF RankedFrom, ShortlistLength, n
  <2>15. HitsRank(refound, CandidatesOf(T, ByVector(q)), K)
    BY <2>13, <2>14 DEF RankedFrom
  <2> HIDE DEF K, m, n
  <2>16. PICK out : HitsOf(refound, out, T, ByVector(q), K)
    BY <2>9, <2>14, <2>15, HitsRanked
  <2>17. S \subseteq T
    BY <2>8, <2>9, <2>10, <2>12, <2>14, ShortlistsNest
  <2>18. Named(refound) = Ranked(out, K)
    BY <2>16, NamedAreRanked
  <2>19. Named(found) \in SUBSET T /\ e \in Named(found)
    BY <2>12, <2>17 DEF found
  <2>20. Cardinality(Within(Ranked(out, K), q, e)) >= Cardinality(Within(Named(found), q, e))
    BY <2>11, <2>16, <2>19, NearestHaveMostWithin DEF TakenFromShortlist
  <2> QED  BY <2>18, <2>20 DEF found, refound, cfg
<1>2. Spec => []IndexInv
  BY IndexInvariant
<1> QED  BY <1>1, <1>2, PTL

LEMMA SmallerIsNoLarger ==
  ASSUME NEW x \in Nat, NEW y \in Nat, x < y
  PROVE  ~(y <= x)
OBVIOUS

\* The first list probed for a stored vector is the one it is in.
LEMMA OwnListIsFirst ==
  ASSUME IndexInv, trained, MetricAgrees, NEW e \in Entries,
         NEW cfg, cfg.n_probes \in Nat \ {0}
  PROVE  id_to_cluster[e.id] \in Range(Probed(cfg, e.vector))
<1> DEFINE v == e.vector
           c == id_to_cluster[e.id]
           S == Centres(v)
           s == ScoredCentroids(v)
           before(x) == {t \in S : Precedes(t, x)}
           m == Probes(cfg)
<1>1. v \in Vectors /\ v \in Queries
  BY EntriesFacts DEF Entry, MetricAgrees
<1>2. Rankable(S) /\ \A t \in S : t.cluster \in Clusters /\ t = s[t.cluster]
  BY <1>1, CentresFacts
<1>3. \A d \in Clusters : /\ s[d].seq = d /\ s[d].cluster = d
                          /\ s[d].dist = Nearness(v, centroids[d])
  BY <1>1, CentresFacts
<1>4. /\ c \in Clusters
      /\ \A d \in Clusters : /\ SquaredL2[centroids[c], v] <= SquaredL2[centroids[d], v]
                             /\ d < c => SquaredL2[centroids[c], v] < SquaredL2[centroids[d], v]
  <2>1. PICK d \in Clusters : \E p \in DOMAIN inverted_lists[d] : inverted_lists[d][p] = e
    BY EntryPosition DEF IndexInv
  <2>2. c = d
    BY <2>1 DEF IndexInv, DirectoryExact
  <2> QED  BY <2>1, <2>2 DEF IndexInv, NearestPlacement
<1>5. \A d \in Clusters : Nearness(v, centroids[d]) \in Int /\ centroids[d] \in Points
  BY <1>1, CentresFacts DEF IndexInv
<1>6. s[c] \in S
  BY <1>4 DEF Centres
<1>7. ASSUME NEW d \in Clusters
      PROVE  ~Precedes(s[d], s[c])
  <2>1. Nearness(v, centroids[c]) <= Nearness(v, centroids[d])
    BY <1>1, <1>4, <1>5 DEF MetricAgrees
  <2>2. ASSUME d < c PROVE Nearness(v, centroids[c]) < Nearness(v, centroids[d])
    <3>1. SquaredL2[centroids[c], v] \in Nat /\ SquaredL2[centroids[d], v] \in Nat
      BY <1>1, <1>4, <1>5, DataAssumption
    <3>2. ~(SquaredL2[centroids[d], v] <= SquaredL2[centroids[c], v])
      BY <1>4, <2>2, <3>1, SmallerIsNoLarger, Zenon
    <3>3. ~(Nearness(v, centroids[d]) <= Nearness(v, centroids[c]))
      BY <1>1, <1>4, <1>5, <3>2 DEF MetricAgrees
    <3>4. Nearness(v, centroids[c]) \in Int /\ Nearness(v, centroids[d]) \in Int
      BY <1>4, <1>5
    <3> QED  BY <3>3, <3>4
  <2>3. /\ s[d].seq = d /\ s[d].dist = Nearness(v, centroids[d])
        /\ s[c].seq = c /\ s[c].dist = Nearness(v, centroids[c])
    BY <1>3, <1>4
  <2>4. Nearness(v, centroids[c]) \in Int /\ Nearness(v, centroids[d]) \in Int
    BY <1>4, <1>5
  <2> HIDE DEF v, c, s
  <2> QED  BY <2>1, <2>2, <2>3, <2>4 DEF Precedes
<1>8. before(s[c]) = {}
  <2> HIDE DEF S, s
  <2> QED  BY <1>2, <1>7
<1>9. Cardinality(before(s[c])) = 0
  BY <1>8, FS_EmptySet
<1>10. /\ m \in Nat /\ 0 < m
       /\ RanksLeast(NearestCentres(cfg, v), S, m)
       /\ Probed(cfg, v) = [i \in 1..m |-> NearestCentres(cfg, v)[i].cluster]
  <2>1. m \in 0..NClusters /\ NClusters \in Nat \ {0}
    BY <1>1, ProbedFacts, ConfigAssumption
  <2>2. 0 < m
    BY <2>1 DEF Probes
  <2> QED  BY <1>1, <2>1, <2>2, ProbedFacts
<1> HIDE DEF m, S, s
<1>11. NearestCentres(cfg, v)[0 + 1] = s[c] /\ 0 + 1 \in 1..m
  <2>1. /\ Cardinality(before(s[c])) + 1 \in 1..m
        /\ NearestCentres(cfg, v)[Cardinality(before(s[c])) + 1] = s[c]
    BY <1>2, <1>6, <1>9, <1>10, RanksComplete
  <2> HIDE DEF before
  <2> QED  BY <1>9, <2>1
<1>12. s[c].cluster = c
  BY <1>3, <1>4
<1>13. 1 \in 1..m /\ Probed(cfg, v)[1] = c
  BY <1>10, <1>11, <1>12
<1> QED  BY <1>10, <1>13 DEF Range

\* Of the copies of a vector there is an oldest.
LEMMA OldestCopy ==
  ASSUME IndexInv, NEW e \in Entries, NEW copies, copies = {f \in Entries : f.vector = e.vector},
         NEW oldest, oldest = CHOOSE f \in copies : \A g \in copies : f.seq <= g.seq
  PROVE  oldest \in copies /\ \A g \in copies : oldest.seq <= g.seq
<1> DEFINE stamps == {f.seq : f \in copies}
<1>1. stamps \in SUBSET Nat /\ stamps # {}
  BY EntriesFacts
<1>2. PICK m \in stamps : \A n \in stamps : m <= n
  <2> HIDE DEF stamps
  <2> QED  BY <1>1, LeastNatural
<1>3. PICK f \in copies : m = f.seq
  OBVIOUS
<1>4. \A g \in copies : f.seq <= g.seq
  BY <1>2, <1>3
<1>5. \E h \in copies : \A g \in copies : h.seq <= g.seq
  BY <1>4
<1> QED  BY <1>5, Zenon

\* Nothing in reach comes before the oldest copy of the vector searched for.
LEMMA OldestIsFirst ==
  ASSUME IndexInv, MetricAgrees, NEW o \in Entries, NEW x \in Entries,
         x.vector = o.vector => o.seq <= x.seq
  PROVE  ~Precedes(Candidate(x, ByVector(o.vector)[x]), Candidate(o, ByVector(o.vector)[o]))
<1> DEFINE v == o.vector
<1>1. v \in Vectors /\ v \in Points /\ x.vector \in Points /\ v \in Queries
  BY EntriesFacts, DataAssumption DEF Entry, MetricAgrees
<1>2. /\ ByVector(v)[x] = Nearness(v, x.vector) /\ ByVector(v)[o] = Nearness(v, v)
      /\ Nearness(v, x.vector) \in Int /\ Nearness(v, v) \in Int
  <2>1. ByVector(v) \in [Entries -> Int]
    BY <1>1, DistancesAreNumbers
  <2>2. ByVector(v)[x] \in Int /\ ByVector(v)[o] \in Int
    BY <2>1
  <2> QED  BY <2>2 DEF ByVector
<1>3. o.seq \in Nat /\ x.seq \in Nat
  BY EntriesFacts
<1>4. CASE x.vector = v
  <2>1. ~(x.seq < o.seq)
    BY <1>3, <1>4
  <2>2. ~(Nearness(v, x.vector) < Nearness(v, v))
    BY <1>2, <1>4
  <2> QED  BY <1>2, <2>1, <2>2, CandidateFields DEF Precedes
<1>5. CASE x.vector # v
  <2>1. SquaredL2[v, v] < SquaredL2[x.vector, v]
    BY <1>1, <1>5 DEF MetricAgrees
  <2>2. SquaredL2[v, v] \in Nat /\ SquaredL2[x.vector, v] \in Nat
    BY <1>1, DataAssumption
  <2>3. ~(SquaredL2[x.vector, v] <= SquaredL2[v, v])
    BY <2>1, <2>2, SmallerIsNoLarger, Zenon
  <2>4. ~(Nearness(v, x.vector) <= Nearness(v, v))
    BY <1>1, <2>3 DEF MetricAgrees
  <2>5. /\ ~(Nearness(v, x.vector) < Nearness(v, v))
        /\ Nearness(v, x.vector) # Nearness(v, v)
    BY <1>2, <2>4
  <2> QED  BY <1>2, <2>5, CandidateFields DEF Precedes
<1> QED  BY <1>4, <1>5

\* A stored vector is found by searching for it, whatever n_probes is: insert,
\* retrain and search agree on the list, ties included.  Of copies the oldest is
\* found (index.rs, search.rs, assign.rs).
THEOREM StoredVectorFound == MetricAgrees => (Spec => []StoredVectorIsFound)
<1> SUFFICES ASSUME MetricAgrees PROVE Spec => []StoredVectorIsFound
  OBVIOUS
<1>1. IndexInv => StoredVectorIsFound
  <2> SUFFICES ASSUME IndexInv, ~UsePq, NEW e \in Entries
               PROVE  LET copies == {f \in Entries : f.vector = e.vector}
                          oldest == CHOOSE f \in copies : \A g \in copies : f.seq <= g.seq
                          hits   == Answer(e.vector, 1, NoFilter).hits
                      IN  Len(hits) = 1 /\ hits[1].id = oldest.id
    BY DEF StoredVectorIsFound
  <2> DEFINE copies == {f \in Entries : f.vector = e.vector}
             o == CHOOSE f \in copies : \A g \in copies : f.seq <= g.seq
             v == e.vector
             hits == Answer(v, 1, NoFilter).hits
             R == Reach(Cfg, v, NoFilter)
             C == CandidatesOf(R, ByVector(v))
             first == Candidate(o, ByVector(v)[o])
             before(x) == {t \in C : Precedes(t, x)}
  <2>1. trained
    <3>1. e.id \in DOMAIN id_to_cluster
      BY EntriesFacts
    <3> QED  BY <3>1 DEF IndexInv
  <2>2. o \in copies /\ \A g \in copies : o.seq <= g.seq
    BY OldestCopy
  <2> HIDE DEF o
  <2>3. o \in Entries /\ o.vector = v
    BY <2>2
  <2>4. v \in Queries /\ v \in Vectors
    BY EntriesFacts DEF Entry, MetricAgrees
  <2>5. /\ Request(Cfg, v, 1, NoFilter)
        /\ Cfg.n_probes \in Nat \ {0}
    BY <2>4, CfgRequests, ConfigAssumption DEF Clusters
  <2>6. o \in R
    <3>1. id_to_cluster[o.id] \in Range(Probed(Cfg, v))
      BY <2>1, <2>3, <2>5, OwnListIsFirst
    <3> QED  BY <2>3, <3>1 DEF Reach, Accepted, Accepts
  <2>7. R \in SUBSET Entries /\ IsFiniteSet(R) /\ Cardinality(R) \in Nat
    BY ReachFacts
  <2> HIDE DEF R
  <2> DEFINE n == AtMost(1, R)
  <2>8. n = 1 /\ n \in Nat
    <3>1. Cardinality(R) # 0
      BY <2>6, <2>7, FS_EmptySet
    <3> QED  BY <2>7, <3>1 DEF AtMost
  <2>9. HitsRank(hits, C, n)
    BY <2>1, <2>5, SearchRanks DEF R, Answer
  <2>10. ByVector(v) \in [Entries -> Int]
    BY <2>4, DistancesAreNumbers
  <2> HIDE DEF hits, v, n
  <2>11. PICK out : HitsOf(hits, out, R, ByVector(v), n)
    BY <2>7, <2>8, <2>9, <2>10, HitsRanked
  <2>12. Len(hits) = 1
    <3>1. Len(hits) = n
      BY <2>11, HitsFacts
    <3> QED  BY <2>8, <3>1
  <2>13. Rankable(C) /\ first \in C
    BY <2>6, <2>7, <2>10, CandidatesOfFacts
  <2>14. ASSUME NEW t \in C
         PROVE  ~Precedes(t, first)
    <3>1. t.entry \in R /\ t = Candidate(t.entry, ByVector(v)[t.entry])
      BY <2>7, <2>10, CandidatesOfFacts
    <3>2. t.entry \in Entries
      BY <2>7, <3>1
    <3>3. t.entry.vector = o.vector => o.seq <= t.entry.seq
      BY <2>2, <2>3, <3>2 DEF v
    <3>4. ~Precedes(Candidate(t.entry, ByVector(v)[t.entry]), Candidate(o, ByVector(v)[o]))
      BY <2>3, <3>2, <3>3, OldestIsFirst
    <3> QED  BY <3>1, <3>4
  <2>15. Cardinality(before(first)) = 0
    <3>1. before(first) = {}
      BY <2>14
    <3> QED  BY <3>1, FS_EmptySet
  <2>16. RanksLeast(out, C, n) /\ 0 < n /\ 1 \in 1..n
    BY <2>8, <2>11 DEF HitsOf
  <2> HIDE DEF C, first
  <2>17. out[Cardinality(before(first)) + 1] = first
    BY <2>8, <2>13, <2>15, <2>16, RanksComplete
  <2>18. out[1] = first
    <3> HIDE DEF before
    <3> QED  BY <2>15, <2>17
  <2>19. hits[1].id = out[1].entry.id
    BY <2>11, <2>16, HitEntry
  <2>20. hits[1].id = o.id
    BY <2>18, <2>19, CandidateFields DEF first
  <2> QED  BY <2>12, <2>20 DEF hits, v, o
<1>2. Spec => []IndexInv
  BY IndexInvariant
<1> QED  BY <1>1, <1>2, PTL
=============================================================================
