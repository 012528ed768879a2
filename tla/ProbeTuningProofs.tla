-------------------------- MODULE ProbeTuningProofs --------------------------
(***************************************************************************)
(* What is proved of the reports on an index, for every history of calls,  *)
(* every number of clusters and every coverage.                            *)
(***************************************************************************)
EXTENDS ProbeTuning, IvfIndexProofs

-----------------------------------------------------------------------------
(* The lists account for every vector *)

LEMMA ClustersFacts ==
  /\ NClusters \in Nat \ {0} /\ Clusters = 1..NClusters
  /\ IsFiniteSet(Clusters) /\ Cardinality(Clusters) = NClusters
<1>1. NClusters \in Nat \ {0}
  BY ConfigAssumption, Zenon
<1>2. Clusters = 1..NClusters
  BY DEF Clusters
<1>3. IsFiniteSet(1..NClusters) /\ Cardinality(1..NClusters) = NClusters
  BY <1>1, FS_Interval
<1> QED  BY <1>1, <1>2, <1>3

LEMMA SizesType ==
  ASSUME TypeOK
  PROVE  /\ Sizes \in [Clusters -> Nat] /\ Sizes \in [Clusters -> Int]
         /\ \A c \in Clusters : Sizes[c] = Len(inverted_lists[c])
<1>1. \A c \in Clusters : Len(inverted_lists[c]) \in Nat
  BY ListEntry
<1> QED  BY <1>1 DEF Sizes

\* A list holds as many entries as it is long, and none that another list holds.
LEMMA ListCounted ==
  ASSUME IndexInv, NEW c \in Clusters
  PROVE  /\ IsFiniteSet(Range(inverted_lists[c]))
         /\ Cardinality(Range(inverted_lists[c])) = Sizes[c]
         /\ \A d \in Clusters :
              d # c => Range(inverted_lists[c]) \cap Range(inverted_lists[d]) = {}
<1> DEFINE list == inverted_lists[c]
           len == Len(list)
<1>0. TypeOK /\ DirectoryExact
  BY DEF IndexInv
<1>1. len \in Nat /\ DOMAIN list = 1..len /\ list \in Seq(Entry)
  BY <1>0, ListEntry
<1>2. Sizes[c] = len
  BY <1>0, SizesType
<1>3. \A d \in Clusters : \A p \in DOMAIN inverted_lists[d] :
        /\ id_to_cluster[inverted_lists[d][p].id] = d
        /\ \A q \in DOMAIN inverted_lists[d] :
             inverted_lists[d][q].id = inverted_lists[d][p].id => q = p
  BY <1>0, Zenon DEF DirectoryExact
<1>4. list \in [1..len -> Range(list)] /\ \A e \in Range(list) : \E p \in 1..len : list[p] = e
  BY <1>1 DEF Range
<1>5. \A p, q \in 1..len : list[p] = list[q] => p = q
  <2> SUFFICES ASSUME NEW p \in 1..len, NEW q \in 1..len, list[p] = list[q] PROVE p = q
    OBVIOUS
  <2>1. p \in DOMAIN list /\ q \in DOMAIN list
    BY <1>1
  <2>2. list[p].id = list[q].id
    BY Zenon
  <2> QED  BY <1>3, <2>1, <2>2, Zenon
<1>6. IsFiniteSet(1..len) /\ Cardinality(1..len) = len
  BY <1>1, FS_Interval
<1>7. IsFiniteSet(Range(list)) /\ Cardinality(Range(list)) = len
  <2> HIDE DEF len, list
  <2> QED  BY <1>4, <1>5, <1>6, OneToOneSize
<1>8. ASSUME NEW d \in Clusters, d # c, NEW e \in Range(list), e \in Range(inverted_lists[d])
      PROVE  FALSE
  <2>1. PICK p \in DOMAIN list : list[p] = e
    BY DEF Range
  <2>2. PICK q \in DOMAIN inverted_lists[d] : inverted_lists[d][q] = e
    BY <1>8 DEF Range
  <2>3. id_to_cluster[e.id] = c
    BY <1>3, <2>1, Zenon
  <2>4. id_to_cluster[e.id] = d
    BY <1>3, <2>2, Zenon
  <2> QED  BY <1>8, <2>3, <2>4
<1> QED  BY <1>2, <1>7, <1>8

\* The entries of the lists of T.
HeldIn(T) == UNION {Range(inverted_lists[c]) : c \in T}

LEMMA SizesAddUp ==
  ASSUME IndexInv
  PROVE  SumFunctionOnSet(Sizes, Clusters) = live_count
<1> DEFINE n == NClusters
           sum(m) == SumFunctionOnSet(Sizes, 1..m)
           reached == {m \in 0..n : /\ IsFiniteSet(HeldIn(1..m))
                                    /\ Cardinality(HeldIn(1..m)) = sum(m)}
<1>0. n \in Nat /\ 0 \in 0..n /\ n \in 0..n /\ Clusters = 1..n /\ TypeOK /\ IsFiniteSet(1..n)
  BY ClustersFacts DEF IndexInv
<1>1. Sizes \in [1..n -> Int] /\ Sizes \in [1..n -> Nat]
  BY <1>0, SizesType
<1>2. 0 \in reached
  <2>1. 1..0 = {}
    OBVIOUS
  <2>2. HeldIn(1..0) = {}
    BY <2>1 DEF HeldIn
  <2>3. SumFunctionOnSet(Sizes, {}) = 0
    BY <1>0, <1>1, SumEmpty
  <2>4. sum(0) = 0
    BY <2>1, <2>3, Zenon
  <2>5. IsFiniteSet({}) /\ Cardinality({}) = 0
    BY FS_EmptySet
  <2> HIDE DEF sum, n
  <2> QED  BY <1>0, <2>2, <2>4, <2>5
<1>3. ASSUME NEW m \in 1..n, m - 1 \in reached
      PROVE  m \in reached
  <2> DEFINE A == HeldIn(1..(m - 1))
             B == Range(inverted_lists[m])
  <2>1. m \in 0..n /\ m \in Clusters
    BY <1>0
  <2>2. IsFiniteSet(A) /\ Cardinality(A) = sum(m - 1)
    BY <1>3
  <2>3. /\ IsFiniteSet(B) /\ Cardinality(B) = Sizes[m]
        /\ \A d \in Clusters : d # m => B \cap Range(inverted_lists[d]) = {}
    BY <2>1, ListCounted
  <2>4. HeldIn(1..m) = A \cup B
    <3>1. \A c : c \in 1..m <=> c \in 1..(m - 1) \/ c = m
      BY <1>0
    <3> QED  BY <3>1, Zenon DEF HeldIn
  <2>5. A \cap B = {}
    <3>1. \A c \in 1..(m - 1) : c \in Clusters /\ c # m
      BY <1>0
    <3> SUFFICES ASSUME NEW e \in A, e \in B PROVE FALSE
      OBVIOUS
    <3>2. PICK c \in 1..(m - 1) : e \in Range(inverted_lists[c])
      BY DEF HeldIn
    <3>3. B \cap Range(inverted_lists[c]) = {}
      BY <2>3, <3>1
    <3> HIDE DEF A, B
    <3> QED  BY <3>2, <3>3
  <2>6. sum(m) = Sizes[m] + sum(m - 1)
    BY <1>0, <1>1, SumTerm
  <2>7. Sizes[m] \in Nat
    BY <1>1
  <2> HIDE DEF A, B, sum
  <2>8. /\ IsFiniteSet(A \cup B)
        /\ Cardinality(A \cup B) = Cardinality(A) + Cardinality(B) - Cardinality(A \cap B)
    BY <2>2, <2>3, FS_Union
  <2>9. Cardinality(A \cap B) = 0 /\ Cardinality(A) \in Nat
    BY <2>2, <2>5, FS_EmptySet, FS_CardinalityType
  <2>10. Cardinality(HeldIn(1..m)) = sum(m)
    <3>1. Cardinality(A \cup B) = sum(m)
      BY <2>2, <2>3, <2>6, <2>7, <2>8, <2>9
    <3> QED  BY <2>4, <3>1
  <2> QED  BY <2>1, <2>4, <2>8, <2>10
<1>4. Cardinality(HeldIn(1..n)) = sum(n)
  <2>1. n \in reached
    <3> HIDE DEF reached, n
    <3> QED  BY <1>0, <1>2, <1>3, UpTo
  <2> HIDE DEF sum
  <2> QED  BY <2>1
<1>5. HeldIn(1..n) = Entries
  BY <1>0, Zenon DEF HeldIn, Entries
<1>6. Cardinality(Entries) = live_count
  BY EntriesCounted
<1> QED  BY <1>0, <1>4, <1>5, <1>6, Zenon

\* The sizes in the statistics add up to len() whatever calls failed half-way
\* (stats.rs from_sizes, index.rs live_count).
THEOREM StatsAccount == Spec => []StatsAccountForEveryVector
<1>1. ASSUME IndexInv PROVE StatsAccountForEveryVector
  <2>1. CASE trained
    <3>1. ClusterStats.total = SumFunction(Sizes)
      BY <2>1 DEF ClusterStats
    <3>2. DOMAIN Sizes = Clusters
      BY DEF Sizes
    <3>3. SumFunction(Sizes) = SumFunctionOnSet(Sizes, Clusters)
      BY <3>2, Zenon DEF SumFunction
    <3> QED  BY <1>1, <3>1, <3>3, SizesAddUp, Zenon DEF StatsAccountForEveryVector
  <2>2. CASE ~trained
    <3>1. ClusterStats.total = 0
      BY <2>2 DEF ClusterStats
    <3>2. live_count = 0
      BY <1>1, <2>2, FS_EmptySet DEF IndexInv, DirectoryExact
    <3> QED  BY <3>1, <3>2 DEF StatsAccountForEveryVector
  <2> QED  BY <2>1, <2>2
<1> QED  BY <1>1, IndexInvariant, PTL

-----------------------------------------------------------------------------
(* The largest lists *)

\* The lists from the largest to the smallest.
Descends(order) ==
  /\ order \in Bijection(Clusters, Clusters)
  /\ \A i, j \in Clusters : i < j => Sizes[order[i]] >= Sizes[order[j]]

\* Sorting by size, the index breaking ties, is such an order: the ranking of
\* the lists as candidates at the distance -size.
LEMMA DescendingExists ==
  ASSUME TypeOK
  PROVE  \E order : Descends(order)
<1> DEFINE n == NClusters
           cand(c) == [dist |-> 0 - Sizes[c], seq |-> c]
           S == {cand(c) : c \in Clusters}
           f == [c \in Clusters |-> cand(c)]
           out == IntoSortedVec(S)
           order == [i \in Clusters |-> out[i].seq]
<1>1. n \in Nat /\ Clusters = 1..n /\ IsFiniteSet(Clusters) /\ Cardinality(Clusters) = n
  BY ClustersFacts
<1>2. \A c \in Clusters : Sizes[c] \in Nat
  BY SizesType
<1>3. IsFiniteSet(S) /\ Cardinality(S) = n
  <2>1. f \in [Clusters -> S] /\ \A s \in S : \E c \in Clusters : f[c] = s
    OBVIOUS
  <2>2. \A c, d \in Clusters : f[c] = f[d] => c = d
    OBVIOUS
  <2> HIDE DEF S, f, n
  <2> QED  BY <1>1, <2>1, <2>2, OneToOneSize
<1>4. \A s \in S : /\ Scored(s) /\ s.seq \in Clusters
                   /\ s.dist = 0 - Sizes[s.seq]
  <2> SUFFICES ASSUME NEW c \in Clusters
               PROVE  /\ Scored(cand(c)) /\ cand(c).seq \in Clusters
                      /\ cand(c).dist = 0 - Sizes[cand(c).seq]
    OBVIOUS
  <2>1. c \in Int /\ Sizes[c] \in Int
    BY <1>1, <1>2
  <2> QED  BY <2>1 DEF Scored
<1>5. \A s, t \in S : s.seq = t.seq => s = t
  OBVIOUS
<1>6. Rankable(S)
  <2> HIDE DEF S
  <2> QED  BY <1>3, <1>4, <1>5 DEF Rankable
<1>7. RanksLeast(out, S, n)
  <2>1. KeepsTheBest(S, S)
    BY DEF KeepsTheBest
  <2>2. RanksLeast(out, S, Cardinality(S))
    <3> HIDE DEF S
    <3> QED  BY <1>6, <2>1, BestAreRanked
  <2> HIDE DEF S, out, n
  <2> QED  BY <1>3, <2>2
<1> HIDE DEF S, out, f
<1>8. \A i \in 1..n : out[i] \in S
  BY <1>7 DEF RanksLeast
<1>9. \A i, j \in 1..n : i < j => Precedes(out[i], out[j]) /\ out[i] # out[j]
  BY <1>1, <1>6, <1>7, RanksAscend
<1>10. order \in [Clusters -> Clusters]
  BY <1>1, <1>4, <1>8
<1>11. \A i, j \in Clusters : i < j => /\ order[i] # order[j]
                                       /\ Sizes[order[i]] >= Sizes[order[j]]
  <2> SUFFICES ASSUME NEW i \in Clusters, NEW j \in Clusters, i < j
               PROVE  order[i] # order[j] /\ Sizes[order[i]] >= Sizes[order[j]]
    OBVIOUS
  <2>1. /\ out[i] \in S /\ out[j] \in S /\ out[i] # out[j] /\ Precedes(out[i], out[j])
        /\ order[i] = out[i].seq /\ order[j] = out[j].seq
    BY <1>1, <1>8, <1>9
  <2>2. out[i].dist <= out[j].dist
    <3>1. out[i].dist \in Int /\ out[j].dist \in Int
      BY <1>4, <2>1 DEF Scored
    <3> QED  BY <2>1, <3>1 DEF Precedes
  <2>3. /\ out[i].dist = 0 - Sizes[order[i]] /\ out[j].dist = 0 - Sizes[order[j]]
        /\ order[i] \in Clusters /\ order[j] \in Clusters
    BY <1>4, <2>1
  <2>4. Sizes[order[i]] \in Nat /\ Sizes[order[j]] \in Nat
    BY <1>2, <2>3
  <2>5. Sizes[order[i]] >= Sizes[order[j]]
    <3> HIDE DEF order
    <3> QED  BY <2>2, <2>3, <2>4
  <2>6. order[i] # order[j]
    <3> HIDE DEF order
    <3> QED  BY <1>5, <2>1
  <2> QED  BY <2>5, <2>6
<1> HIDE DEF order
<1>12. \A i, j \in Clusters : order[i] = order[j] => i = j
  BY <1>1, <1>11
<1>13. order \in Injection(Clusters, Clusters)
  BY <1>10, <1>12 DEF Injection, IsInjective
<1>14. order \in Surjection(Clusters, Clusters)
  BY <1>1, <1>13, FS_Injection
<1>15. Descends(order)
  BY <1>11, <1>13, <1>14 DEF Descends, Bijection
<1> QED  BY <1>15

\* The size at a position of such an order is the one SortedSizes has there.
LEMMA SizeAtPosition ==
  ASSUME TypeOK, NEW order, Descends(order), NEW i \in Clusters
  PROVE  SortedSizes[i] = Sizes[order[i]]
<1> DEFINE reach(n) == {c \in Clusters : Sizes[c] >= n}
           exceed(n) == {c \in Clusters : Sizes[c] > n}
           at(n) == Cardinality(reach(n)) >= i /\ Cardinality(exceed(n)) < i
           size == Sizes[order[i]]
           head(m) == {order[j] : j \in 1..m}
<1>0. /\ NClusters \in Nat /\ Clusters = 1..NClusters /\ IsFiniteSet(Clusters)
  BY ClustersFacts
<1>1. /\ order \in [Clusters -> Clusters]
      /\ \A j, k \in Clusters : order[j] = order[k] => j = k
      /\ \A c \in Clusters : \E j \in Clusters : order[j] = c
      /\ \A j, k \in Clusters : j < k => Sizes[order[j]] >= Sizes[order[k]]
  BY DEF Descends, Bijection, Injection, IsInjective, Surjection
<1>2. /\ Sizes \in [Clusters -> Nat] /\ \A c \in Clusters : Sizes[c] \in Nat
  BY SizesType
<1>3. size \in Nat /\ size \in Range(Sizes)
  <2>1. order[i] \in Clusters /\ DOMAIN Sizes = Clusters
    BY <1>1, <1>2
  <2> QED  BY <1>2, <2>1, Zenon DEF Range
<1>4. ASSUME NEW m \in 0..NClusters
      PROVE  IsFiniteSet(head(m)) /\ Cardinality(head(m)) = m
  <2> DEFINE f == [j \in 1..m |-> order[j]]
  <2>1. \A j \in 1..m : j \in Clusters
    BY <1>0
  <2>2. /\ f \in [1..m -> head(m)] /\ \A j, k \in 1..m : f[j] = f[k] => j = k
        /\ \A c \in head(m) : \E j \in 1..m : f[j] = c
    BY <1>1, <2>1
  <2>3. IsFiniteSet(1..m) /\ Cardinality(1..m) = m
    BY <1>0, FS_Interval
  <2> HIDE DEF f, head
  <2> QED  BY <2>2, <2>3, OneToOneSize
<1>5. i \in 0..NClusters /\ i - 1 \in 0..NClusters /\ i \in Nat
  BY <1>0
<1>6. \A n : /\ IsFiniteSet(reach(n)) /\ Cardinality(reach(n)) \in Nat
             /\ IsFiniteSet(exceed(n)) /\ Cardinality(exceed(n)) \in Nat
  <2> TAKE n
  <2>1. reach(n) \in SUBSET Clusters /\ exceed(n) \in SUBSET Clusters
    OBVIOUS
  <2> HIDE DEF reach, exceed
  <2>2. IsFiniteSet(reach(n)) /\ IsFiniteSet(exceed(n))
    BY <1>0, <2>1, FS_Subset
  <2> QED  BY <2>2, FS_CardinalityType
<1>7. at(size)
  <2>1. head(i) \in SUBSET reach(size)
    <3> SUFFICES ASSUME NEW j \in 1..i PROVE order[j] \in Clusters /\ Sizes[order[j]] >= size
      OBVIOUS
    <3>1. j \in Clusters /\ (j < i \/ j = i)
      BY <1>0
    <3>2. size >= size
      BY <1>3
    <3> QED  BY <1>1, <3>1, <3>2
  <2>2. exceed(size) \in SUBSET head(i - 1)
    <3> SUFFICES ASSUME NEW c \in Clusters, Sizes[c] > size PROVE c \in head(i - 1)
      OBVIOUS
    <3>1. PICK j \in Clusters : order[j] = c
      BY <1>1
    <3>2. ~(i < j) /\ i # j
      <4>1. Sizes[c] \in Nat
        BY <1>2
      <4>2. ~(size >= Sizes[c]) /\ size # Sizes[c]
        BY <1>3, <4>1
      <4> QED  BY <1>1, <3>1, <4>2
    <3>3. j \in 1..(i - 1)
      BY <1>0, <3>2
    <3> QED  BY <3>1, <3>3
  <2> HIDE DEF head, reach, exceed, size
  <2>3. i <= Cardinality(reach(size))
    BY <1>4, <1>5, <1>6, <2>1, FS_Subset
  <2>4. Cardinality(exceed(size)) <= i - 1
    BY <1>4, <1>5, <2>2, FS_Subset
  <2> QED  BY <1>5, <1>6, <2>3, <2>4
<1>8. ASSUME NEW n \in Nat, NEW l \in Nat, at(n), at(l), n < l
      PROVE  FALSE
  <2>1. reach(l) \in SUBSET exceed(n)
    BY <1>2, <1>8
  <2> HIDE DEF reach, exceed
  <2>2. Cardinality(reach(l)) <= Cardinality(exceed(n))
    BY <1>6, <2>1, FS_Subset
  <2> QED  BY <1>5, <1>6, <1>8, <2>2
<1>9. SortedSizes[i] = CHOOSE n \in Range(Sizes) : at(n)
  BY Zenon DEF SortedSizes
<1> HIDE DEF at, size
<1>10. SortedSizes[i] \in Range(Sizes) /\ at(SortedSizes[i])
  BY <1>3, <1>7, <1>9, Zenon
<1>11. SortedSizes[i] \in Nat
  BY <1>2, <1>10 DEF Range
<1> QED  BY <1>3, <1>7, <1>8, <1>10, <1>11 DEF size

LEMMA SortedSizesFacts ==
  ASSUME TypeOK
  PROVE  \E order : Descends(order) /\ SortedSizes = [i \in Clusters |-> Sizes[order[i]]]
<1>1. PICK order : Descends(order)
  BY DescendingExists
<1>2. \A i \in Clusters : SortedSizes[i] = Sizes[order[i]]
  BY <1>1, SizeAtPosition
<1>3. SortedSizes = [i \in Clusters |-> SortedSizes[i]]
  <2> DEFINE at(i) == CHOOSE n \in Range(Sizes) :
                        /\ Cardinality({c \in Clusters : Sizes[c] >= n}) >= i
                        /\ Cardinality({c \in Clusters : Sizes[c] > n}) < i
  <2>1. SortedSizes = [i \in Clusters |-> at(i)]
    BY Zenon DEF SortedSizes
  <2> HIDE DEF at
  <2> QED  BY <2>1
<1> QED  BY <1>1, <1>2, <1>3

\* The cumulative sums of the walk.
LEMMA CumSumIsSum ==
  ASSUME TypeOK, NEW n \in 0..NClusters
  PROVE  CumSum(n) = SumFunctionOnSet(SortedSizes, 1..n)
<1> DEFINE w == SortedSizes
           turn(g, i) == IF i = 0 THEN 0 ELSE g[i - 1] + w[i]
           p == CHOOSE g : g = [i \in 0..n |-> turn(g, i)]
           sum(i) == SumFunctionOnSet(w, 1..i)
           h == [i \in 0..n |-> sum(i)]
           reached == {m \in 0..n : p[m] = sum(m)}
<1>0. NClusters \in Nat /\ Clusters = 1..NClusters /\ IsFiniteSet(1..NClusters)
  BY ClustersFacts
<1>1. w \in [1..NClusters -> Int] /\ n \in Nat
  <2>1. PICK order : Descends(order) /\ SortedSizes = [i \in Clusters |-> Sizes[order[i]]]
    BY SortedSizesFacts
  <2>2. \A i \in Clusters : order[i] \in Clusters
    BY <2>1 DEF Descends, Bijection, Injection
  <2> QED  BY <1>0, <2>1, <2>2, SizesType
<1>2. CumSum(n) = p[n]
  BY Zenon DEF CumSum
<1> HIDE DEF w
<1>3. sum(0) = 0
  <2>1. 1..0 = {}
    OBVIOUS
  <2>2. SumFunctionOnSet(w, {}) = 0
    BY <1>0, <1>1, SumEmpty
  <2> QED  BY <2>1, <2>2, Zenon
<1>4. ASSUME NEW i \in 1..n
      PROVE  sum(i) = sum(i - 1) + w[i]
  <2>1. i \in 1..NClusters
    BY <1>0, <1>1
  <2>2. sum(i) = w[i] + sum(i - 1)
    BY <1>0, <1>1, <2>1, SumTerm
  <2>3. sum(i - 1) \in Int
    <3>1. 1..(i - 1) \in SUBSET (1..NClusters)
      BY <1>0, <1>1
    <3> QED  BY <1>0, <1>1, <3>1, SumType
  <2>4. w[i] \in Int
    BY <1>1, <2>1
  <2> HIDE DEF sum
  <2> QED  BY <2>2, <2>3, <2>4
<1> HIDE DEF sum
<1>5. \A i \in 0..n : h[i] = turn(h, i)
  <2> SUFFICES ASSUME NEW i \in 0..n PROVE h[i] = turn(h, i)
    OBVIOUS
  <2>1. CASE i = 0
    BY <1>3, <2>1
  <2>2. CASE i # 0
    <3>1. i \in 1..n /\ i - 1 \in 0..n
      BY <1>1, <2>2
    <3> QED  BY <1>4, <2>2, <3>1
  <2> QED  BY <2>1, <2>2
<1>6. h = [i \in 0..n |-> turn(h, i)]
  <2>1. h = [i \in 0..n |-> h[i]]
    OBVIOUS
  <2> HIDE DEF h, turn
  <2> QED  BY <1>5, <2>1
<1>7. \A i \in 0..n : p[i] = turn(p, i)
  <2> HIDE DEF turn, h
  <2>1. p = [i \in 0..n |-> turn(p, i)]
    BY <1>6, Zenon
  <2> HIDE DEF p
  <2> QED  BY <2>1
<1> HIDE DEF p
<1>8. 0 \in reached
  <2>1. 0 \in 0..n
    BY <1>1
  <2> QED  BY <1>3, <1>7, <2>1
<1>9. ASSUME NEW m \in 1..n, m - 1 \in reached
      PROVE  m \in reached
  <2>1. m \in 0..n /\ m # 0
    BY <1>1
  <2> QED  BY <1>4, <1>7, <1>9, <2>1
<1>10. n \in reached
  <2>1. n \in 0..n
    BY <1>1
  <2> HIDE DEF reached
  <2> QED  BY <1>1, <1>8, <1>9, <2>1, UpTo
<1> QED  BY <1>2, <1>10 DEF w, sum

LEMMA CumSumFacts ==
  ASSUME TypeOK
  PROVE  \E order :
           /\ Descends(order)
           /\ CumSum(0) = 0
           /\ \A n \in 0..NClusters : CumSum(n) \in Nat
           /\ \A n \in 1..NClusters : CumSum(n) = Sizes[order[n]] + CumSum(n - 1)
<1> DEFINE N == NClusters
           w == SortedSizes
           sum(i) == SumFunctionOnSet(w, 1..i)
<1>0. N \in Nat /\ Clusters = 1..N /\ IsFiniteSet(1..N)
  BY ClustersFacts
<1>1. PICK order : Descends(order) /\ w = [i \in Clusters |-> Sizes[order[i]]]
  BY SortedSizesFacts
<1>2. \A i \in Clusters : order[i] \in Clusters
  BY <1>1 DEF Descends, Bijection, Injection
<1>3. /\ w \in [1..N -> Int] /\ w \in [1..N -> Nat]
      /\ \A i \in 1..N : w[i] = Sizes[order[i]]
  BY <1>0, <1>1, <1>2, SizesType
<1>4. \A n \in 0..N : CumSum(n) = sum(n)
  BY CumSumIsSum
<1> HIDE DEF w
<1>5. sum(0) = 0
  <2>1. 1..0 = {}
    OBVIOUS
  <2>2. SumFunctionOnSet(w, {}) = 0
    BY <1>0, <1>3, SumEmpty
  <2> QED  BY <2>1, <2>2, Zenon
<1>6. ASSUME NEW n \in 0..N
      PROVE  sum(n) \in Nat
  <2>1. 1..n \in SUBSET (1..N) /\ {} \in SUBSET (1..n)
    BY <1>0
  <2> QED  BY <1>0, <1>3, <2>1, SumGrows
<1>7. ASSUME NEW n \in 1..N
      PROVE  sum(n) = w[n] + sum(n - 1)
  BY <1>0, <1>3, SumTerm
<1> HIDE DEF sum
<1>8. CumSum(0) = 0
  <2>1. 0 \in 0..N
    BY <1>0
  <2> QED  BY <1>4, <1>5, <2>1
<1>9. ASSUME NEW n \in 1..N
      PROVE  CumSum(n) = Sizes[order[n]] + CumSum(n - 1)
  <2>1. n \in 0..N /\ n - 1 \in 0..N
    BY <1>0
  <2> QED  BY <1>3, <1>4, <1>7, <2>1
<1>10. \A n \in 0..N : CumSum(n) \in Nat
  BY <1>4, <1>6
<1> QED  BY <1>1, <1>8, <1>9, <1>10

\* So many lists hold no more than the largest ones, and the largest ones hold
\* that much.
LEMMA LargestHoldMost ==
  ASSUME TypeOK
  PROVE  /\ \A m \in 0..NClusters, L \in SUBSET Clusters :
              Cardinality(L) <= m => SumFunctionOnSet(Sizes, L) <= CumSum(m)
         /\ \A m \in 0..NClusters : \E L \in SUBSET Clusters :
              Cardinality(L) = m /\ SumFunctionOnSet(Sizes, L) = CumSum(m)
<1> DEFINE N == NClusters
           held(L) == SumFunctionOnSet(Sizes, L)
           few == {m \in 0..N : \A L \in SUBSET Clusters :
                                  Cardinality(L) <= m => held(L) <= CumSum(m)}
<1>0. N \in Nat /\ Clusters = 1..N /\ IsFiniteSet(Clusters) /\ 0 \in 0..N
  BY ClustersFacts
<1>1. PICK order :
        /\ Descends(order)
        /\ CumSum(0) = 0
        /\ \A n \in 0..NClusters : CumSum(n) \in Nat
        /\ \A n \in 1..NClusters : CumSum(n) = Sizes[order[n]] + CumSum(n - 1)
  BY CumSumFacts
<1>2. /\ order \in [Clusters -> Clusters]
      /\ \A i, j \in Clusters : order[i] = order[j] => i = j
      /\ \A c \in Clusters : \E i \in Clusters : order[i] = c
      /\ \A i, j \in Clusters : i < j => Sizes[order[i]] >= Sizes[order[j]]
  BY <1>1 DEF Descends, Bijection, Injection, IsInjective, Surjection
<1>3. /\ Sizes \in [Clusters -> Int] /\ Sizes \in [Clusters -> Nat]
      /\ \A c \in Clusters : Sizes[c] \in Nat
  BY SizesType
<1> DEFINE head(m) == {order[j] : j \in 1..m}
<1>4. held({}) = 0 /\ Cardinality({}) = 0
  BY <1>0, <1>3, SumEmpty, FS_EmptySet
<1>5. ASSUME NEW m \in 1..N
      PROVE  /\ m \in Clusters /\ m \in 0..N /\ m - 1 \in 0..N
             /\ \A j \in 1..(m - 1) : j \in Clusters /\ j # m
             /\ \A j : j \in 1..m <=> j \in 1..(m - 1) \/ j = m
  BY <1>0
<1>6. ASSUME NEW m \in 1..N
      PROVE  /\ head(m) = head(m - 1) \cup {order[m]} /\ order[m] \notin head(m - 1)
             /\ head(m) \in SUBSET Clusters /\ head(m - 1) \in SUBSET Clusters
             /\ IsFiniteSet(head(m - 1)) /\ order[m] \in Clusters
  <2>1. order[m] \in Clusters /\ \A j \in 1..(m - 1) : order[j] \in Clusters /\ order[j] # order[m]
    BY <1>2, <1>5
  <2>2. head(m) = head(m - 1) \cup {order[m]}
    BY <1>5
  <2>3. order[m] \notin head(m - 1) /\ head(m - 1) \in SUBSET Clusters
    BY <2>1
  <2>4. IsFiniteSet(head(m - 1))
    <3> HIDE DEF head
    <3> QED  BY <1>0, <2>3, FS_Subset
  <2>5. head(m) \in SUBSET Clusters
    <3> HIDE DEF head
    <3> QED  BY <2>1, <2>2, <2>3
  <2> QED  BY <2>1, <2>2, <2>3, <2>4, <2>5
<1>7. head(0) = {}
  BY <1>0
<1> DEFINE full == {m \in 0..N : Cardinality(head(m)) = m /\ held(head(m)) = CumSum(m)}
<1> HIDE DEF head
<1>8. \A m \in 0..N : m \in full
  <2>1. 0 \in full
    BY <1>0, <1>1, <1>4, <1>7
  <2>2. ASSUME NEW m \in 1..N, m - 1 \in full
        PROVE  m \in full
    <3> DEFINE H == head(m - 1)
               x == order[m]
    <3>1. Cardinality(H) = m - 1 /\ held(H) = CumSum(m - 1)
      BY <2>2
    <3>2. /\ head(m) = H \cup {x} /\ x \notin H /\ head(m) \in SUBSET Clusters
          /\ IsFiniteSet(H) /\ x \in Clusters
      BY <1>6
    <3> HIDE DEF H, x
    <3>3. Cardinality(head(m)) = Cardinality(H) + 1
      BY <3>2, FS_AddElement
    <3>4. Cardinality(head(m)) = m
      BY <1>0, <3>1, <3>3
    <3>5. head(m) \ {x} = H /\ x \in head(m)
      BY <3>2
    <3>6. Splits(Sizes, head(m), x)
      BY <1>0, <1>3, <3>2, <3>5, SumSplits
    <3>7. held(head(m)) = Sizes[x] + held(H)
      BY <3>5, <3>6, Zenon DEF Splits
    <3>8. CumSum(m) = Sizes[x] + CumSum(m - 1)
      BY <1>1 DEF x
    <3> HIDE DEF held
    <3>9. held(head(m)) = CumSum(m)
      BY <3>1, <3>7, <3>8, Zenon
    <3> QED  BY <1>5, <3>4, <3>9
  <2> HIDE DEF full, N
  <2> QED  BY <1>0, <2>1, <2>2, UpTo
<1>9. ASSUME NEW m \in 0..N
      PROVE  \E L \in SUBSET Clusters :
               Cardinality(L) = m /\ SumFunctionOnSet(Sizes, L) = CumSum(m)
  <2>1. Cardinality(head(m)) = m /\ held(head(m)) = CumSum(m)
    BY <1>8
  <2>2. head(m) \in SUBSET Clusters
    <3>1. CASE m = 0
      BY <1>7, <3>1
    <3>2. CASE m # 0
      <4>1. m \in 1..N
        BY <1>0, <3>2
      <4> QED  BY <1>6, <4>1
    <3> QED  BY <3>1, <3>2
  <2> QED  BY <2>1, <2>2
<1>10. \A m \in 0..N : m \in few
  <2>1. 0 \in few
    <3> SUFFICES ASSUME NEW L \in SUBSET Clusters, Cardinality(L) <= 0
                 PROVE  held(L) <= CumSum(0)
      BY <1>0
    <3>1. L = {}
      BY <1>0, NoElements
    <3>2. held(L) = 0
      BY <1>4, <3>1, Zenon
    <3> HIDE DEF held
    <3> QED  BY <1>1, <3>2
  <2>2. ASSUME NEW m \in 1..N, m - 1 \in few
        PROVE  m \in few
    <3> SUFFICES ASSUME NEW L \in SUBSET Clusters, Cardinality(L) <= m
                 PROVE  held(L) <= CumSum(m)
      BY <1>5
    <3>0. /\ IsFiniteSet(L) /\ Cardinality(L) \in Nat
      BY <1>0, FS_Subset, FS_CardinalityType
    <3>1. /\ CumSum(m) = Sizes[order[m]] + CumSum(m - 1) /\ Sizes[order[m]] \in Nat
          /\ CumSum(m) \in Nat /\ CumSum(m - 1) \in Nat
      BY <1>1, <1>3, <1>5, <1>6
    <3>2. \A K \in SUBSET Clusters : Cardinality(K) <= m - 1 => held(K) <= CumSum(m - 1)
      BY <2>2
    <3>3. held(L) \in Int
      BY <1>0, <1>3, SumType
    <3>4. CASE Cardinality(L) <= m - 1
      <4>1. held(L) <= CumSum(m - 1)
        BY <3>2, <3>4
      <4> HIDE DEF held
      <4> QED  BY <3>1, <3>3, <4>1
    <3>5. CASE ~(Cardinality(L) <= m - 1)
      <4>1. PICK x \in L : x \notin head(m - 1)
        <5> SUFFICES ASSUME L \in SUBSET head(m - 1) PROVE FALSE
          OBVIOUS
        <5>1. IsFiniteSet(head(m - 1)) /\ Cardinality(head(m - 1)) = m - 1
          BY <1>5, <1>6, <1>8
        <5>2. Cardinality(L) <= m - 1
          BY <5>1, FS_Subset
        <5> QED  BY <3>5, <5>2
      <4>2. Sizes[x] <= Sizes[order[m]]
        <5>1. PICK k \in Clusters : order[k] = x
          BY <1>2
        <5>2. k \notin 1..(m - 1)
          BY <4>1, <5>1 DEF head
        <5>3. k = m \/ m < k
          BY <1>0, <5>2
        <5>4. Sizes[x] \in Nat
          BY <1>3, <5>1
        <5> QED  BY <1>2, <1>5, <3>1, <5>1, <5>3, <5>4
      <4>3. L \ {x} \in SUBSET Clusters /\ Cardinality(L \ {x}) <= m - 1
        <5>1. Cardinality(L \ {x}) = Cardinality(L) - 1
          BY <3>0, FS_RemoveElement
        <5> QED  BY <1>5, <3>0, <5>1
      <4>4. held(L \ {x}) <= CumSum(m - 1)
        BY <3>2, <4>3
      <4>5. held(L) = Sizes[x] + held(L \ {x}) /\ held(L \ {x}) \in Int
        <5>1. held(L \ {x}) \in Int
          BY <1>0, <1>3, <4>3, SumType
        <5>2. Splits(Sizes, L, x)
          BY <1>0, <1>3, SumSplits, Zenon
        <5> QED  BY <5>1, <5>2, Zenon DEF Splits
      <4>6. Sizes[x] \in Nat
        BY <1>3
      <4> HIDE DEF held
      <4> QED  BY <3>1, <4>2, <4>4, <4>5, <4>6
    <3> QED  BY <3>4, <3>5
  <2> HIDE DEF few, N
  <2> QED  BY <1>0, <2>1, <2>2, UpTo
<1> HIDE DEF N
<1>11. \A m \in 0..N, L \in SUBSET Clusters :
         Cardinality(L) <= m => SumFunctionOnSet(Sizes, L) <= CumSum(m)
  BY <1>10
<1> QED  BY <1>9, <1>11 DEF N

\* Taken all together the lists hold every vector.
LEMMA CumSumOfAll ==
  ASSUME IndexInv
  PROVE  CumSum(NClusters) = live_count
<1>0. TypeOK
  BY DEF IndexInv
<1>1. /\ NClusters \in 0..NClusters
      /\ IsFiniteSet(Clusters) /\ Cardinality(Clusters) = NClusters
  BY ClustersFacts
<1>2. PICK L \in SUBSET Clusters :
        Cardinality(L) = NClusters /\ SumFunctionOnSet(Sizes, L) = CumSum(NClusters)
  BY <1>0, <1>1, LargestHoldMost
<1>3. L = Clusters
  BY <1>1, <1>2, FS_Subset
<1> QED  BY <1>2, <1>3, SizesAddUp, Zenon

-----------------------------------------------------------------------------
(* The suggestion *)

\* The ceiling of a / b is the least of the numbers that reach a times b.
LEMMA CeilIsLeast ==
  ASSUME NEW a \in Nat, NEW b \in Nat \ {0}, NEW t, t = (a + b - 1) \div b
  PROVE  t \in Nat /\ \A s \in Nat : s * b >= a <=> s >= t
<1> DEFINE r == (a + b - 1) % b
<1>1. t \in Nat /\ r \in 0..(b - 1) /\ a + b - 1 = b * t + r
  OBVIOUS
<1> HIDE DEF r
<1>2. ASSUME NEW s \in Nat, s >= t
      PROVE  s * b >= a
  <2>1. PICK d \in Nat : s = t + d
    <3>1. s - t \in Nat /\ s = t + (s - t)
      BY <1>1, <1>2
    <3> QED  BY <3>1
  <2>2. s * b = b * t + d * b /\ d * b \in Nat
    BY <1>1, <2>1
  <2> QED  BY <1>1, <2>2
<1>3. ASSUME NEW s \in Nat, ~(s >= t)
      PROVE  ~(s * b >= a)
  <2>1. PICK d \in Nat : t = s + 1 + d
    <3>1. t - s - 1 \in Nat /\ t = s + 1 + (t - s - 1)
      BY <1>1, <1>3
    <3> QED  BY <3>1
  <2>2. b * t = s * b + b + b * d /\ b * d \in Nat /\ s * b \in Nat
    BY <2>1
  <2> QED  BY <1>1, <2>2
<1> QED  BY <1>1, <1>2, <1>3

\* A factor may be taken from both sides.
LEMMA ProductsOrdered ==
  /\ \A a, b, c \in Nat : a <= b => a * c <= b * c
  /\ \A a, b \in Nat, c \in Nat \ {0} : a * c <= b * c => a <= b
<1>1. ASSUME NEW a \in Nat, NEW b \in Nat, NEW c \in Nat, a <= b
      PROVE  a * c <= b * c
  <2>1. PICK d \in Nat : b = a + d
    <3>1. b - a \in Nat /\ b = a + (b - a)
      BY <1>1
    <3> QED  BY <3>1
  <2>2. b * c = a * c + d * c /\ d * c \in Nat /\ a * c \in Nat
    BY <2>1
  <2> QED  BY <2>2
<1>2. ASSUME NEW a \in Nat, NEW b \in Nat, NEW c \in Nat \ {0}, ~(a <= b)
      PROVE  ~(a * c <= b * c)
  <2>1. PICK d \in Nat : a = b + 1 + d
    <3>1. a - b - 1 \in Nat /\ a = b + 1 + (a - b - 1)
      BY <1>2
    <3> QED  BY <3>1
  <2>2. a * c = b * c + c + d * c /\ d * c \in Nat /\ b * c \in Nat
    BY <2>1
  <2> QED  BY <2>2
<1> QED  BY <1>1, <1>2

\* The coverages that go to the walk over the sizes.
Proper(c) == c[1] \in Nat \ {0} /\ c[2] \in Nat \ {0} /\ c[1] < c[2]

LEMMA TargetFacts ==
  ASSUME TypeOK, NEW c, Proper(c)
  PROVE  /\ Target(c) \in Nat /\ Target(c) <= live_count
         /\ live_count * c[1] \in Nat
         /\ \A s \in Nat : s * c[2] >= live_count * c[1] <=> s >= Target(c)
<1> DEFINE a == live_count * c[1]
<1>1. live_count \in Nat /\ c[1] \in Nat /\ c[2] \in Nat \ {0} /\ c[1] < c[2]
  BY DEF TypeOK, Proper
<1>2. a \in Nat
  BY <1>1
<1>3. Target(c) = (a + c[2] - 1) \div c[2]
  BY DEF Target
<1>4. a <= live_count * c[2]
  <2>1. c[1] * live_count <= c[2] * live_count
    BY <1>1, ProductsOrdered
  <2> QED  BY <1>1, <2>1
<1> HIDE DEF a
<1>5. Target(c) \in Nat /\ \A s \in Nat : s * c[2] >= a <=> s >= Target(c)
  BY <1>1, <1>2, <1>3, CeilIsLeast
<1>6. Target(c) <= live_count
  <2>1. live_count * c[2] \in Nat
    BY <1>1
  <2>2. live_count * c[2] >= a
    BY <1>2, <1>4, <2>1
  <2>3. live_count >= Target(c)
    BY <1>1, <1>5, <2>2
  <2> QED  BY <1>1, <1>5, <2>3
<1> QED  BY <1>2, <1>5, <1>6 DEF a

LEMMA FirstPrefixFacts ==
  ASSUME IndexInv, NEW c, Proper(c)
  PROVE  /\ FirstPrefix(c) \in 1..NClusters
         /\ CumSum(FirstPrefix(c)) >= Target(c)
         /\ \A m \in 1..NClusters : CumSum(m) >= Target(c) => FirstPrefix(c) <= m
<1> DEFINE enough == {n \in Clusters : CumSum(n) >= Target(c)}
           least(n) == \A m \in enough : n <= m
<1>0. TypeOK
  BY DEF IndexInv
<1>1. NClusters \in Nat \ {0} /\ Clusters = 1..NClusters
  BY ClustersFacts
<1>2. Target(c) \in Nat /\ Target(c) <= live_count /\ live_count \in Nat
  BY <1>0, TargetFacts DEF TypeOK
<1>3. NClusters \in enough
  <2>1. CumSum(NClusters) = live_count
    BY CumSumOfAll
  <2> QED  BY <1>1, <1>2, <2>1
<1>4. enough \in SUBSET Nat /\ enough # {}
  BY <1>1, <1>3
<1>5. FirstPrefix(c) = CHOOSE n \in enough : least(n)
  BY <1>3, Zenon DEF FirstPrefix
<1>6. PICK n \in enough : least(n)
  <2> HIDE DEF enough
  <2> QED  BY <1>4, LeastNatural
<1>7. FirstPrefix(c) \in enough /\ least(FirstPrefix(c))
  <2> HIDE DEF enough, least
  <2> QED  BY <1>5, <1>6, Zenon
<1>8. FirstPrefix(c) \in Clusters /\ CumSum(FirstPrefix(c)) >= Target(c)
  BY <1>7, Zenon
<1>9. \A m \in Clusters : CumSum(m) >= Target(c) => FirstPrefix(c) <= m
  BY <1>7, Zenon
<1> QED  BY <1>1, <1>8, <1>9

\* The coverages that are accepted, and what is suggested for each.
LEMMA SuggestedFacts ==
  ASSUME NEW c \in Legal
  PROVE  /\ c \in Coverages /\ c[1] \in Nat /\ c[2] \in Nat \ {0} /\ c[1] <= c[2]
         /\ \/ /\ ~trained \/ live_count = 0 \/ NClusters = 1 \/ c[1] = 0
               /\ Suggested(c) = 1
            \/ /\ trained /\ live_count # 0 /\ c[1] = c[2] /\ c[1] # 0
               /\ Suggested(c) = NClusters
            \/ /\ trained /\ live_count # 0 /\ Proper(c)
               /\ Suggested(c) = FirstPrefix(c)
<1> DEFINE refused == c[1] < 0 \/ c[1] > c[2]
           answer == IF ~trained \/ live_count = 0 \/ NClusters = 1 \/ c[1] = 0 THEN 1
                     ELSE IF c[1] = c[2] THEN NClusters
                     ELSE FirstPrefix(c)
<1>1. c \in Coverages /\ SuggestNProbes(c).outcome = "Ok"
  BY DEF Legal
<1>2. c[1] \in Int /\ c[2] \in Nat \ {0}
  BY <1>1, CoverageAssumption
<1>3. ~refused
  <2> SUFFICES ASSUME refused PROVE FALSE
    OBVIOUS
  <2>1. SuggestNProbes(c) = [outcome |-> "InvalidConfig", n |-> 0]
    BY Zenon DEF SuggestNProbes
  <2>2. SuggestNProbes(c).outcome = "InvalidConfig"
    BY <2>1
  <2> QED  BY <1>1, <2>2
<1>4. Suggested(c) = answer
  <2>1. SuggestNProbes(c) = [outcome |-> "Ok", n |-> answer]
    BY <1>3, Zenon DEF SuggestNProbes
  <2> HIDE DEF answer
  <2>2. SuggestNProbes(c).n = answer
    BY <2>1
  <2> QED  BY <2>2 DEF Suggested
<1>5. c[1] \in Nat /\ c[1] <= c[2]
  BY <1>2, <1>3
<1>6. c[1] # c[2] /\ c[1] # 0 => Proper(c)
  BY <1>2, <1>5 DEF Proper
<1>7. \/ /\ ~trained \/ live_count = 0 \/ NClusters = 1 \/ c[1] = 0
         /\ Suggested(c) = 1
      \/ /\ trained /\ live_count # 0 /\ c[1] = c[2] /\ c[1] # 0
         /\ Suggested(c) = NClusters
      \/ /\ trained /\ live_count # 0 /\ c[1] # c[2] /\ c[1] # 0
         /\ Suggested(c) = FirstPrefix(c)
  BY <1>4, Zenon
<1> QED  BY <1>1, <1>2, <1>5, <1>6, <1>7, Zenon

LEMMA SuggestedIsProbeCount ==
  ASSUME IndexInv, NEW c \in Legal
  PROVE  Suggested(c) \in 1..NClusters
<1>1. NClusters \in Nat \ {0}
  BY ClustersFacts
<1>2. 1 \in 1..NClusters /\ NClusters \in 1..NClusters
  BY <1>1
<1>3. \/ Suggested(c) = 1 \/ Suggested(c) = NClusters
      \/ Proper(c) /\ Suggested(c) = FirstPrefix(c)
  BY SuggestedFacts, Zenon
<1> QED  BY <1>2, <1>3, FirstPrefixFacts, Zenon

\* A greater share of the vectors is not a smaller number of them.
LEMMA TargetGrows ==
  ASSUME TypeOK, NEW c, Proper(c), NEW d, Proper(d), c[1] * d[2] <= d[1] * c[2]
  PROVE  Target(c) <= Target(d)
<1> DEFINE t == Target(d)
           live == live_count
<1>1. /\ c[1] \in Nat /\ d[1] \in Nat /\ c[2] \in Nat \ {0} /\ d[2] \in Nat \ {0} /\ live \in Nat
  BY DEF Proper, TypeOK
<1>2. /\ t \in Nat /\ Target(c) \in Nat /\ live * c[1] \in Nat /\ live * d[1] \in Nat
      /\ \A s \in Nat : s * d[2] >= live * d[1] <=> s >= t
      /\ \A s \in Nat : s * c[2] >= live * c[1] <=> s >= Target(c)
  BY TargetFacts
<1> HIDE DEF t, live
<1>3. t * d[2] >= live * d[1]
  BY <1>2
<1> DEFINE x == t * d[2]
           y == live * d[1]
<1>4. x \in Nat /\ y \in Nat /\ y <= x
  BY <1>1, <1>2, <1>3
<1>5. y * c[2] <= x * c[2]
  BY <1>1, <1>4, ProductsOrdered
<1>6. (c[1] * d[2]) * live <= (d[1] * c[2]) * live
  BY <1>1, ProductsOrdered
<1>7. (live * c[1]) * d[2] <= (t * c[2]) * d[2]
  <2>1. (c[1] * d[2]) * live = (live * c[1]) * d[2] /\ (d[1] * c[2]) * live = y * c[2]
    BY <1>1
  <2>2. x * c[2] = (t * c[2]) * d[2]
    BY <1>1, <1>2
  <2>3. /\ (live * c[1]) * d[2] \in Nat /\ y * c[2] \in Nat /\ (t * c[2]) * d[2] \in Nat
    BY <1>1, <1>2
  <2> HIDE DEF x, y
  <2> QED  BY <1>5, <1>6, <2>1, <2>2, <2>3
<1>8. live * c[1] <= t * c[2]
  <2>1. live * c[1] \in Nat /\ t * c[2] \in Nat
    BY <1>1, <1>2
  <2> QED  BY <1>1, <1>7, <2>1, ProductsOrdered
<1>9. t * c[2] >= live * c[1]
  BY <1>1, <1>2, <1>8
<1>10. t >= Target(c)
  BY <1>2, <1>9
<1> QED  BY <1>2, <1>10 DEF t

\* Any state of an index, any coverage: what is suggested is a number of probes
\* set_n_probes takes, and a higher coverage never asks for fewer (index.rs
\* suggest_n_probes).
THEOREM SuggestionMonotone == Spec => []SuggestionIsMonotone
<1>1. ASSUME IndexInv PROVE SuggestionIsMonotone
  <2>0. TypeOK
    BY <1>1 DEF IndexInv
  <2> SUFFICES ASSUME NEW c \in Legal, NEW d \in Legal
               PROVE  /\ Suggested(c) \in Clusters
                      /\ c[1] * d[2] <= d[1] * c[2] => Suggested(c) <= Suggested(d)
    BY Zenon DEF SuggestionIsMonotone
  <2>1. Suggested(c) \in 1..NClusters /\ Suggested(d) \in 1..NClusters
    BY <1>1, SuggestedIsProbeCount
  <2>2. Suggested(c) \in Clusters
    BY <2>1, ClustersFacts
  <2>3. ASSUME c[1] * d[2] <= d[1] * c[2]
        PROVE  Suggested(c) <= Suggested(d)
    <3>1. /\ c[1] \in Nat /\ c[2] \in Nat \ {0} /\ c[1] <= c[2]
          /\ d[1] \in Nat /\ d[2] \in Nat \ {0} /\ d[1] <= d[2]
      BY SuggestedFacts
    <3>2. NClusters \in Nat
      BY ClustersFacts
    <3>3. CASE Suggested(c) = 1
      BY <2>1, <3>2, <3>3
    <3>4. CASE Suggested(d) = NClusters
      BY <2>1, <3>2, <3>4
    <3>5. ASSUME Suggested(c) # 1, Suggested(d) # NClusters
          PROVE  Suggested(c) <= Suggested(d)
      <4>1. \/ c[1] = c[2] /\ c[1] # 0
            \/ Proper(c) /\ Suggested(c) = FirstPrefix(c)
        BY <3>5, SuggestedFacts, Zenon
      <4>2. trained /\ live_count # 0 /\ NClusters # 1 /\ c[1] # 0
        <5>1. ~(~trained \/ live_count = 0 \/ NClusters = 1 \/ c[1] = 0)
          <6>1. NClusters = 1 => Suggested(c) = 1
            BY <2>1
          <6>2. c[1] # 0
            BY <4>1 DEF Proper
          <6>3. trained /\ live_count # 0
            BY <3>5, SuggestedFacts, Zenon
          <6> QED  BY <3>5, <6>1, <6>2, <6>3
        <5> QED  BY <5>1
      <4>3. d[1] # 0
        <5> SUFFICES ASSUME d[1] = 0 PROVE FALSE
          OBVIOUS
        <5>1. d[1] * c[2] = 0 /\ c[1] * d[2] \in Nat \ {0}
          BY <3>1, <4>2
        <5> QED  BY <2>3, <5>1
      <4>4. Proper(d) /\ Suggested(d) = FirstPrefix(d)
        BY <3>5, <4>2, <4>3, SuggestedFacts, Zenon
      <4>5. c[1] # c[2]
        <5> SUFFICES ASSUME c[1] = c[2] PROVE FALSE
          OBVIOUS
        <5>1. d[2] * c[1] <= d[1] * c[1]
          BY <2>3, <3>1
        <5>2. d[2] <= d[1]
          BY <3>1, <4>2, <5>1, ProductsOrdered
        <5> QED  BY <3>1, <4>4, <5>2 DEF Proper
      <4>6. Proper(c) /\ Suggested(c) = FirstPrefix(c)
        BY <4>1, <4>5
      <4>7. Target(c) <= Target(d) /\ Target(c) \in Nat /\ Target(d) \in Nat
        BY <2>0, <2>3, <4>4, <4>6, TargetGrows, TargetFacts
      <4>8. FirstPrefix(d) \in 1..NClusters /\ CumSum(FirstPrefix(d)) >= Target(d)
        BY <1>1, <4>4, FirstPrefixFacts
      <4>9. CumSum(FirstPrefix(d)) \in Nat
        <5>1. FirstPrefix(d) \in 0..NClusters
          BY <4>8
        <5> QED  BY <2>0, <5>1, CumSumFacts
      <4>10. CumSum(FirstPrefix(d)) >= Target(c)
        BY <4>7, <4>8, <4>9
      <4>11. FirstPrefix(c) <= FirstPrefix(d)
        BY <1>1, <4>6, <4>8, <4>10, FirstPrefixFacts
      <4> QED  BY <4>4, <4>6, <4>11
    <3> QED  BY <3>3, <3>4, <3>5
  <2> QED  BY <2>2, <2>3
<1> QED  BY <1>1, IndexInvariant, PTL

\* What SuggestionIsLeastCover asks of a choice of lists.
Covers(lists, c) == SumFunctionOnSet(Sizes, lists) * c[2] >= live_count * c[1]

\* All lists cover any share.
LEMMA AllCover ==
  ASSUME IndexInv, NEW c, c[1] \in Nat, c[2] \in Nat, c[1] <= c[2]
  PROVE  Covers(Clusters, c)
<1>1. SumFunctionOnSet(Sizes, Clusters) = live_count
  BY SizesAddUp
<1>2. live_count \in Nat
  BY DEF IndexInv, TypeOK
<1>3. c[1] * live_count <= c[2] * live_count
  BY <1>2, ProductsOrdered
<1>4. live_count * c[2] >= live_count * c[1]
  BY <1>2, <1>3
<1> QED  BY <1>1, <1>4, Zenon DEF Covers

LEMMA NoFewerThanOne ==
  ASSUME NEW lists \in SUBSET Clusters, Cardinality(lists) < 1
  PROVE  lists = {}
<1>1. IsFiniteSet(Clusters)
  BY ClustersFacts
<1>2. IsFiniteSet(lists)
  BY <1>1, FS_Subset
<1>3. Cardinality(lists) \in Nat
  BY <1>2, FS_CardinalityType
<1>4. Cardinality(lists) = 0
  BY <1>3
<1> QED  BY <1>2, <1>4, FS_EmptySet

\* The walk stops at a prefix that covers, and no choice of fewer lists does.
LEMMA WalkIsLeastCover ==
  ASSUME IndexInv, NEW c, Proper(c)
  PROVE  /\ \E lists \in SUBSET Clusters :
              Cardinality(lists) = FirstPrefix(c) /\ Covers(lists, c)
         /\ \A lists \in SUBSET Clusters :
              Cardinality(lists) < FirstPrefix(c) /\ lists # {} => ~Covers(lists, c)
<1> DEFINE first == FirstPrefix(c)
           held(lists) == SumFunctionOnSet(Sizes, lists)
<1>0. TypeOK
  BY DEF IndexInv
<1>1. /\ first \in 1..NClusters /\ CumSum(first) >= Target(c)
      /\ \A m \in 1..NClusters : CumSum(m) >= Target(c) => first <= m
  BY FirstPrefixFacts
<1>2. /\ Target(c) \in Nat
      /\ \A s \in Nat : s * c[2] >= live_count * c[1] <=> s >= Target(c)
  BY <1>0, TargetFacts
<1>3. /\ NClusters \in Nat /\ IsFiniteSet(Clusters) /\ Cardinality(Clusters) = NClusters
  BY ClustersFacts
<1>4. \A m \in 0..NClusters : CumSum(m) \in Nat
  BY <1>0, CumSumFacts
<1>5. \A m \in 1..NClusters : m \in 0..NClusters /\ m \in Nat
  BY <1>3
<1> HIDE DEF first, held
<1>6. PICK lists \in SUBSET Clusters : Cardinality(lists) = first /\ held(lists) = CumSum(first)
  BY <1>0, <1>1, <1>5, LargestHoldMost DEF held
<1>7. Covers(lists, c)
  <2>1. CumSum(first) \in Nat
    BY <1>1, <1>4, <1>5
  <2>2. CumSum(first) * c[2] >= live_count * c[1]
    BY <1>1, <1>2, <2>1
  <2> QED  BY <1>6, <2>2, Zenon DEF Covers, held
<1>8. ASSUME NEW few \in SUBSET Clusters, Cardinality(few) < first, few # {}
      PROVE  ~Covers(few, c)
  <2> DEFINE m == Cardinality(few)
  <2>1. m \in 1..NClusters
    <3>1. IsFiniteSet(few) /\ m <= NClusters
      BY <1>3, FS_Subset
    <3>2. m \in Nat /\ m # 0
      BY <1>8, <3>1, FS_CardinalityType, FS_EmptySet
    <3> HIDE DEF m
    <3> QED  BY <1>3, <3>1, <3>2
  <2>2. m <= m /\ m < first /\ m \in 0..NClusters
    <3> HIDE DEF m
    <3>1. m <= m
      BY <2>1
    <3> QED  BY <1>5, <1>8, <2>1, <3>1 DEF m
  <2>3. held(few) <= CumSum(m)
    BY <1>0, <2>2, LargestHoldMost DEF held
  <2>4. held(few) \in Nat
    <3>1. Sizes \in [Clusters -> Nat] /\ {} \in SUBSET few
      BY <1>0, SizesType
    <3> QED  BY <1>3, <3>1, SumGrows DEF held
  <2> HIDE DEF m
  <2>5. CumSum(m) \in Nat /\ ~(CumSum(m) >= Target(c))
    <3>1. CumSum(m) \in Nat
      BY <1>4, <2>2
    <3>2. ~(first <= m)
      BY <1>1, <2>1, <2>2
    <3> QED  BY <1>1, <2>1, <3>1, <3>2
  <2>6. ~(held(few) >= Target(c))
    BY <1>2, <2>3, <2>4, <2>5
  <2>7. ~(held(few) * c[2] >= live_count * c[1])
    BY <1>2, <2>4, <2>6
  <2> QED  BY <2>7, Zenon DEF Covers, held
<1> QED  BY <1>6, <1>7, <1>8 DEF first

\* The suggested number of lists can hold the share asked for and no smaller
\* number can, whatever the sizes (index.rs suggest_n_probes).
THEOREM SuggestionLeastCover == Spec => []SuggestionIsLeastCover
<1>1. ASSUME IndexInv PROVE SuggestionIsLeastCover
  <2> SUFFICES ASSUME trained, live_count > 0, NEW c \in Legal
               PROVE  /\ \E lists \in SUBSET Clusters :
                           Cardinality(lists) = Suggested(c) /\ Covers(lists, c)
                      /\ c[1] < c[2] => \A lists \in SUBSET Clusters :
                           Cardinality(lists) < Suggested(c) /\ lists # {} => ~Covers(lists, c)
    BY Zenon DEF SuggestionIsLeastCover, Covers
  <2>0. TypeOK /\ live_count \in Nat
    BY <1>1 DEF IndexInv, TypeOK
  <2>1. live_count # 0
    BY <2>0
  <2>2. /\ c[1] \in Nat /\ c[2] \in Nat \ {0} /\ c[1] <= c[2]
        /\ \/ (NClusters = 1 \/ c[1] = 0) /\ Suggested(c) = 1
           \/ c[1] = c[2] /\ Suggested(c) = NClusters
           \/ Proper(c) /\ Suggested(c) = FirstPrefix(c)
    BY <2>1, SuggestedFacts, Zenon
  <2>3. CASE (NClusters = 1 \/ c[1] = 0) /\ Suggested(c) = 1
    <3>1. \A lists \in SUBSET Clusters : Cardinality(lists) < 1 => lists = {}
      BY NoFewerThanOne
    <3>2. \E lists \in SUBSET Clusters : Cardinality(lists) = 1 /\ Covers(lists, c)
      <4>1. CASE NClusters = 1
        <5>1. Cardinality(Clusters) = 1
          BY <4>1, ClustersFacts
        <5>2. Covers(Clusters, c)
          BY <1>1, <2>2, AllCover
        <5> QED  BY <5>1, <5>2
      <4>2. CASE c[1] = 0
        <5>1. 1 \in 0..NClusters
          BY ClustersFacts
        <5>2. PICK lists \in SUBSET Clusters :
                Cardinality(lists) = 1 /\ SumFunctionOnSet(Sizes, lists) = CumSum(1)
          BY <2>0, <5>1, LargestHoldMost
        <5>3. CumSum(1) \in Nat
          BY <2>0, <5>1, CumSumFacts
        <5>4. CumSum(1) * c[2] >= live_count * c[1]
          <6>1. CumSum(1) * c[2] \in Nat /\ live_count * 0 = 0
            BY <2>0, <2>2, <5>3
          <6> QED  BY <4>2, <6>1
        <5>5. Covers(lists, c)
          BY <5>2, <5>4, Zenon DEF Covers
        <5> QED  BY <5>2, <5>5
      <4> QED  BY <2>3, <4>1, <4>2
    <3> QED  BY <2>3, <3>1, <3>2, Zenon
  <2>4. CASE c[1] = c[2] /\ Suggested(c) = NClusters
    <3>1. Cardinality(Clusters) = Suggested(c)
      BY <2>4, ClustersFacts
    <3>2. Covers(Clusters, c)
      BY <1>1, <2>2, AllCover
    <3>3. ~(c[1] < c[2])
      BY <2>2, <2>4
    <3> QED  BY <3>1, <3>2, <3>3
  <2>5. CASE Proper(c) /\ Suggested(c) = FirstPrefix(c)
    BY <1>1, <2>5, WalkIsLeastCover, Zenon
  <2> QED  BY <2>2, <2>3, <2>4, <2>5
<1> QED  BY <1>1, IndexInvariant, PTL
=============================================================================
