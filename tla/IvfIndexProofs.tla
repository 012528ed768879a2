---------------------------- MODULE IvfIndexProofs ----------------------------
(***************************************************************************)
(* Theorems about IvfIndex for every value of its constants: its           *)
(* invariants, from one inductive invariant, and that it implements        *)
(* VectorStore, under which every step is a step of the store.             *)
(***************************************************************************)
EXTENDS IvfIndexProperties, SharedLemmas

-----------------------------------------------------------------------------
(* Lemmas about the operators *)

\* AssignToCluster finds a cluster, the first of the nearest ones (assign.rs
\* assign_to_cluster).
LEMMA AssignIsFirstNearest ==
  ASSUME NEW cents \in [Clusters -> Points], NEW v \in Vectors
  PROVE  LET c == AssignToCluster(cents, v)
         IN  /\ c \in Clusters
             /\ \A d \in Clusters :
                  /\ SquaredL2[cents[c], v] <= SquaredL2[cents[d], v]
                  /\ d < c => SquaredL2[cents[c], v] < SquaredL2[cents[d], v]
<1> DEFINE dist(c) == SquaredL2[cents[c], v]
           nearest == {c \in Clusters : \A d \in Clusters : dist(c) <= dist(d)}
<1>1. \A c \in Clusters : dist(c) \in Nat
  BY DataAssumption
<1>2. 1 \in Clusters /\ Clusters \subseteq Nat
  BY ConfigAssumption DEF Clusters
<1>3. nearest # {}
  <2>1. {dist(c) : c \in Clusters} \in SUBSET Nat
    BY <1>1
  <2>2. {dist(c) : c \in Clusters} # {}
    BY <1>2
  <2>3. PICK m \in {dist(c) : c \in Clusters} : \A n \in {dist(c) : c \in Clusters} : m <= n
    <3> HIDE DEF dist
    <3> QED  BY <2>1, <2>2, LeastNatural
  <2>4. PICK c \in Clusters : m = dist(c)
    BY <2>3
  <2>5. \A d \in Clusters : dist(c) <= dist(d)
    <3> HIDE DEF dist
    <3> QED  BY <2>3, <2>4
  <2> QED  BY <2>4, <2>5
<1>4. PICK c \in nearest : \A d \in nearest : c <= d
  <2>1. nearest \in SUBSET Nat
    BY <1>2
  <2> HIDE DEF nearest
  <2> QED  BY <1>3, <2>1, LeastNatural
<1>5. c \in Clusters
  OBVIOUS
<1>6. \A d \in Clusters : dist(c) <= dist(d) /\ (d < c => dist(c) < dist(d))
  <2> SUFFICES ASSUME NEW d \in Clusters, d < c
               PROVE  dist(c) < dist(d)
    BY <1>4
  <2>1. d \notin nearest
    <3>1. c \in Nat /\ d \in Nat /\ ~(c <= d)
      <4> HIDE DEF nearest
      <4> QED  BY <1>2, <1>5
    <3> HIDE DEF nearest
    <3> QED  BY <1>4, <3>1
  <2>2. PICK e \in Clusters : ~(dist(d) <= dist(e))
    BY <2>1
  <2>3. dist(c) <= dist(e) /\ dist(c) \in Nat /\ dist(d) \in Nat /\ dist(e) \in Nat
    BY <1>1, <2>2
  <2> HIDE DEF dist
  <2> QED  BY <2>2, <2>3
<1> QED  BY <1>5, <1>6 DEF AssignToCluster

\* SortBySeq puts each element of a finite set with distinct stamps at exactly
\* one position, by ascending stamp.
LEMMA SortBySeqSorts ==
  ASSUME NEW S, IsFiniteSet(S),
         \A e \in S : e.seq \in Nat,
         \A e, f \in S : e.seq = f.seq => e = f
  PROVE  LET s == SortBySeq(S)
         IN  /\ s \in Seq(S)
             /\ Len(s) = Cardinality(S)
             /\ s \in [1..Cardinality(S) -> S]
             /\ \A i, j \in 1..Cardinality(S) : i < j => s[i].seq < s[j].seq
             /\ \A e \in S : \E i \in 1..Cardinality(S) : s[i] = e
<1> DEFINE n == Cardinality(S)
           upto(e) == {f \in S : f.seq <= e.seq}
           rank == [e \in S |-> Cardinality(upto(e))]
<1>1. n \in Nat
  BY FS_CardinalityType
<1>2. \A e \in S : IsFiniteSet(upto(e)) /\ Cardinality(upto(e)) \in 1..n
  <2> SUFFICES ASSUME NEW e \in S
               PROVE  IsFiniteSet(upto(e)) /\ Cardinality(upto(e)) \in 1..n
    OBVIOUS
  <2>1. e \in upto(e) /\ upto(e) \in SUBSET S
    OBVIOUS
  <2>2. IsFiniteSet(upto(e)) /\ Cardinality(upto(e)) <= n
    BY <2>1, FS_Subset
  <2>3. Cardinality(upto(e)) \in Nat /\ Cardinality(upto(e)) # 0
    BY <2>1, <2>2, FS_CardinalityType, FS_EmptySet
  <2> QED  BY <2>2, <2>3, <1>1
<1>3. \A e, f \in S : e.seq < f.seq => rank[e] < rank[f]
  <2> SUFFICES ASSUME NEW e \in S, NEW f \in S, e.seq < f.seq
               PROVE  Cardinality(upto(e)) < Cardinality(upto(f))
    OBVIOUS
  <2>1. upto(e) \in SUBSET upto(f)
    OBVIOUS
  <2>2. f \in upto(f) /\ f \notin upto(e)
    OBVIOUS
  <2>3. /\ Cardinality(upto(e)) <= Cardinality(upto(f))
        /\ Cardinality(upto(e)) # Cardinality(upto(f))
    BY <1>2, <2>1, <2>2, FS_Subset
  <2> HIDE DEF upto, n
  <2>4. Cardinality(upto(e)) \in Nat /\ Cardinality(upto(f)) \in Nat
    BY <1>1, <1>2
  <2> QED  BY <2>3, <2>4
<1>4. \A e \in S : rank[e] \in 1..n
  BY <1>2
<1>5. \A e, f \in S : rank[e] = rank[f] => e = f
  <2> SUFFICES ASSUME NEW e \in S, NEW f \in S, e # f
               PROVE  rank[e] # rank[f]
    OBVIOUS
  <2>1. e.seq < f.seq \/ f.seq < e.seq
    OBVIOUS
  <2>2. rank[e] \in Nat /\ rank[f] \in Nat
    <3> HIDE DEF rank, n
    <3> QED  BY <1>1, <1>4
  <2> HIDE DEF rank
  <2> QED  BY <1>3, <2>1, <2>2
<1>6. \A i \in 1..n : \E e \in S : rank[e] = i
  <2> DEFINE R == {rank[e] : e \in S}
  <2>1. rank \in Surjection(S, R)
    BY DEF Surjection
  <2>2. rank \in Injection(S, R)
    <3> HIDE DEF rank
    <3> QED  BY <1>5, <2>1 DEF Injection, Surjection, IsInjective
  <2>3. Cardinality(R) = n
    <3> HIDE DEF R, rank
    <3> QED  BY <2>1, <2>2, FS_Surjection
  <2>4. R \in SUBSET (1..n)
    BY <1>4
  <2>5. R = 1..n
    <3>1. IsFiniteSet(1..n) /\ Cardinality(1..n) = n
      BY <1>1, FS_Interval
    <3> HIDE DEF R, n
    <3> QED  BY <2>3, <2>4, <3>1, FS_Subset
  <2> QED  BY <2>5
<1> DEFINE s == SortBySeq(S)
<1>7. s = [i \in 1..n |-> CHOOSE e \in S : Cardinality(upto(e)) = i]
  BY Zenon DEF SortBySeq
<1>8. \A i \in 1..n : s[i] \in S /\ rank[s[i]] = i
  <2> SUFFICES ASSUME NEW i \in 1..n PROVE s[i] \in S /\ rank[s[i]] = i
    OBVIOUS
  <2>1. s[i] = CHOOSE e \in S : Cardinality(upto(e)) = i
    <3> HIDE DEF s
    <3> QED  BY <1>7
  <2>2. \E e \in S : Cardinality(upto(e)) = i
    BY <1>6
  <2>3. s[i] \in S /\ Cardinality(upto(s[i])) = i
    <3> HIDE DEF s, upto
    <3> QED  BY <2>1, <2>2
  <2> HIDE DEF s
  <2> QED  BY <2>3
<1>9. s \in [1..n -> S]
  <2> HIDE DEF s, rank, n
  <2> QED  BY <1>7, <1>8
<1>10. s \in Seq(S) /\ Len(s) = n
  <2> HIDE DEF s, rank, n
  <2> QED  BY <1>1, <1>9
<1>11. \A i, j \in 1..n : i < j => s[i].seq < s[j].seq
  <2> SUFFICES ASSUME NEW i \in 1..n, NEW j \in 1..n, i < j
               PROVE  s[i].seq < s[j].seq
    OBVIOUS
  <2>1. s[i].seq # s[j].seq /\ ~(s[j].seq < s[i].seq)
    <3> HIDE DEF s, rank
    <3> QED  BY <1>3, <1>8
  <2>2. s[i].seq \in Nat /\ s[j].seq \in Nat
    <3> HIDE DEF s
    <3> QED  BY <1>8
  <2> HIDE DEF s
  <2> QED  BY <2>1, <2>2
<1>12. \A e \in S : \E i \in 1..n : s[i] = e
  <2> SUFFICES ASSUME NEW e \in S PROVE \E i \in 1..n : s[i] = e
    OBVIOUS
  <2>1. rank[e] \in 1..n
    BY <1>4
  <2> HIDE DEF s, rank
  <2> QED  BY <2>1, <1>5, <1>8
<1> QED  BY <1>9, <1>10, <1>11, <1>12

\* No other sequence of its elements by ascending stamp has them all.
LEMMA SortedIsUnique ==
  ASSUME NEW S, NEW n \in Nat, NEW s \in [1..n -> S],
         \A e \in S : \E i \in 1..n : s[i] = e,
         \A e \in S : e.seq \in Nat,
         \A i, j \in 1..n : i < j => s[i].seq < s[j].seq
  PROVE  SortBySeq(S) = s
<1> DEFINE upto(e) == {f \in S : f.seq <= e.seq}
<1>1. \A i, j \in 1..n : s[i] = s[j] => i = j
  BY SMT
<1>2. IsFiniteSet(1..n) /\ Cardinality(1..n) = n
  BY FS_Interval
<1>3. Cardinality(S) = n
  BY <1>1, <1>2, OneToOneSize
<1>4. ASSUME NEW i \in 1..n
      PROVE  Cardinality(upto(s[i])) = i
  <2> DEFINE first == [j \in 1..i |-> s[j]]
  <2>1. IsFiniteSet(1..i) /\ Cardinality(1..i) = i
    BY FS_Interval
  <2>2. \A j \in 1..n : s[j] \in upto(s[i]) <=> j <= i
    BY SMT
  <2>3. first \in [1..i -> upto(s[i])]
    BY <2>2
  <2>4. \A j, l \in 1..i : first[j] = first[l] => j = l
    BY <1>1
  <2>5. \A e \in upto(s[i]) : \E j \in 1..i : first[j] = e
    BY <2>2
  <2> HIDE DEF first, upto
  <2> QED  BY <2>1, <2>3, <2>4, <2>5, OneToOneSize
<1>5. ASSUME NEW i \in 1..n
      PROVE  (CHOOSE e \in S : Cardinality(upto(e)) = i) = s[i]
  <2>1. s[i] \in S /\ Cardinality(upto(s[i])) = i
    BY <1>4
  <2>2. \A e \in S : Cardinality(upto(e)) = i => e = s[i]
    <3> HIDE DEF upto
    <3> QED  BY <1>4
  <2> HIDE DEF upto
  <2> QED  BY <2>1, <2>2, Zenon
<1>6. SortBySeq(S) = [i \in 1..n |-> CHOOSE e \in S : Cardinality(upto(e)) = i]
  BY <1>3, Zenon DEF SortBySeq
<1> HIDE DEF upto
<1> QED  BY <1>5, <1>6

\* The working set is a non-empty sequence of vectors within the cap.
LEMMA SubsampleIsWorkingSet ==
  ASSUME NEW s \in Seq(Vectors), s # <<>>, Len(s) <= MaxLen
  PROVE  Subsample(s) \in WorkingSets /\ Subsample(s) \in Seq(Vectors)
<1>1. Len(s) \in Nat \ {0} /\ s \in [1..Len(s) -> Vectors]
  BY EmptySeq, LenProperties
<1>2. CASE Len(s) <= TrainingSampleSize
  <2>1. Len(s) \in 1..TrainingSampleSize
    BY <1>1, <1>2, ConfigAssumption
  <2> QED  BY <1>1, <1>2, <2>1 DEF Subsample, WorkingSets
<1>3. CASE Len(s) > TrainingSampleSize
  <2>1. Len(s) \in (TrainingSampleSize + 1)..MaxLen
    BY <1>1, <1>3, ConfigAssumption
  <2>2. Picks[Len(s)] \in [1..TrainingSampleSize -> 1..Len(s)]
    BY <2>1, TrainerAssumption
  <2>3. Subsample(s) = [i \in 1..TrainingSampleSize |-> s[Picks[Len(s)][i]]]
    BY <1>1, <1>3, ConfigAssumption DEF Subsample
  <2>4. Subsample(s) \in [1..TrainingSampleSize -> Vectors]
    BY <1>1, <2>2, <2>3
  <2>5. TrainingSampleSize \in 1..TrainingSampleSize /\ TrainingSampleSize \in Nat
    BY ConfigAssumption
  <2> QED  BY <2>4, <2>5, SeqDef DEF WorkingSets
<1> QED  BY <1>1, <1>2, <1>3, ConfigAssumption

-----------------------------------------------------------------------------
(* What the invariant says of the entries taken together *)

LEMMA ListEntry ==
  ASSUME TypeOK, NEW c \in Clusters
  PROVE  /\ inverted_lists[c] \in Seq(Entry)
         /\ Len(inverted_lists[c]) \in Nat
         /\ DOMAIN inverted_lists[c] = 1..Len(inverted_lists[c])
         /\ \A p \in DOMAIN inverted_lists[c] :
              /\ inverted_lists[c][p] \in Entry
              /\ inverted_lists[c][p] \in Entries
<1>1. inverted_lists[c] \in Seq(Entry)
  BY DEF TypeOK
<1>2. /\ Len(inverted_lists[c]) \in Nat
      /\ inverted_lists[c] \in [1..Len(inverted_lists[c]) -> Entry]
      /\ DOMAIN inverted_lists[c] = 1..Len(inverted_lists[c])
  BY <1>1, LenProperties
<1>3. \A p \in DOMAIN inverted_lists[c] : inverted_lists[c][p] \in Entries
  BY DEF Entries, Range
<1> QED  BY <1>1, <1>2, <1>3

\* Where an entry is.
LEMMA EntryPosition ==
  ASSUME TypeOK, NEW e \in Entries
  PROVE  \E c \in Clusters : \E p \in DOMAIN inverted_lists[c] : inverted_lists[c][p] = e
<1>1. PICK c \in Clusters : e \in Range(inverted_lists[c])
  BY DEF Entries
<1> QED  BY <1>1 DEF Range

\* The live entries are finitely many, at most one per stamp, with distinct ids
\* and stamps.
LEMMA EntriesFacts ==
  ASSUME IndexInv
  PROVE  /\ Entries \subseteq Entry
         /\ \A e \in Entries : e.seq \in Nat /\ e.seq < next_seq
         /\ \A e, f \in Entries : e.seq = f.seq => e = f
         /\ \A e, f \in Entries : e.id = f.id => e = f
         /\ \A e \in Entries : e.id \in DOMAIN id_to_cluster
         /\ pq = None => \A e \in Entries : e.pq_code = None
         /\ IsFiniteSet(Entries)
         /\ Cardinality(Entries) <= MaxSeq
         /\ live_count # 0 => Entries # {}
<1>0. TypeOK
  BY DEF IndexInv
<1>1. Entries \subseteq Entry
  BY <1>0, ListEntry, EntryPosition
<1>2. \A e \in Entries : e.seq \in Stamps /\ e.seq \in Nat
  BY <1>1, ConfigAssumption DEF Entry, Stamps
<1>3. \A e \in Entries : e.seq < next_seq
  BY <1>0, EntryPosition DEF IndexInv, StampsDistinct
<1>4. \A e, f \in Entries : e.seq = f.seq => e = f
  <2> SUFFICES ASSUME NEW e \in Entries, NEW f \in Entries, e.seq = f.seq
               PROVE  e = f
    OBVIOUS
  <2>1. PICK c \in Clusters : \E p \in DOMAIN inverted_lists[c] : inverted_lists[c][p] = e
    BY <1>0, EntryPosition
  <2>2. PICK d \in Clusters : \E q \in DOMAIN inverted_lists[d] : inverted_lists[d][q] = f
    BY <1>0, EntryPosition
  <2> QED  BY <2>1, <2>2 DEF IndexInv, StampsDistinct
<1>5. \A e \in Entries : e.id \in DOMAIN id_to_cluster
  BY <1>0, EntryPosition DEF IndexInv, DirectoryExact
<1>6. \A e, f \in Entries : e.id = f.id => e = f
  <2> SUFFICES ASSUME NEW e \in Entries, NEW f \in Entries, e.id = f.id
               PROVE  e = f
    OBVIOUS
  <2>1. PICK c \in Clusters : \E p \in DOMAIN inverted_lists[c] : inverted_lists[c][p] = e
    BY <1>0, EntryPosition
  <2>2. PICK d \in Clusters : \E q \in DOMAIN inverted_lists[d] : inverted_lists[d][q] = f
    BY <1>0, EntryPosition
  <2>3. c = id_to_cluster[e.id] /\ d = id_to_cluster[e.id]
    BY <2>1, <2>2 DEF IndexInv, DirectoryExact
  <2> QED  BY <2>1, <2>2, <2>3 DEF IndexInv, DirectoryExact
<1>7. pq = None => \A e \in Entries : e.pq_code = None
  BY <1>0, EntryPosition DEF IndexInv, CodesCurrent
<1>8. IsFiniteSet(Entries) /\ Cardinality(Entries) <= MaxSeq
  <2> DEFINE stamp == [e \in Entries |-> e.seq]
  <2>1. stamp \in Injection(Entries, Stamps)
    BY <1>2, <1>4 DEF Injection, IsInjective
  <2>2. IsFiniteSet(Stamps) /\ Cardinality(Stamps) = MaxSeq
    BY ConfigAssumption, FS_Interval DEF Stamps
  <2> HIDE DEF stamp
  <2> QED  BY <2>1, <2>2, FS_Injection
<1>9. live_count # 0 => Entries # {}
  <2> SUFFICES ASSUME live_count # 0 PROVE Entries # {}
    OBVIOUS
  <2>1. DOMAIN id_to_cluster # {}
    BY FS_EmptySet DEF IndexInv, DirectoryExact
  <2>2. PICK id \in DOMAIN id_to_cluster : TRUE
    BY <2>1
  <2>3. id_to_cluster[id] \in Clusters
    BY <1>0 DEF TypeOK
  <2>4. PICK p \in DOMAIN inverted_lists[id_to_cluster[id]] : TRUE
    BY DEF IndexInv, DirectoryExact
  <2> QED  BY <1>0, <2>3, <2>4, ListEntry
<1> QED  BY <1>1, <1>2, <1>3, <1>4, <1>5, <1>6, <1>7, <1>8, <1>9

-----------------------------------------------------------------------------
(* retrain: the snapshot and what putting it back leaves *)

\* The map counts the entries of the lists.
LEMMA EntriesCounted ==
  ASSUME IndexInv
  PROVE  Cardinality(Entries) = live_count /\ live_count \in Nat
<1> DEFINE idOf == [e \in Entries |-> e.id]
<1>1. idOf \in [Entries -> DOMAIN id_to_cluster]
  BY EntriesFacts
<1>2. \A e, f \in Entries : idOf[e] = idOf[f] => e = f
  BY EntriesFacts
<1>3. ASSUME NEW id \in DOMAIN id_to_cluster
      PROVE  \E e \in Entries : idOf[e] = id
  <2>1. TypeOK /\ id_to_cluster[id] \in Clusters
    BY DEF IndexInv, TypeOK
  <2>2. PICK p \in DOMAIN inverted_lists[id_to_cluster[id]] :
          inverted_lists[id_to_cluster[id]][p].id = id
    BY DEF IndexInv, DirectoryExact
  <2>3. inverted_lists[id_to_cluster[id]][p] \in Entries
    BY <2>1, ListEntry
  <2> QED  BY <2>2, <2>3
<1>4. IsFiniteSet(Entries)
  BY EntriesFacts
<1>5. Cardinality(DOMAIN id_to_cluster) = Cardinality(Entries)
  <2> HIDE DEF idOf
  <2> QED  BY <1>1, <1>2, <1>3, <1>4, OneToOneSize
<1> QED  BY <1>5 DEF IndexInv, DirectoryExact, TypeOK

LEMMA SnapshotFacts ==
  ASSUME IndexInv
  PROVE  /\ Len(Snapshot) \in Nat
         /\ Len(Snapshot) <= MaxSeq
         /\ DOMAIN Snapshot = 1..Len(Snapshot)
         /\ \A i \in 1..Len(Snapshot) : Snapshot[i] \in Entries
         /\ \A i, j \in 1..Len(Snapshot) : i < j => Snapshot[i].seq < Snapshot[j].seq
         /\ \A i, j \in 1..Len(Snapshot) : i # j =>
              Snapshot[i].seq # Snapshot[j].seq /\ Snapshot[i].id # Snapshot[j].id
         /\ \A e \in Entries : \E i \in 1..Len(Snapshot) : Snapshot[i] = e
<1>1. /\ Len(Snapshot) = Cardinality(Entries)
      /\ Snapshot \in [1..Cardinality(Entries) -> Entries]
      /\ \A i, j \in 1..Cardinality(Entries) : i < j => Snapshot[i].seq < Snapshot[j].seq
      /\ \A e \in Entries : \E i \in 1..Cardinality(Entries) : Snapshot[i] = e
  BY EntriesFacts, SortBySeqSorts DEF Snapshot
<1>2. Len(Snapshot) \in Nat /\ Len(Snapshot) <= MaxSeq
  BY <1>1, EntriesFacts, FS_CardinalityType
<1>3. \A i \in 1..Len(Snapshot) : Snapshot[i] \in Entries
  BY <1>1
<1>4. ASSUME NEW i \in 1..Len(Snapshot), NEW j \in 1..Len(Snapshot), i # j
      PROVE  Snapshot[i].seq # Snapshot[j].seq /\ Snapshot[i].id # Snapshot[j].id
  <2>1. i < j \/ j < i
    BY <1>2, <1>4
  <2>2. Snapshot[i].seq \in Nat /\ Snapshot[j].seq \in Nat
    BY <1>3, EntriesFacts
  <2>3. Snapshot[i].seq # Snapshot[j].seq
    BY <1>1, <2>1, <2>2
  <2> QED  BY <1>3, <2>3, EntriesFacts
<1> QED  BY <1>1, <1>2, <1>3, <1>4

LEMMA RetrainSetIsWorkingSet ==
  ASSUME IndexInv, live_count # 0
  PROVE  RetrainSet \in WorkingSets /\ RetrainSet \in Seq(Vectors)
<1> DEFINE vectors == [i \in DOMAIN Snapshot |-> Snapshot[i].vector]
<1>1. vectors \in [1..Len(Snapshot) -> Vectors]
  BY SnapshotFacts, EntriesFacts DEF Entry
<1>2. vectors \in Seq(Vectors) /\ Len(vectors) = Len(Snapshot)
  <2> HIDE DEF vectors
  <2> QED  BY <1>1, SnapshotFacts, SeqDef
<1>3. Len(vectors) # 0
  BY <1>2, EntriesFacts, SnapshotFacts
<1>4. vectors # <<>> /\ Len(vectors) <= MaxLen
  BY <1>2, <1>3, SnapshotFacts, ConfigAssumption, EmptySeq
<1> HIDE DEF vectors
<1>5. Subsample(vectors) \in WorkingSets /\ Subsample(vectors) \in Seq(Vectors)
  BY <1>2, <1>4, SubsampleIsWorkingSet
<1> QED  BY <1>5 DEF RetrainSet, vectors

\* A retrain can train both the centroids and the quantizer on it.
LEMMA RetrainSetTrains ==
  ASSUME IndexInv, live_count # 0
  PROVE  /\ KMeans[0, RetrainSet] \in [Clusters -> Points]
         /\ RetrainSet # None
         /\ Len(RetrainSet) >= PqMinSample => RetrainSet \in Codebook
<1>1. RetrainSet \in WorkingSets /\ RetrainSet \in Seq(Vectors)
  BY RetrainSetIsWorkingSet
<1>2. KMeans[0, RetrainSet] \in [Clusters -> Points] /\ RetrainSet # None
  BY <1>1, TrainerAssumption, DataAssumption
<1>3. WrongDim \notin Range(RetrainSet)
  <2>1. WrongDim \notin Vectors
    BY DataAssumption
  <2>2. \A i \in DOMAIN RetrainSet : RetrainSet[i] \in Vectors
    BY <1>1, LenProperties
  <2> QED  BY <2>1, <2>2 DEF Range
<1>4. Len(RetrainSet) \in Nat
  BY <1>1, LenProperties
<1> QED  BY <1>1, <1>2, <1>3, <1>4, ConfigAssumption DEF Codebook

\* Whatever prefix of the snapshot a retrain puts back, under whatever centroids
\* and codebook, that prefix is what the index holds, the map, the lists and the
\* count agree again, stamps are kept, and every entry is placed and encoded for
\* the new model.
LEMMA PutBackRestores ==
  ASSUME IndexInv, NEW n \in 0..Len(Snapshot),
         NEW cents \in [Clusters -> Points], NEW book \in {None} \cup Codebook,
         book = None <=> pq = None,
         PutBack(n, cents, book), next_seq' = next_seq
  PROVE  /\ inverted_lists' \in [Clusters -> Seq(Entry)]
         /\ id_to_cluster' \in [DOMAIN id_to_cluster' -> Clusters]
         /\ DOMAIN id_to_cluster' \subseteq Ids
         /\ live_count' \in Nat
         /\ IsFiniteSet(DOMAIN id_to_cluster')
         /\ DirectoryExact'
         /\ StampsDistinct'
         /\ centroids' = cents => NearestPlacement'
         /\ pq' = book => CodesCurrent'
         /\ Entries' = Reencoded(n, book)
<1> DEFINE k(i) == Reencode(Snapshot[i], book)
           kept == {k(i) : i \in 1..n}
           home(e) == AssignToCluster(cents, e.vector)
           part(c) == {e \in kept : home(e) = c}
           ids == {e.id : e \in kept}
<1>1. n \in Nat /\ \A i \in 1..n : i \in 1..Len(Snapshot)
  BY SnapshotFacts
<1>2. \A i \in 1..n :
        /\ k(i) \in Entry
        /\ k(i).id = Snapshot[i].id
        /\ k(i).seq = Snapshot[i].seq
        /\ k(i).pq_code = IF book = None THEN None ELSE Encode(book, k(i).vector)
  <2> SUFFICES ASSUME NEW i \in 1..n
               PROVE  /\ k(i) \in Entry
                      /\ k(i).id = Snapshot[i].id
                      /\ k(i).seq = Snapshot[i].seq
                      /\ k(i).pq_code = IF book = None THEN None
                                         ELSE Encode(book, k(i).vector)
    OBVIOUS
  <2>1. Snapshot[i] \in Entries /\ Snapshot[i] \in Entry
    BY <1>1, SnapshotFacts, EntriesFacts
  <2>2. CASE book = None
    <3>1. Snapshot[i].pq_code = None
      BY <2>1, <2>2, EntriesFacts
    <3> QED  BY <2>1, <2>2, <3>1 DEF Reencode
  <2>3. CASE book # None
    <3>1. k(i) = [Snapshot[i] EXCEPT !.pq_code = Encode(book, Snapshot[i].vector)]
      BY <2>3 DEF Reencode
    <3>2. Encode(book, Snapshot[i].vector) \in Codebook \X Vectors
      BY <2>1, <2>3 DEF Encode, Entry
    <3> HIDE DEF k
    <3> QED  BY <2>1, <2>3, <3>1, <3>2 DEF Entry
  <2> QED  BY <2>2, <2>3
<1>3. \A i, j \in 1..n : i # j => k(i).seq # k(j).seq /\ k(i).id # k(j).id
  <2> HIDE DEF k
  <2> QED  BY <1>1, <1>2, SnapshotFacts
<1>4. \A e \in kept : /\ e \in Entry
                      /\ e.seq \in Nat /\ e.seq < next_seq
                      /\ e.pq_code = IF book = None THEN None ELSE Encode(book, e.vector)
  <2> HIDE DEF k
  <2> QED  BY <1>1, <1>2, SnapshotFacts, EntriesFacts
<1>5. \A e, f \in kept : e.seq = f.seq \/ e.id = f.id => e = f
  <2> HIDE DEF k
  <2> QED  BY <1>3
<1>6. \A e \in kept : home(e) \in Clusters
  <2> HIDE DEF kept
  <2> QED  BY <1>4, AssignIsFirstNearest DEF Entry
<1>7. IsFiniteSet(kept) /\ IsFiniteSet(ids) /\ Cardinality(ids) = n
  <2> DEFINE byIndex == [i \in 1..n |-> k(i).id]
             entryAt == [i \in 1..n |-> k(i)]
  <2>1. byIndex \in Bijection(1..n, ids)
    <3>1. byIndex \in [1..n -> ids] /\ \A id \in ids : \E i \in 1..n : byIndex[i] = id
      <4> HIDE DEF k
      <4> QED  OBVIOUS
    <3>2. \A i, j \in 1..n : byIndex[i] = byIndex[j] => i = j
      <4> HIDE DEF k
      <4> QED  BY <1>3
    <3> HIDE DEF byIndex, ids
    <3> QED  BY <3>1, <3>2 DEF Bijection, Injection, Surjection, IsInjective
  <2>2. entryAt \in Bijection(1..n, kept)
    <3>1. entryAt \in [1..n -> kept] /\ \A e \in kept : \E i \in 1..n : entryAt[i] = e
      <4> HIDE DEF k
      <4> QED  OBVIOUS
    <3>2. \A i, j \in 1..n : entryAt[i] = entryAt[j] => i = j
      <4> HIDE DEF k
      <4> QED  BY <1>3
    <3> HIDE DEF entryAt, kept
    <3> QED  BY <3>1, <3>2 DEF Bijection, Injection, Surjection, IsInjective
  <2>3. ExistsBijection(1..n, ids) /\ ExistsBijection(1..n, kept)
    BY <2>1, <2>2, Zenon DEF ExistsBijection
  <2>4. IsFiniteSet(1..n) /\ Cardinality(1..n) = n
    BY <1>1, FS_Interval
  <2> HIDE DEF ids, kept
  <2> QED  BY <2>3, <2>4, FS_Bijection
<1>8. /\ inverted_lists' = [c \in Clusters |-> SortBySeq(part(c))]
      /\ id_to_cluster' = [id \in ids |-> home(CHOOSE e \in kept : e.id = id)]
      /\ live_count' = n
  BY Zenon DEF PutBack, Relist, ListsOf, MapOf, Reencoded
<1> HIDE DEF k, kept, home
<1>9. ASSUME NEW c \in Clusters
      PROVE  /\ inverted_lists'[c] \in Seq(Entry)
             /\ DOMAIN inverted_lists'[c] = 1..Len(inverted_lists'[c])
             /\ \A p \in DOMAIN inverted_lists'[c] :
                  inverted_lists'[c][p] \in kept /\ home(inverted_lists'[c][p]) = c
             /\ \A p, q \in DOMAIN inverted_lists'[c] :
                  inverted_lists'[c][p] = inverted_lists'[c][q] => p = q
             /\ \A e \in kept : home(e) = c =>
                  \E p \in DOMAIN inverted_lists'[c] : inverted_lists'[c][p] = e
  <2> DEFINE s == SortBySeq(part(c))
             m == Cardinality(part(c))
  <2>1. part(c) \in SUBSET kept /\ IsFiniteSet(part(c))
    BY <1>7, FS_Subset
  <2>2. /\ s \in Seq(part(c)) /\ Len(s) = m /\ s \in [1..m -> part(c)]
        /\ \A i, j \in 1..m : i < j => s[i].seq < s[j].seq
        /\ \A e \in part(c) : \E i \in 1..m : s[i] = e
    <3>1. \A e \in part(c) : e.seq \in Nat
      BY <1>4
    <3>2. \A e, f \in part(c) : e.seq = f.seq => e = f
      BY <1>5
    <3> HIDE DEF part
    <3> QED  BY <2>1, <3>1, <3>2, SortBySeqSorts
  <2>3. inverted_lists'[c] = s /\ DOMAIN s = 1..m /\ m \in Nat
    <3> HIDE DEF part
    <3> QED  BY <1>8, <2>1, <2>2, FS_CardinalityType
  <2>4. s \in Seq(Entry)
    <3>1. part(c) \subseteq Entry
      BY <1>4
    <3> HIDE DEF part, s
    <3> QED  BY <2>2, <3>1, SeqMonotonic
  <2>5. \A p \in 1..m : s[p] \in kept /\ home(s[p]) = c
    <3> HIDE DEF s
    <3> QED  BY <2>2
  <2>6. \A p, q \in 1..m : s[p] = s[q] => p = q
    <3> SUFFICES ASSUME NEW p \in 1..m, NEW q \in 1..m, p # q
                 PROVE  s[p] # s[q]
      OBVIOUS
    <3>1. p < q \/ q < p
      BY <2>3
    <3>2. s[p].seq \in Nat /\ s[q].seq \in Nat
      BY <1>4, <2>5
    <3> HIDE DEF s
    <3> QED  BY <2>2, <3>1, <3>2
  <2>7. \A e \in kept : home(e) = c => \E p \in 1..m : s[p] = e
    <3> HIDE DEF s
    <3> QED  BY <2>2
  <2> HIDE DEF s, m, part
  <2> QED  BY <2>2, <2>3, <2>4, <2>5, <2>6, <2>7
<1>10. \A e \in kept : id_to_cluster'[e.id] = home(e) /\ e.id \in DOMAIN id_to_cluster'
  <2> SUFFICES ASSUME NEW e \in kept
               PROVE  id_to_cluster'[e.id] = home(e) /\ e.id \in DOMAIN id_to_cluster'
    OBVIOUS
  <2>1. (CHOOSE f \in kept : f.id = e.id) = e
    BY <1>5
  <2> QED  BY <1>8, <2>1
<1>11. /\ DOMAIN id_to_cluster' = ids
       /\ id_to_cluster' \in [ids -> Clusters]
       /\ ids \subseteq Ids
  BY <1>4, <1>6, <1>8, <1>10 DEF Entry
<1>12. inverted_lists' \in [Clusters -> Seq(Entry)]
  <2>1. DOMAIN inverted_lists' = Clusters
    BY <1>8
  <2> QED  BY <1>8, <1>9
<1>13. DirectoryExact'
  <2>1. ASSUME NEW id \in DOMAIN id_to_cluster'
        PROVE  \E p \in DOMAIN inverted_lists'[id_to_cluster'[id]] :
                 inverted_lists'[id_to_cluster'[id]][p].id = id
    <3>1. PICK e \in kept : e.id = id
      BY <1>11
    <3> QED  BY <1>6, <1>9, <1>10, <3>1
  <2>2. ASSUME NEW c \in Clusters, NEW p \in DOMAIN inverted_lists'[c]
        PROVE  /\ inverted_lists'[c][p].id \in DOMAIN id_to_cluster'
               /\ id_to_cluster'[inverted_lists'[c][p].id] = c
               /\ \A q \in DOMAIN inverted_lists'[c] :
                    inverted_lists'[c][q].id = inverted_lists'[c][p].id => q = p
    BY <1>5, <1>9, <1>10
  <2>3. live_count' = Cardinality(DOMAIN id_to_cluster')
    BY <1>7, <1>8, <1>11
  <2> QED  BY <2>1, <2>2, <2>3 DEF DirectoryExact
<1>14. StampsDistinct'
  <2> SUFFICES ASSUME NEW c \in Clusters, NEW d \in Clusters,
                      NEW p \in DOMAIN inverted_lists'[c],
                      NEW q \in DOMAIN inverted_lists'[d]
               PROVE  /\ inverted_lists'[c][p].seq < next_seq'
                      /\ inverted_lists'[c][p].seq = inverted_lists'[d][q].seq
                           => c = d /\ p = q
    BY DEF StampsDistinct
  <2>1. inverted_lists'[c][p] \in kept /\ inverted_lists'[d][q] \in kept
    BY <1>9
  <2>2. home(inverted_lists'[c][p]) = c /\ home(inverted_lists'[d][q]) = d
    BY <1>9
  <2>3. inverted_lists'[c][p].seq < next_seq'
    BY <1>4, <2>1
  <2>4. inverted_lists'[c][p].seq = inverted_lists'[d][q].seq
          => inverted_lists'[c][p] = inverted_lists'[d][q]
    BY <1>5, <2>1
  <2> QED  BY <1>9, <2>2, <2>3, <2>4
<1>15. centroids' = cents => NearestPlacement'
  <2> SUFFICES ASSUME NEW c \in Clusters, NEW p \in DOMAIN inverted_lists'[c],
                      NEW d \in Clusters
               PROVE  LET v == inverted_lists'[c][p].vector
                      IN  /\ SquaredL2[cents[c], v] <= SquaredL2[cents[d], v]
                          /\ d < c => SquaredL2[cents[c], v] < SquaredL2[cents[d], v]
    BY DEF NearestPlacement
  <2>1. /\ inverted_lists'[c][p].vector \in Vectors
        /\ AssignToCluster(cents, inverted_lists'[c][p].vector) = c
    BY <1>4, <1>9 DEF home, Entry
  <2> QED  BY <2>1, AssignIsFirstNearest
<1>16. pq' = book => CodesCurrent'
  BY <1>4, <1>9 DEF CodesCurrent
<1>17. Entries' = Reencoded(n, book)
  <2>1. \A e \in Entries' : e \in kept
    BY <1>9 DEF Entries, Range
  <2>2. \A e \in kept : e \in Entries'
    BY <1>6, <1>9 DEF Entries, Range
  <2>3. kept = Reencoded(n, book)
    BY DEF kept, k, Reencoded
  <2> QED  BY <2>1, <2>2, <2>3
<1> QED  BY <1>1, <1>7, <1>8, <1>11, <1>12, <1>13, <1>14, <1>15, <1>16, <1>17

-----------------------------------------------------------------------------
(* Each call keeps the invariant *)

\* What a call returns is well typed.
LEMMA ReplyTyped ==
  ASSUME NEW call \in Calls, NEW outcome \in Outcomes, Returns(call, outcome)
  PROVE  reply' \in Reply
BY DEF Returns, Reply

LEMMA InitHolds == Init => IndexInv
<1> SUFFICES ASSUME Init PROVE IndexInv
  OBVIOUS
<1>1. TypeOK
  <2>1. inverted_lists \in [Clusters -> Seq(Entry)]
    BY EmptySeq DEF Init
  <2>2. DOMAIN id_to_cluster \subseteq Ids /\ id_to_cluster \in [DOMAIN id_to_cluster -> Clusters]
    BY DEF Init
  <2>3. next_seq \in 0..MaxSeq /\ live_count \in Nat
    BY ConfigAssumption DEF Init
  <2>4. reply \in Reply
    BY DEF Init, Reply, Calls, Outcomes
  <2> QED  BY <2>1, <2>2, <2>3, <2>4 DEF Init, TypeOK
<1>2. \A c \in Clusters : DOMAIN inverted_lists[c] = {}
  BY DEF Init
<1>3. DOMAIN id_to_cluster = {} /\ live_count = 0
  BY DEF Init
<1>4. DirectoryExact /\ IsFiniteSet(DOMAIN id_to_cluster)
  BY <1>2, <1>3, FS_EmptySet DEF DirectoryExact
<1>5. StampsDistinct /\ NearestPlacement /\ CodesCurrent
  BY <1>2 DEF StampsDistinct, NearestPlacement, CodesCurrent
<1>6. PqIffTrained
  BY DEF Init, PqIffTrained
<1> QED  BY <1>1, <1>3, <1>4, <1>5, <1>6 DEF IndexInv, Init

\* A call that leaves every field alone, whatever it returns.
LEMMA UnchangedKeeps ==
  ASSUME IndexInv, UNCHANGED index, reply' \in Reply
  PROVE  IndexInv'
<1>1. /\ trained' = trained /\ centroids' = centroids
      /\ inverted_lists' = inverted_lists /\ id_to_cluster' = id_to_cluster
      /\ next_seq' = next_seq /\ live_count' = live_count /\ pq' = pq
      /\ n_probes' = n_probes /\ pq_refine_factor' = pq_refine_factor
  BY DEF index
<1>2. TypeOK'
  BY <1>1 DEF IndexInv, TypeOK
<1>3. DirectoryExact' /\ StampsDistinct'
  BY <1>1 DEF IndexInv, DirectoryExact, StampsDistinct
<1>4. NearestPlacement' /\ CodesCurrent' /\ PqIffTrained'
  BY <1>1 DEF IndexInv, NearestPlacement, CodesCurrent, PqIffTrained
<1> QED  BY <1>1, <1>2, <1>3, <1>4 DEF IndexInv

\* A refused call keeps the invariant.
LEMMA RefuseKeeps ==
  ASSUME IndexInv, NEW call \in Calls, NEW error \in Outcomes, Refuse(call, error)
  PROVE  IndexInv'
BY UnchangedKeeps, ReplyTyped DEF Refuse

LEMMA TrainKeeps ==
  ASSUME IndexInv, NEW sample \in Samples, Train(sample)
  PROVE  IndexInv'
<1>1. CASE TrainRefused(sample)
  BY <1>1, RefuseKeeps DEF TrainRefused, Calls, Outcomes
<1>2. CASE TrainFitted(sample)
  <2>1. sample \in Seq(Vectors) /\ sample # <<>> /\ Len(sample) <= MaxLen
    <3>1. sample \in Seq(Vectors \cup {WrongDim})
      BY ConfigAssumption
    <3>2. Len(sample) \in Nat /\ sample \in [1..Len(sample) -> Vectors \cup {WrongDim}]
      BY <3>1, LenProperties
    <3>3. \A i \in 1..Len(sample) : sample[i] # WrongDim
      BY <1>2, <3>2 DEF TrainFitted, Range
    <3>4. sample \in [1..Len(sample) -> Vectors]
      BY <3>2, <3>3
    <3>5. sample \in Seq(Vectors)
      BY <3>2, <3>4, SeqDef
    <3> QED  BY <1>2, <3>5, ConfigAssumption DEF TrainFitted
  <2>2. Subsample(sample) \in WorkingSets
    BY <2>1, SubsampleIsWorkingSet
  <2>3. centroids' \in [Clusters -> Points]
    BY <1>2, <2>2, TrainerAssumption DEF TrainFitted
  <2>4. /\ ~trained
        /\ DOMAIN id_to_cluster = {}
        /\ UNCHANGED <<inverted_lists, id_to_cluster, next_seq, live_count,
                       n_probes, pq_refine_factor>>
    BY <1>2 DEF TrainFitted, IndexInv
  <2>5. \A c \in Clusters : DOMAIN inverted_lists[c] = {}
    BY <2>4 DEF IndexInv, DirectoryExact
  <2>6. /\ pq' \in {None} \cup Codebook
        /\ trained' \in BOOLEAN
        /\ PqIffTrained'
        /\ reply' \in Reply
    <3>1. pq \in {None} \cup Codebook /\ (pq # None <=> UsePq /\ trained)
      BY DEF IndexInv, TypeOK, PqIffTrained
    <3>2. sample # None /\ (Len(sample) >= PqMinSample => sample \in Codebook)
      <4>1. WrongDim \notin Range(sample) /\ Len(sample) \in Nat
        BY <1>2, <2>1, LenProperties DEF TrainFitted
      <4> QED  BY <2>1, <4>1, DataAssumption, ConfigAssumption DEF Codebook
    <3>3. CASE UNCHANGED <<trained, pq>> /\ Returns("train", "InvalidConfig")
      <4>1. reply' \in Reply
        BY <3>3, ReplyTyped DEF Calls, Outcomes
      <4>2. pq' = pq /\ trained' = trained /\ trained \in BOOLEAN
        BY <3>3 DEF IndexInv, TypeOK
      <4>3. PqIffTrained'
        BY <3>1, <4>2, Zenon DEF PqIffTrained
      <4> QED  BY <3>1, <4>1, <4>2, <4>3
    <3>4. CASE /\ UsePq => Len(sample) >= PqMinSample
               /\ pq' = IF UsePq THEN sample ELSE pq
               /\ trained' = TRUE
               /\ Returns("train", "Ok")
      BY <2>4, <3>1, <3>2, <3>4, ReplyTyped, ConfigAssumption
         DEF PqIffTrained, Calls, Outcomes
    <3> QED  BY <1>2, <3>3, <3>4 DEF TrainFitted, TrainOutcome
  <2>7. TypeOK'
    BY <2>3, <2>4, <2>6 DEF IndexInv, TypeOK
  <2>8. DirectoryExact' /\ StampsDistinct'
    BY <2>4 DEF IndexInv, DirectoryExact, StampsDistinct
  <2>9. NearestPlacement' /\ CodesCurrent'
    BY <2>4, <2>5 DEF NearestPlacement, CodesCurrent
  <2> QED  BY <2>3, <2>4, <2>6, <2>7, <2>8, <2>9 DEF IndexInv
<1> QED  BY <1>1, <1>2 DEF Train

LEMMA InsertKeeps ==
  ASSUME IndexInv, NEW id \in Ids, NEW v \in Vectors \cup {WrongDim}, Insert(id, v)
  PROVE  IndexInv'
<1>0. TypeOK
  BY DEF IndexInv
<1>1. CASE InsertRefused(id, v)
  BY <1>1, RefuseKeeps DEF InsertRefused, Calls, Outcomes
<1>2. CASE InsertStamped(id, v)
  <2>1. /\ trained /\ v \in Vectors /\ id \notin DOMAIN id_to_cluster
        /\ next_seq + 1 <= MaxSeq /\ next_seq' = next_seq + 1
        /\ UNCHANGED <<trained, centroids, pq, n_probes, pq_refine_factor>>
    BY <1>2 DEF InsertStamped
  <2>2. next_seq \in Stamps /\ next_seq \in Nat /\ next_seq' \in 0..MaxSeq
    BY <1>0, <2>1, ConfigAssumption DEF TypeOK, Stamps
  <2>3. CASE UNCHANGED <<inverted_lists, id_to_cluster, live_count>>
             /\ Returns("insert", "QuantizeError")
    <3>1. TypeOK'
      <4>1. reply' \in Reply
        BY <2>3, ReplyTyped DEF Calls, Outcomes
      <4> QED  BY <1>0, <2>1, <2>2, <2>3, <4>1 DEF TypeOK
    <3>2. StampsDistinct'
      <4>1. \A c \in Clusters : \A p \in DOMAIN inverted_lists[c] :
              inverted_lists[c][p].seq \in Nat /\ inverted_lists[c][p].seq < next_seq
        BY <1>0, ListEntry, EntriesFacts
      <4>2. \A c \in Clusters : \A p \in DOMAIN inverted_lists[c] :
              inverted_lists[c][p].seq < next_seq'
        BY <2>1, <2>2, <4>1
      <4> QED  BY <2>3, <4>2 DEF IndexInv, StampsDistinct
    <3>3. DirectoryExact' /\ NearestPlacement'
      BY <2>1, <2>3 DEF IndexInv, DirectoryExact, NearestPlacement
    <3>4. CodesCurrent' /\ PqIffTrained'
      BY <2>1, <2>3 DEF IndexInv, CodesCurrent, PqIffTrained
    <3> QED  BY <2>1, <2>3, <3>1, <3>2, <3>3, <3>4 DEF IndexInv
  <2>4. CASE ~(UNCHANGED <<inverted_lists, id_to_cluster, live_count>>
               /\ Returns("insert", "QuantizeError"))
    <3> DEFINE k == AssignToCluster(centroids, v)
               code == IF pq = None THEN None ELSE Encode(pq, v)
               entry == NewEntry(id, v)
               L == inverted_lists[k]
    <3>1. /\ id_to_cluster' = [i \in DOMAIN id_to_cluster \cup {id} |->
                                 IF i = id THEN k ELSE id_to_cluster[i]]
          /\ inverted_lists' = [inverted_lists EXCEPT ![k] = Append(inverted_lists[k], entry)]
          /\ live_count' = live_count + 1
          /\ Returns("insert", "Ok")
      BY <1>2, <2>4 DEF InsertStamped
    <3>2. /\ k \in Clusters
          /\ \A d \in Clusters :
               /\ SquaredL2[centroids[k], v] <= SquaredL2[centroids[d], v]
               /\ d < k => SquaredL2[centroids[k], v] < SquaredL2[centroids[d], v]
      BY <2>1, AssignIsFirstNearest DEF IndexInv
    <3>3. entry \in Entry
      BY <1>0, <2>1, <2>2 DEF Entry, Encode, TypeOK, NewEntry
    <3> HIDE DEF k, code
    <3>4. /\ entry.id = id /\ entry.vector = v /\ entry.pq_code = code
          /\ entry.seq = next_seq
      BY DEF NewEntry, code
    <3> HIDE DEF entry
    <3>5. /\ L \in Seq(Entry) /\ Len(L) \in Nat /\ DOMAIN L = 1..Len(L)
          /\ inverted_lists'[k] = Append(L, entry)
          /\ Append(L, entry) \in Seq(Entry)
          /\ DOMAIN inverted_lists'[k] = 1..(Len(L) + 1)
          /\ \A p \in 1..Len(L) : inverted_lists'[k][p] = L[p]
          /\ inverted_lists'[k][Len(L) + 1] = entry
      <4>1. L \in Seq(Entry) /\ Len(L) \in Nat /\ DOMAIN L = 1..Len(L)
        BY <1>0, <3>2, ListEntry
      <4>2. inverted_lists'[k] = Append(L, entry)
        BY <1>0, <3>1, <3>2 DEF TypeOK
      <4> HIDE DEF L
      <4>3. /\ Append(L, entry) \in Seq(Entry)
            /\ Len(Append(L, entry)) = Len(L) + 1
            /\ \A p \in 1..Len(L) : Append(L, entry)[p] = L[p]
            /\ Append(L, entry)[Len(L) + 1] = entry
        BY <3>3, <4>1, AppendProperties
      <4>4. DOMAIN Append(L, entry) = 1..(Len(L) + 1)
        BY <4>3, LenProperties
      <4> QED  BY <4>1, <4>2, <4>3, <4>4
    <3>6. \A c \in Clusters : c # k => inverted_lists'[c] = inverted_lists[c]
      BY <1>0, <3>1 DEF TypeOK
    \* Every position of the new lists is an old one or the appended one.
    <3>7. \A c \in Clusters : \A p \in DOMAIN inverted_lists'[c] :
            \/ /\ p \in DOMAIN inverted_lists[c]
               /\ inverted_lists'[c][p] = inverted_lists[c][p]
            \/ c = k /\ p = Len(L) + 1 /\ inverted_lists'[c][p] = entry
      <4> SUFFICES ASSUME NEW c \in Clusters, NEW p \in DOMAIN inverted_lists'[c]
                   PROVE  \/ /\ p \in DOMAIN inverted_lists[c]
                             /\ inverted_lists'[c][p] = inverted_lists[c][p]
                          \/ c = k /\ p = Len(L) + 1 /\ inverted_lists'[c][p] = entry
        OBVIOUS
      <4>1. CASE c # k
        BY <3>6, <4>1
      <4>2. CASE c = k
        <5>1. p \in 1..Len(L) \/ p = Len(L) + 1
          BY <3>5, <4>2
        <5> QED  BY <3>5, <4>2, <5>1
      <4> QED  BY <4>1, <4>2
    <3>8. \A c \in Clusters : \A p \in DOMAIN inverted_lists[c] :
            /\ p \in DOMAIN inverted_lists'[c]
            /\ inverted_lists'[c][p] = inverted_lists[c][p]
      BY <3>5, <3>6
    <3>9. Len(L) + 1 \notin DOMAIN L
      <4> HIDE DEF L
      <4> QED  BY <3>5
    <3> HIDE DEF L
    <3>10. \A c \in Clusters : \A p \in DOMAIN inverted_lists[c] :
             /\ inverted_lists[c][p].id \in DOMAIN id_to_cluster
             /\ inverted_lists[c][p].seq \in Nat
             /\ inverted_lists[c][p].seq < next_seq
      BY <1>0, ListEntry, EntriesFacts
    <3>11. /\ DOMAIN id_to_cluster' = DOMAIN id_to_cluster \cup {id}
           /\ id_to_cluster'[id] = k
           /\ \A i \in DOMAIN id_to_cluster : id_to_cluster'[i] = id_to_cluster[i]
      BY <2>1, <3>1
    <3>12. TypeOK'
      <4>1. inverted_lists' \in [Clusters -> Seq(Entry)]
        BY <1>0, <3>1, <3>2, <3>5 DEF TypeOK, L
      <4>2. id_to_cluster' \in [DOMAIN id_to_cluster' -> Clusters]
        BY <1>0, <3>1, <3>2, <3>11 DEF TypeOK
      <4>3. reply' \in Reply
        BY <3>1, ReplyTyped DEF Calls, Outcomes
      <4>4. live_count' \in Nat /\ DOMAIN id_to_cluster' \subseteq Ids
        BY <1>0, <3>1, <3>11 DEF TypeOK
      <4> QED  BY <1>0, <2>1, <2>2, <4>1, <4>2, <4>3, <4>4 DEF TypeOK
    <3>13. IsFiniteSet(DOMAIN id_to_cluster')
           /\ live_count' = Cardinality(DOMAIN id_to_cluster')
      BY <2>1, <3>1, <3>11, FS_AddElement DEF IndexInv, DirectoryExact
    <3>14. DirectoryExact'
      <4>1. ASSUME NEW i \in DOMAIN id_to_cluster'
            PROVE  \E p \in DOMAIN inverted_lists'[id_to_cluster'[i]] :
                     inverted_lists'[id_to_cluster'[i]][p].id = i
        <5>1. CASE i = id
          <6>1. Len(L) + 1 \in DOMAIN inverted_lists'[k]
            BY <3>5
          <6> QED  BY <3>4, <3>5, <3>11, <5>1, <6>1
        <5>2. CASE i # id
          <6>1. i \in DOMAIN id_to_cluster /\ id_to_cluster[i] \in Clusters
            BY <1>0, <3>11, <5>2 DEF TypeOK
          <6>2. PICK p \in DOMAIN inverted_lists[id_to_cluster[i]] :
                  inverted_lists[id_to_cluster[i]][p].id = i
            BY <6>1 DEF IndexInv, DirectoryExact
          <6> QED  BY <3>8, <3>11, <6>1, <6>2
        <5> QED  BY <5>1, <5>2
      <4>2. ASSUME NEW c \in Clusters, NEW p \in DOMAIN inverted_lists'[c]
            PROVE  /\ inverted_lists'[c][p].id \in DOMAIN id_to_cluster'
                   /\ id_to_cluster'[inverted_lists'[c][p].id] = c
                   /\ \A q \in DOMAIN inverted_lists'[c] :
                        inverted_lists'[c][q].id = inverted_lists'[c][p].id => q = p
        <5>1. CASE p \in DOMAIN inverted_lists[c]
                   /\ inverted_lists'[c][p] = inverted_lists[c][p]
          <6>1. inverted_lists[c][p].id # id
            BY <2>1, <3>10, <5>1
          <6>2. ASSUME NEW q \in DOMAIN inverted_lists'[c],
                       inverted_lists'[c][q].id = inverted_lists'[c][p].id
                PROVE  q = p
            <7>1. inverted_lists'[c][q] # entry
              BY <3>4, <5>1, <6>1, <6>2
            <7>2. q \in DOMAIN inverted_lists[c] /\ inverted_lists'[c][q] = inverted_lists[c][q]
              BY <3>7, <7>1
            <7> QED  BY <5>1, <6>2, <7>2 DEF IndexInv, DirectoryExact
          <6>3. /\ inverted_lists[c][p].id \in DOMAIN id_to_cluster
                /\ id_to_cluster[inverted_lists[c][p].id] = c
            BY <5>1 DEF IndexInv, DirectoryExact
          <6> QED  BY <3>11, <5>1, <6>2, <6>3
        <5>2. CASE c = k /\ p = Len(L) + 1 /\ inverted_lists'[c][p] = entry
          <6>1. ASSUME NEW q \in DOMAIN inverted_lists'[c], inverted_lists'[c][q].id = id
                PROVE  q = p
            <7>1. ~(/\ q \in DOMAIN inverted_lists[c]
                    /\ inverted_lists'[c][q] = inverted_lists[c][q])
              BY <2>1, <3>10, <6>1
            <7> QED  BY <3>7, <5>2, <7>1
          <6> QED  BY <3>4, <3>11, <5>2, <6>1
        <5> QED  BY <3>7, <5>1, <5>2
      <4> QED  BY <3>13, <4>1, <4>2 DEF DirectoryExact
    <3>15. StampsDistinct'
      <4> SUFFICES ASSUME NEW c \in Clusters, NEW d \in Clusters,
                          NEW p \in DOMAIN inverted_lists'[c],
                          NEW q \in DOMAIN inverted_lists'[d]
                   PROVE  /\ inverted_lists'[c][p].seq < next_seq'
                          /\ inverted_lists'[c][p].seq = inverted_lists'[d][q].seq
                               => c = d /\ p = q
        BY DEF StampsDistinct
      <4>1. inverted_lists'[c][p].seq < next_seq'
        BY <2>1, <2>2, <3>4, <3>7, <3>10
      <4>2. ASSUME inverted_lists'[c][p].seq = inverted_lists'[d][q].seq
            PROVE  c = d /\ p = q
        <5>1. CASE p \in DOMAIN inverted_lists[c]
                   /\ inverted_lists'[c][p] = inverted_lists[c][p]
          <6>1. inverted_lists'[d][q].seq # next_seq
            BY <2>2, <3>10, <4>2, <5>1
          <6>2. q \in DOMAIN inverted_lists[d] /\ inverted_lists'[d][q] = inverted_lists[d][q]
            BY <3>4, <3>7, <6>1
          <6> QED  BY <4>2, <5>1, <6>2 DEF IndexInv, StampsDistinct
        <5>2. CASE c = k /\ p = Len(L) + 1 /\ inverted_lists'[c][p] = entry
          <6>1. inverted_lists'[d][q].seq = next_seq
            BY <3>4, <4>2, <5>2
          <6>2. ~(/\ q \in DOMAIN inverted_lists[d]
                  /\ inverted_lists'[d][q] = inverted_lists[d][q])
            BY <2>2, <3>10, <6>1
          <6> QED  BY <3>7, <5>2, <6>2
        <5> QED  BY <3>7, <5>1, <5>2
      <4> QED  BY <4>1, <4>2
    <3>16. NearestPlacement'
      <4> SUFFICES ASSUME NEW c \in Clusters, NEW p \in DOMAIN inverted_lists'[c],
                          NEW d \in Clusters
                   PROVE  LET w == inverted_lists'[c][p].vector
                          IN  /\ SquaredL2[centroids[c], w] <= SquaredL2[centroids[d], w]
                              /\ d < c => SquaredL2[centroids[c], w] < SquaredL2[centroids[d], w]
        BY <2>1 DEF NearestPlacement
      <4>1. CASE p \in DOMAIN inverted_lists[c]
                 /\ inverted_lists'[c][p] = inverted_lists[c][p]
        BY <4>1 DEF IndexInv, NearestPlacement
      <4>2. CASE c = k /\ p = Len(L) + 1 /\ inverted_lists'[c][p] = entry
        BY <3>2, <3>4, <4>2
      <4> QED  BY <3>7, <4>1, <4>2
    <3>17. CodesCurrent'
      <4> SUFFICES ASSUME NEW c \in Clusters, NEW p \in DOMAIN inverted_lists'[c]
                   PROVE  inverted_lists'[c][p].pq_code =
                            IF pq = None THEN None
                            ELSE Encode(pq, inverted_lists'[c][p].vector)
        BY <2>1 DEF CodesCurrent
      <4>1. CASE p \in DOMAIN inverted_lists[c]
                 /\ inverted_lists'[c][p] = inverted_lists[c][p]
        BY <4>1 DEF IndexInv, CodesCurrent
      <4>2. CASE c = k /\ p = Len(L) + 1 /\ inverted_lists'[c][p] = entry
        BY <3>4, <4>2 DEF code
      <4> QED  BY <3>7, <4>1, <4>2
    <3> QED  BY <2>1, <3>12, <3>13, <3>14, <3>15, <3>16, <3>17
             DEF IndexInv, PqIffTrained
  <2> QED  BY <2>3, <2>4
<1> QED  BY <1>1, <1>2 DEF Insert

\* The position an element had before swap_remove took out position pos.
FormerPosition(s, pos, p) == IF p = pos THEN Len(s) ELSE p

\* swap_remove loses the element at pos and no other, and repeats none.
LEMMA SwapRemoveKeepsTheRest ==
  ASSUME NEW S, NEW s \in Seq(S), NEW pos \in 1..Len(s)
  PROVE  LET r == SwapRemove(s, pos)
         IN  /\ r \in Seq(S)
             /\ DOMAIN r = 1..(Len(s) - 1)
             /\ \A p \in DOMAIN r : /\ FormerPosition(s, pos, p) \in 1..Len(s)
                                    /\ FormerPosition(s, pos, p) # pos
                                    /\ r[p] = s[FormerPosition(s, pos, p)]
             /\ \A p, q \in DOMAIN r :
                  FormerPosition(s, pos, p) = FormerPosition(s, pos, q) => p = q
             /\ \A q \in 1..Len(s) : q # pos =>
                  \E p \in DOMAIN r : FormerPosition(s, pos, p) = q
<1> DEFINE r == SwapRemove(s, pos)
           former(p) == FormerPosition(s, pos, p)
           n == Len(s)
<1>1. n \in Nat /\ s \in [1..n -> S] /\ n - 1 \in Nat
  BY LenProperties
<1> HIDE DEF n
<1>2. DOMAIN r = 1..(n - 1)
  BY <1>1 DEF SwapRemove, n
<1>3. \A p \in 1..(n - 1) : former(p) \in 1..n /\ former(p) # pos
  <2> SUFFICES ASSUME NEW p \in 1..(n - 1)
               PROVE  former(p) \in 1..n /\ former(p) # pos
    OBVIOUS
  <2>1. p \in 1..n /\ n \in 1..n /\ p # n
    BY <1>1
  <2>2. former(p) = IF p = pos THEN n ELSE p
    BY DEF FormerPosition, n
  <2> HIDE DEF former
  <2> QED  BY <2>1, <2>2
<1>4. \A p \in 1..(n - 1) : r[p] = s[former(p)]
  BY <1>1 DEF FormerPosition, SwapRemove, n
<1>5. \A p, q \in 1..(n - 1) : former(p) = former(q) => p = q
  <2> SUFFICES ASSUME NEW p \in 1..(n - 1), NEW q \in 1..(n - 1), former(p) = former(q)
               PROVE  p = q
    OBVIOUS
  <2>1. p # n /\ q # n
    BY <1>1
  <2> QED  BY <2>1 DEF FormerPosition, n
<1>6. \A q \in 1..n : q # pos => \E p \in 1..(n - 1) : former(p) = q
  <2> SUFFICES ASSUME NEW q \in 1..n, q # pos
               PROVE  \E p \in 1..(n - 1) : former(p) = q
    OBVIOUS
  <2>1. CASE q = n
    <3>1. pos \in 1..n /\ pos # n
      BY <2>1 DEF n
    <3>2. pos \in 1..(n - 1)
      BY <1>1, <3>1
    <3>3. former(pos) = q
      BY <2>1 DEF FormerPosition, n
    <3> QED  BY <3>2, <3>3
  <2>2. CASE q # n
    <3>1. q \in 1..(n - 1) /\ former(q) = q
      BY <1>1, <2>2 DEF FormerPosition
    <3> QED  BY <3>1
  <2> QED  BY <2>1, <2>2
<1>7. r \in Seq(S)
  <2>1. r \in [1..(n - 1) -> S]
    <3>1. r = [p \in 1..(n - 1) |-> r[p]]
      BY <1>2 DEF SwapRemove, n
    <3>2. \A p \in 1..(n - 1) : r[p] \in S
      BY <1>1, <1>3, <1>4
    <3> HIDE DEF r
    <3> QED  BY <3>1, <3>2
  <2> HIDE DEF r
  <2> QED  BY <1>1, <2>1, SeqDef
<1> HIDE DEF r
<1>8. /\ r \in Seq(S)
      /\ DOMAIN r = 1..(Len(s) - 1)
      /\ \A p \in DOMAIN r : /\ former(p) \in 1..Len(s)
                             /\ former(p) # pos
                             /\ r[p] = s[former(p)]
      /\ \A p, q \in DOMAIN r : former(p) = former(q) => p = q
      /\ \A q \in 1..Len(s) : q # pos => \E p \in DOMAIN r : former(p) = q
  <2> HIDE DEF former
  <2> QED  BY <1>2, <1>3, <1>4, <1>5, <1>6, <1>7 DEF n
<1> QED  BY <1>8 DEF r

LEMMA DeleteKeeps ==
  ASSUME IndexInv, NEW id \in Ids, Delete(id)
  PROVE  IndexInv'
<1>0. TypeOK
  BY DEF IndexInv
<1>1. CASE DeleteRefused(id)
  BY <1>1, RefuseKeeps DEF DeleteRefused, Calls, Outcomes
<1>2. CASE DeleteMapped(id)
  <2> DEFINE k == id_to_cluster[id]
             L == inverted_lists[k]
             positions == {p \in DOMAIN L : L[p].id = id}
             pos == CHOOSE p \in positions : \A q \in positions : p <= q
  <2>1. /\ id \in DOMAIN id_to_cluster
        /\ id_to_cluster' = [i \in DOMAIN id_to_cluster \ {id} |-> id_to_cluster[i]]
        /\ UNCHANGED <<trained, centroids, next_seq, pq, n_probes, pq_refine_factor>>
    BY <1>2 DEF DeleteMapped
  <2>2. k \in Clusters /\ L \in Seq(Entry) /\ DOMAIN L = 1..Len(L)
    BY <1>0, <2>1, ListEntry DEF TypeOK
  <2>3. pos \in positions
    <3>1. \E p \in DOMAIN L : L[p].id = id
      BY <2>1 DEF IndexInv, DirectoryExact
    <3>2. positions \in SUBSET Nat
      BY <2>2, LenProperties
    <3>3. positions # {}
      BY <3>1
    <3> HIDE DEF positions
    <3> QED  BY <3>2, <3>3, LeastNatural
  <2>4. /\ inverted_lists' = [inverted_lists EXCEPT ![k] = SwapRemove(L, pos)]
        /\ live_count' = live_count - 1
        /\ Returns("delete", "Ok")
    BY <1>2, <2>3 DEF DeleteMapped
  <2> HIDE DEF pos
  <2>5. pos \in 1..Len(L) /\ L[pos].id = id
    BY <2>2, <2>3
  <2> HIDE DEF positions
  <2> DEFINE former(c, p) == IF c = k THEN FormerPosition(L, pos, p) ELSE p
  \* Every position of the new lists is a former one other than pos, once.
  <2>6. ASSUME NEW c \in Clusters
        PROVE  /\ inverted_lists'[c] \in Seq(Entry)
               /\ \A p \in DOMAIN inverted_lists'[c] :
                    /\ former(c, p) \in DOMAIN inverted_lists[c]
                    /\ inverted_lists'[c][p] = inverted_lists[c][former(c, p)]
                    /\ inverted_lists[c][former(c, p)].id # id
               /\ \A p, q \in DOMAIN inverted_lists'[c] :
                    former(c, p) = former(c, q) => p = q
               /\ \A q \in DOMAIN inverted_lists[c] : inverted_lists[c][q].id # id =>
                    \E p \in DOMAIN inverted_lists'[c] : former(c, p) = q
    <3>1. CASE c = k
      <4>1. inverted_lists'[c] = SwapRemove(L, pos) /\ inverted_lists[c] = L
        BY <1>0, <2>2, <2>4, <3>1 DEF TypeOK
      <4>2. \A q \in DOMAIN L : L[q].id = id => q = pos
        BY <2>2, <2>5 DEF IndexInv, DirectoryExact
      <4>3. \A p : former(c, p) = FormerPosition(L, pos, p)
        BY <3>1
      <4> HIDE DEF L, former
      <4>4. /\ SwapRemove(L, pos) \in Seq(Entry)
            /\ \A p \in DOMAIN SwapRemove(L, pos) :
                 /\ FormerPosition(L, pos, p) \in 1..Len(L)
                 /\ FormerPosition(L, pos, p) # pos
                 /\ SwapRemove(L, pos)[p] = L[FormerPosition(L, pos, p)]
            /\ \A p, q \in DOMAIN SwapRemove(L, pos) :
                 FormerPosition(L, pos, p) = FormerPosition(L, pos, q) => p = q
            /\ \A q \in 1..Len(L) : q # pos =>
                 \E p \in DOMAIN SwapRemove(L, pos) : FormerPosition(L, pos, p) = q
        BY <2>2, <2>5, SwapRemoveKeepsTheRest
      <4>5. /\ inverted_lists'[c] \in Seq(Entry)
            /\ \A p \in DOMAIN inverted_lists'[c] :
                 /\ former(c, p) \in DOMAIN L
                 /\ former(c, p) # pos
                 /\ inverted_lists'[c][p] = L[former(c, p)]
        BY <2>2, <4>1, <4>3, <4>4
      <4>6. \A p, q \in DOMAIN inverted_lists'[c] : former(c, p) = former(c, q) => p = q
        BY <4>1, <4>3, <4>4
      <4>7. \A q \in DOMAIN L : q # pos =>
              \E p \in DOMAIN inverted_lists'[c] : former(c, p) = q
        BY <2>2, <4>1, <4>3, <4>4
      <4> QED  BY <2>5, <4>1, <4>2, <4>5, <4>6, <4>7
    <3>2. CASE c # k
      <4>1. inverted_lists'[c] = inverted_lists[c] /\ inverted_lists[c] \in Seq(Entry)
        BY <1>0, <2>4, <3>2 DEF TypeOK
      <4>2. \A p \in DOMAIN inverted_lists[c] : inverted_lists[c][p].id # id
        BY <3>2 DEF IndexInv, DirectoryExact
      <4>3. \A p : former(c, p) = p
        BY <3>2
      <4> HIDE DEF former
      <4> QED  BY <4>1, <4>2, <4>3
    <3> QED  BY <3>1, <3>2
  <2> HIDE DEF former
  <2>7. /\ DOMAIN id_to_cluster' = DOMAIN id_to_cluster \ {id}
        /\ \A i \in DOMAIN id_to_cluster' : id_to_cluster'[i] = id_to_cluster[i]
    BY <2>1
  <2>8. /\ IsFiniteSet(DOMAIN id_to_cluster')
        /\ live_count' = Cardinality(DOMAIN id_to_cluster')
        /\ live_count' \in Nat
    <3>1. IsFiniteSet(DOMAIN id_to_cluster) /\ live_count = Cardinality(DOMAIN id_to_cluster)
      BY DEF IndexInv, DirectoryExact
    <3>2. /\ IsFiniteSet(DOMAIN id_to_cluster \ {id})
          /\ Cardinality(DOMAIN id_to_cluster \ {id}) = live_count - 1
      BY <2>1, <3>1, FS_RemoveElement
    <3> QED  BY <2>4, <2>7, <3>2, FS_CardinalityType
  <2>9. TypeOK'
    <3>1. inverted_lists' \in [Clusters -> Seq(Entry)]
      <4>1. DOMAIN inverted_lists' = Clusters
        BY <1>0, <2>4 DEF TypeOK
      <4>2. inverted_lists' = [c \in Clusters |-> inverted_lists'[c]]
        BY <1>0, <2>4 DEF TypeOK
      <4> QED  BY <2>6, <4>1, <4>2
    <3>2. DOMAIN id_to_cluster' \subseteq Ids /\ id_to_cluster' \in [DOMAIN id_to_cluster' -> Clusters]
      BY <1>0, <2>1, <2>7 DEF TypeOK
    <3>3. reply' \in Reply
      BY <2>4, ReplyTyped DEF Calls, Outcomes
    <3> QED  BY <1>0, <2>1, <2>8, <3>1, <3>2, <3>3 DEF TypeOK
  <2>10. DirectoryExact'
    <3>1. ASSUME NEW i \in DOMAIN id_to_cluster'
          PROVE  \E p \in DOMAIN inverted_lists'[id_to_cluster'[i]] :
                   inverted_lists'[id_to_cluster'[i]][p].id = i
      <4>1. i \in DOMAIN id_to_cluster /\ i # id /\ id_to_cluster[i] \in Clusters
        BY <1>0, <2>7 DEF TypeOK
      <4>2. PICK q \in DOMAIN inverted_lists[id_to_cluster[i]] :
              inverted_lists[id_to_cluster[i]][q].id = i
        BY <4>1 DEF IndexInv, DirectoryExact
      <4>3. PICK p \in DOMAIN inverted_lists'[id_to_cluster[i]] :
              former(id_to_cluster[i], p) = q
        BY <2>6, <4>1, <4>2
      <4> QED  BY <2>6, <2>7, <4>1, <4>2, <4>3
    <3>2. ASSUME NEW c \in Clusters, NEW p \in DOMAIN inverted_lists'[c]
          PROVE  /\ inverted_lists'[c][p].id \in DOMAIN id_to_cluster'
                 /\ id_to_cluster'[inverted_lists'[c][p].id] = c
                 /\ \A q \in DOMAIN inverted_lists'[c] :
                      inverted_lists'[c][q].id = inverted_lists'[c][p].id => q = p
      <4>1. /\ former(c, p) \in DOMAIN inverted_lists[c]
            /\ inverted_lists'[c][p] = inverted_lists[c][former(c, p)]
            /\ inverted_lists[c][former(c, p)].id # id
        BY <2>6
      <4>2. /\ inverted_lists[c][former(c, p)].id \in DOMAIN id_to_cluster
            /\ id_to_cluster[inverted_lists[c][former(c, p)].id] = c
        BY <4>1 DEF IndexInv, DirectoryExact
      <4>3. ASSUME NEW q \in DOMAIN inverted_lists'[c],
                   inverted_lists'[c][q].id = inverted_lists'[c][p].id
            PROVE  q = p
        <5>1. /\ former(c, q) \in DOMAIN inverted_lists[c]
              /\ inverted_lists'[c][q] = inverted_lists[c][former(c, q)]
          BY <2>6
        <5>2. former(c, q) = former(c, p)
          BY <4>1, <4>3, <5>1 DEF IndexInv, DirectoryExact
        <5> QED  BY <2>6, <5>2
      <4> QED  BY <2>7, <4>1, <4>2, <4>3
    <3> QED  BY <2>8, <3>1, <3>2 DEF DirectoryExact
  <2>11. StampsDistinct'
    <3> SUFFICES ASSUME NEW c \in Clusters, NEW d \in Clusters,
                        NEW p \in DOMAIN inverted_lists'[c],
                        NEW q \in DOMAIN inverted_lists'[d]
                 PROVE  /\ inverted_lists'[c][p].seq < next_seq'
                        /\ inverted_lists'[c][p].seq = inverted_lists'[d][q].seq
                             => c = d /\ p = q
      BY DEF StampsDistinct
    <3>1. /\ former(c, p) \in DOMAIN inverted_lists[c]
          /\ inverted_lists'[c][p] = inverted_lists[c][former(c, p)]
          /\ former(d, q) \in DOMAIN inverted_lists[d]
          /\ inverted_lists'[d][q] = inverted_lists[d][former(d, q)]
      BY <2>6
    <3>2. /\ inverted_lists'[c][p].seq < next_seq
          /\ inverted_lists'[c][p].seq = inverted_lists'[d][q].seq
               => c = d /\ former(c, p) = former(d, q)
      BY <3>1 DEF IndexInv, StampsDistinct
    <3> QED  BY <2>1, <2>6, <3>2
  <2>12. NearestPlacement'
    <3> SUFFICES ASSUME NEW c \in Clusters, NEW p \in DOMAIN inverted_lists'[c],
                        NEW d \in Clusters
                 PROVE  LET w == inverted_lists'[c][p].vector
                        IN  /\ SquaredL2[centroids[c], w] <= SquaredL2[centroids[d], w]
                            /\ d < c => SquaredL2[centroids[c], w] < SquaredL2[centroids[d], w]
      BY <2>1 DEF NearestPlacement
    <3>1. /\ former(c, p) \in DOMAIN inverted_lists[c]
          /\ inverted_lists'[c][p] = inverted_lists[c][former(c, p)]
      BY <2>6
    <3> QED  BY <3>1 DEF IndexInv, NearestPlacement
  <2>13. CodesCurrent'
    <3> SUFFICES ASSUME NEW c \in Clusters, NEW p \in DOMAIN inverted_lists'[c]
                 PROVE  inverted_lists'[c][p].pq_code =
                          IF pq = None THEN None
                          ELSE Encode(pq, inverted_lists'[c][p].vector)
      BY <2>1 DEF CodesCurrent
    <3>1. /\ former(c, p) \in DOMAIN inverted_lists[c]
          /\ inverted_lists'[c][p] = inverted_lists[c][former(c, p)]
      BY <2>6
    <3> QED  BY <3>1 DEF IndexInv, CodesCurrent
  <2>14. /\ trained' => centroids' \in [Clusters -> Points]
         /\ ~trained' => DOMAIN id_to_cluster' = {}
    BY <2>1, <2>7 DEF IndexInv
  <2>15. PqIffTrained'
    BY <2>1 DEF IndexInv, PqIffTrained
  <2> QED  BY <2>8, <2>9, <2>10, <2>11, <2>12, <2>13, <2>14, <2>15 DEF IndexInv
<1> QED  BY <1>1, <1>2 DEF Delete

\* A retrain that got past its checks, wherever it stopped.
LEMMA PutBackKeeps ==
  ASSUME IndexInv, trained,
         NEW n \in 0..Len(Snapshot),
         centroids' \in [Clusters -> Points],
         pq' \in {None} \cup Codebook,
         pq' = None <=> pq = None,
         PutBack(n, centroids', pq'),
         UNCHANGED <<trained, next_seq, n_probes, pq_refine_factor>>,
         reply' \in Reply
  PROVE  IndexInv'
<1>1. /\ inverted_lists' \in [Clusters -> Seq(Entry)]
      /\ id_to_cluster' \in [DOMAIN id_to_cluster' -> Clusters]
      /\ DOMAIN id_to_cluster' \subseteq Ids
      /\ live_count' \in Nat
      /\ IsFiniteSet(DOMAIN id_to_cluster')
      /\ DirectoryExact'
      /\ StampsDistinct'
      /\ NearestPlacement'
      /\ CodesCurrent'
  <2> DEFINE cents == centroids'
             book == pq'
  <2>1. /\ cents \in [Clusters -> Points] /\ centroids' = cents
        /\ book \in {None} \cup Codebook /\ pq' = book
        /\ book = None <=> pq = None
        /\ PutBack(n, cents, book) /\ next_seq' = next_seq
    OBVIOUS
  <2> HIDE DEF cents, book
  <2> QED  BY <2>1, PutBackRestores
<1>2. TypeOK'
  BY <1>1 DEF IndexInv, TypeOK
<1>3. PqIffTrained'
  BY DEF IndexInv, PqIffTrained
<1> QED  BY <1>1, <1>2, <1>3 DEF IndexInv

LEMMA RetrainKeeps ==
  ASSUME IndexInv, Retrain
  PROVE  IndexInv'
<1>0. TypeOK /\ (trained => centroids \in [Clusters -> Points])
  BY DEF IndexInv
<1>1. CASE RetrainRefused
  BY <1>1, RefuseKeeps DEF RetrainRefused, Calls, Outcomes
<1>2. CASE RetrainEmpty
  BY <1>2, RefuseKeeps DEF RetrainEmpty, Calls, Outcomes
<1>3. 0 \in 0..Len(Snapshot)
  BY SnapshotFacts
<1>4. CASE RetrainKMeansFails
  <2>1. /\ trained /\ PutBack(0, centroids, pq)
        /\ UNCHANGED <<trained, centroids, next_seq, pq, n_probes, pq_refine_factor>>
    BY <1>4 DEF RetrainKMeansFails
  <2>2. reply' \in Reply
    BY <1>4, ReplyTyped DEF RetrainKMeansFails, Calls, Outcomes
  <2>3. centroids' = centroids /\ pq' = pq
    BY <2>1
  <2>4. PutBack(0, centroids', pq')
    BY <2>1, <2>3
  <2> QED  BY <1>0, <1>3, <2>1, <2>2, <2>3, <2>4, PutBackKeeps DEF TypeOK
<1>5. ASSUME live_count # 0, centroids' = KMeans[0, RetrainSet]
      PROVE  /\ centroids' \in [Clusters -> Points]
             /\ RetrainSet # None
             /\ Len(RetrainSet) >= PqMinSample => RetrainSet \in Codebook
  BY <1>5, RetrainSetTrains
<1>6. CASE RetrainPqFails
  <2>1. /\ trained /\ live_count # 0 /\ centroids' = KMeans[0, RetrainSet]
        /\ PutBack(0, centroids', pq)
        /\ UNCHANGED <<trained, next_seq, pq, n_probes, pq_refine_factor>>
    BY <1>6 DEF RetrainPqFails
  <2>2. reply' \in Reply
    BY <1>6, ReplyTyped DEF RetrainPqFails, Calls, Outcomes
  <2>3. pq' = pq
    BY <2>1
  <2>4. PutBack(0, centroids', pq')
    BY <2>1, <2>3
  <2> QED  BY <1>0, <1>3, <1>5, <2>1, <2>2, <2>3, <2>4, PutBackKeeps DEF TypeOK
<1>7. CASE RetrainFitted
  <2>1. /\ trained /\ live_count # 0 /\ centroids' = KMeans[0, RetrainSet]
        /\ pq' = IF UsePq THEN RetrainSet ELSE pq
        /\ UsePq => Len(RetrainSet) >= PqMinSample
        /\ UNCHANGED <<trained, next_seq, n_probes, pq_refine_factor>>
    BY <1>7 DEF RetrainFitted
  <2>2. pq' \in {None} \cup Codebook /\ (pq' = None <=> pq = None)
    <3>1. pq # None <=> UsePq
      BY <2>1 DEF IndexInv, PqIffTrained
    <3>2. CASE UsePq
      BY <1>5, <2>1, <3>1, <3>2
    <3>3. CASE ~UsePq
      BY <1>0, <2>1, <3>3 DEF TypeOK
    <3> QED  BY <3>2, <3>3
  <2>3. PICK n \in 0..Len(Snapshot) : PutBack(n, centroids', pq')
    <3>1. Len(Snapshot) \in Nat /\ Len(Snapshot) \in 0..Len(Snapshot)
      BY SnapshotFacts
    <3>2. \A n \in 0..(Len(Snapshot) - 1) : n \in 0..Len(Snapshot)
      BY <3>1
    <3> QED  BY <1>7, <3>1, <3>2, Zenon DEF RetrainFitted
  <2>4. reply' \in Reply
    BY <1>7, ReplyTyped DEF RetrainFitted, Calls, Outcomes
  <2> QED  BY <1>5, <2>1, <2>2, <2>3, <2>4, PutBackKeeps
<1> QED  BY <1>1, <1>2, <1>4, <1>6, <1>7 DEF Retrain

LEMMA SettersKeep ==
  ASSUME IndexInv,
         \/ \E n \in 0..(NClusters + 1) : SetNProbes(n)
         \/ \E factor \in RefineFactors : SetPqRefineFactor(factor)
  PROVE  IndexInv'
<1>1. ASSUME NEW n \in 0..(NClusters + 1), SetNProbes(n), n \notin Clusters
      PROVE  IndexInv'
  BY <1>1, RefuseKeeps DEF SetNProbes, Calls, Outcomes
<1>2. ASSUME UNCHANGED <<trained, centroids, inverted_lists, id_to_cluster, next_seq,
                         live_count, pq>>,
             n_probes' \in Clusters, pq_refine_factor' \in RefineFactors, reply' \in Reply
      PROVE  IndexInv'
  <2>1. /\ trained' = trained /\ centroids' = centroids
        /\ inverted_lists' = inverted_lists /\ id_to_cluster' = id_to_cluster
        /\ next_seq' = next_seq /\ live_count' = live_count /\ pq' = pq
    BY <1>2
  <2>2. TypeOK'
    BY <1>2, <2>1 DEF IndexInv, TypeOK
  <2>3. DirectoryExact' /\ StampsDistinct'
    BY <2>1 DEF IndexInv, DirectoryExact, StampsDistinct
  <2>4. NearestPlacement' /\ CodesCurrent' /\ PqIffTrained'
    BY <2>1 DEF IndexInv, NearestPlacement, CodesCurrent, PqIffTrained
  <2> QED  BY <2>1, <2>2, <2>3, <2>4 DEF IndexInv
<1>3. ASSUME NEW n \in 0..(NClusters + 1), SetNProbes(n), n \in Clusters
      PROVE  IndexInv'
  <2>1. reply' \in Reply
    BY <1>3, ReplyTyped DEF SetNProbes, Calls, Outcomes
  <2>2. /\ n_probes' = n
        /\ UNCHANGED <<trained, centroids, inverted_lists, id_to_cluster, next_seq,
                       live_count, pq, pq_refine_factor>>
    BY <1>3 DEF SetNProbes
  <2>3. pq_refine_factor' \in RefineFactors
    BY <2>2 DEF IndexInv, TypeOK
  <2> QED  BY <1>2, <1>3, <2>1, <2>2, <2>3
<1>4. ASSUME NEW factor \in RefineFactors, SetPqRefineFactor(factor)
      PROVE  IndexInv'
  <2>1. reply' \in Reply
    BY <1>4, ReplyTyped DEF SetPqRefineFactor, Calls, Outcomes
  <2>2. /\ pq_refine_factor' = factor
        /\ UNCHANGED <<trained, centroids, inverted_lists, id_to_cluster, next_seq,
                       live_count, pq, n_probes>>
    BY <1>4 DEF SetPqRefineFactor
  <2>3. n_probes' \in Clusters
    BY <2>2 DEF IndexInv, TypeOK
  <2> QED  BY <1>2, <2>1, <2>2, <2>3
<1> QED  BY <1>1, <1>3, <1>4

LEMMA NextKeeps == IndexInv /\ [Next]_vars => IndexInv'
<1> SUFFICES ASSUME IndexInv, [Next]_vars
             PROVE  IndexInv'
  OBVIOUS
<1>1. ASSUME NEW sample \in Samples, Train(sample)
      PROVE  IndexInv'
  BY <1>1, TrainKeeps
<1>2. ASSUME NEW id \in Ids, NEW v \in Vectors \cup {WrongDim}, Insert(id, v)
      PROVE  IndexInv'
  BY <1>2, InsertKeeps
<1>3. ASSUME NEW id \in Ids, Delete(id)
      PROVE  IndexInv'
  BY <1>3, DeleteKeeps
<1>4. CASE Retrain
  BY <1>4, RetrainKeeps
<1>5. CASE \E n \in 0..(NClusters + 1) : SetNProbes(n)
  BY <1>5, SettersKeep
<1>6. CASE \E factor \in RefineFactors : SetPqRefineFactor(factor)
  BY <1>6, SettersKeep
<1>7. CASE UNCHANGED vars
  <2>1. UNCHANGED index /\ reply' = reply
    BY <1>7 DEF vars
  <2> QED  BY <2>1, UnchangedKeeps DEF IndexInv, TypeOK
<1> QED  BY <1>1, <1>2, <1>3, <1>4, <1>5, <1>6, <1>7 DEF Next

-----------------------------------------------------------------------------
(* A retrain after a successful one *)

\* The entries put back are those there were when their codes are current.
LEMMA ReencodeIsIdle ==
  ASSUME IndexInv, NEW book, book = pq
  PROVE  Reencoded(Len(Snapshot), book) = Entries
<1>1. \A i \in 1..Len(Snapshot) : Reencode(Snapshot[i], book) = Snapshot[i]
  <2> SUFFICES ASSUME NEW i \in 1..Len(Snapshot)
               PROVE  Reencode(Snapshot[i], book) = Snapshot[i]
    OBVIOUS
  <2> DEFINE e == Snapshot[i]
  <2>1. e \in Entries /\ e \in Entry
    BY SnapshotFacts, EntriesFacts
  <2>2. TypeOK /\ CodesCurrent
    BY DEF IndexInv
  <2>3. e.pq_code = IF pq = None THEN None ELSE Encode(pq, e.vector)
    <3> HIDE DEF e
    <3>1. PICK c \in Clusters : \E p \in DOMAIN inverted_lists[c] : inverted_lists[c][p] = e
      BY <2>1, <2>2, EntryPosition
    <3> QED  BY <2>2, <3>1 DEF CodesCurrent
  <2> HIDE DEF e
  <2>4. Reencode(e, book) = e
    <3>1. [e EXCEPT !.pq_code = e.pq_code] = e
      BY <2>1 DEF Entry
    <3> QED  BY <2>3, <3>1 DEF Reencode
  <2> QED  BY <2>4 DEF e
<1>2. \A e \in Entries : \E i \in 1..Len(Snapshot) : Snapshot[i] = e
  BY SnapshotFacts
<1>3. \A i \in 1..Len(Snapshot) : Snapshot[i] \in Entries
  BY SnapshotFacts
<1> QED  BY <1>1, <1>2, <1>3 DEF Reencoded

\* A snapshot has an entry for each one the index counts.
LEMMA SnapshotCounted ==
  ASSUME IndexInv
  PROVE  Len(Snapshot) = live_count
<1>1. Snapshot \in Seq(Entries) /\ Len(Snapshot) = Cardinality(Entries)
  BY EntriesFacts, SortBySeqSorts DEF Snapshot
<1> QED  BY <1>1, EntriesCounted

\* Put back whole, the entries give the snapshot they came from, up to their
\* codes: a second retrain sees the vectors the first one saw.
LEMMA SnapshotReturns ==
  ASSUME IndexInv, NEW book, Entries' = Reencoded(Len(Snapshot), book)
  PROVE  RetrainSet' = RetrainSet
<1> DEFINE n == Len(Snapshot)
           again == [i \in 1..n |-> Reencode(Snapshot[i], book)]
           S == Reencoded(n, book)
<1>1. n \in Nat /\ DOMAIN Snapshot = 1..n
  BY SnapshotFacts
<1>2. \A i \in 1..n :
        /\ again[i].seq = Snapshot[i].seq /\ again[i].vector = Snapshot[i].vector
        /\ Snapshot[i].seq \in Nat
  <2> SUFFICES ASSUME NEW i \in 1..n
               PROVE  /\ Reencode(Snapshot[i], book).seq = Snapshot[i].seq
                      /\ Reencode(Snapshot[i], book).vector = Snapshot[i].vector
                      /\ Snapshot[i].seq \in Nat
    OBVIOUS
  <2>1. Snapshot[i] \in Entries /\ Snapshot[i] \in Entry /\ Snapshot[i].seq \in Nat
    BY SnapshotFacts, EntriesFacts
  <2> QED  BY <2>1 DEF Reencode, Entry
<1>3. again \in [1..n -> S] /\ \A e \in S : \E i \in 1..n : again[i] = e
  BY DEF Reencoded
<1>4. \A i, j \in 1..n : i < j => again[i].seq < again[j].seq
  <2> HIDE DEF again
  <2> QED  BY <1>2, SnapshotFacts
<1> HIDE DEF again, S
<1>5. \A e \in S : e.seq \in Nat
  BY <1>2, <1>3
<1>6. SortBySeq(S) = again
  <2> HIDE DEF n
  <2> QED  BY <1>1, <1>3, <1>4, <1>5, SortedIsUnique
<1>7. Snapshot' = again
  BY <1>6 DEF Snapshot, S
<1>8. [i \in DOMAIN Snapshot' |-> Snapshot'[i].vector] = [i \in DOMAIN Snapshot |-> Snapshot[i].vector]
  <2>1. DOMAIN again = 1..n
    BY DEF again
  <2> QED  BY <1>1, <1>2, <1>7, <2>1
<1> QED  BY <1>8, Zenon DEF RetrainSet

\* A retrain that succeeds leaves what it would build again.
LEMMA RetrainRebuilds ==
  ASSUME IndexInv, RetrainFitted, reply'.outcome = "Ok"
  PROVE  Rebuilt'
<1> DEFINE cents == KMeans[0, RetrainSet]
           book == IF UsePq THEN RetrainSet ELSE pq
           n == Len(Snapshot)
<1>1. /\ trained /\ live_count # 0 /\ centroids' = cents /\ pq' = book
      /\ UsePq => Len(RetrainSet) >= PqMinSample
      /\ next_seq' = next_seq
  BY DEF RetrainFitted
<1>2. PutBack(n, cents, book)
  <2>1. ~Returns("retrain", "QuantizeError")
    BY DEF Returns
  <2> QED  BY <1>1, <2>1 DEF RetrainFitted
<1>3. /\ cents \in [Clusters -> Points] /\ RetrainSet # None
      /\ Len(RetrainSet) >= PqMinSample => RetrainSet \in Codebook
  BY <1>1, RetrainSetTrains
<1>4. book \in {None} \cup Codebook /\ (book = None <=> pq = None)
  <2>1. (pq # None <=> UsePq) /\ pq \in {None} \cup Codebook
    BY <1>1 DEF IndexInv, PqIffTrained, TypeOK
  <2>2. CASE UsePq
    BY <1>1, <1>3, <2>1, <2>2
  <2>3. CASE ~UsePq
    BY <2>1, <2>3
  <2> QED  BY <2>2, <2>3
<1>5. n \in 0..Len(Snapshot)
  BY SnapshotFacts
<1> HIDE DEF n, cents, book
<1>6. Entries' = Reencoded(n, book)
  BY <1>1, <1>2, <1>3, <1>4, <1>5, PutBackRestores
<1>7. RetrainSet' = RetrainSet
  BY <1>6, SnapshotReturns DEF n
<1>8. /\ inverted_lists' = ListsOf(Entries', cents)
      /\ id_to_cluster' = MapOf(Entries', cents)
  BY <1>2, <1>6 DEF PutBack, Relist
<1>9. inverted_lists' = ListsOf(Entries, centroids)' /\ id_to_cluster' = MapOf(Entries, centroids)'
  <2>1. ListsOf(Entries, centroids)' = ListsOf(Entries', centroids')
    BY Zenon DEF ListsOf
  <2>2. MapOf(Entries, centroids)' = MapOf(Entries', centroids')
    BY SMT DEF MapOf
  <2> QED  BY <1>1, <1>8, <2>1, <2>2, Zenon
<1>10. centroids' = KMeans[0, RetrainSet'] /\ (UsePq => pq' = RetrainSet')
  BY <1>1, <1>7 DEF cents, book
<1> QED  BY <1>9, <1>10, Zenon DEF Rebuilt

\* Of the calls, only a retrain is one that makes Rebuilt say something new.
LEMMA RebuiltKept ==
  ASSUME IndexInv, Rebuilt, [Next]_vars
  PROVE  Rebuilt'
<1> DEFINE rebuilt == [call |-> "retrain", outcome |-> "Ok"]
<1>1. ASSUME NEW call, NEW outcome, Returns(call, outcome), call # "retrain" \/ outcome # "Ok"
      PROVE  Rebuilt'
  BY <1>1 DEF Returns, Rebuilt
<1>2. ASSUME NEW sample \in Samples, Train(sample)
      PROVE  Rebuilt'
  BY <1>1, <1>2 DEF Train, TrainRefused, TrainFitted, TrainOutcome, Refuse
<1>3. ASSUME NEW id \in Ids, NEW v \in Vectors \cup {WrongDim}, Insert(id, v)
      PROVE  Rebuilt'
  BY <1>1, <1>3, Zenon DEF Insert, InsertRefused, InsertStamped, Refuse
<1>4. ASSUME NEW id \in Ids, Delete(id)
      PROVE  Rebuilt'
  BY <1>1, <1>4, Zenon DEF Delete, DeleteRefused, DeleteMapped, Refuse
<1>5. CASE RetrainRefused \/ RetrainKMeansFails \/ RetrainPqFails
  BY <1>1, <1>5 DEF RetrainRefused, RetrainKMeansFails, RetrainPqFails, Refuse
<1>6. CASE RetrainEmpty
  <2>1. live_count' = 0
    BY <1>6 DEF RetrainEmpty, Refuse, index
  <2> QED  BY <2>1 DEF Rebuilt
<1>7. CASE RetrainFitted
  <2>1. CASE reply'.outcome = "Ok"
    BY <1>7, <2>1, RetrainRebuilds
  <2>2. CASE reply'.outcome # "Ok"
    <3>1. reply' # rebuilt
      BY <2>2
    <3> QED  BY <3>1, Zenon DEF Rebuilt
  <2> QED  BY <2>1, <2>2
<1>8. CASE \E n \in 0..(NClusters + 1) : SetNProbes(n)
  BY <1>1, <1>8 DEF SetNProbes, Refuse
<1>9. CASE \E factor \in RefineFactors : SetPqRefineFactor(factor)
  BY <1>1, <1>9 DEF SetPqRefineFactor
<1>10. CASE UNCHANGED vars
  <2>1. /\ reply' = reply /\ live_count' = live_count /\ centroids' = centroids
        /\ pq' = pq /\ inverted_lists' = inverted_lists /\ id_to_cluster' = id_to_cluster
    BY <1>10 DEF vars, index
  <2>2. Entries' = Entries
    BY <2>1, Zenon DEF Entries
  <2>3. RetrainSet' = RetrainSet
    BY <2>2, Zenon DEF RetrainSet, Snapshot
  <2>4. ListsOf(Entries, centroids)' = ListsOf(Entries, centroids)
    BY <2>1, <2>2, Zenon DEF ListsOf
  <2>5. MapOf(Entries, centroids)' = MapOf(Entries, centroids)
    BY <2>1, <2>2, SMT DEF MapOf
  <2> QED  BY <2>1, <2>3, <2>4, <2>5, Zenon DEF Rebuilt
<1> QED  BY <1>2, <1>3, <1>4, <1>5, <1>6, <1>7, <1>8, <1>9, <1>10 DEF Next, Retrain

\* With Rebuilt, a retrain that succeeds finds its own result.
LEMMA RetrainAgain ==
  ASSUME IndexInv, Rebuilt, reply = [call |-> "retrain", outcome |-> "Ok"],
         Retrain, reply'.outcome = "Ok"
  PROVE  UNCHANGED index
<1>1. CASE RetrainRefused \/ RetrainKMeansFails \/ RetrainPqFails
  <2>1. Returns("retrain", "InvalidConfig")
    BY <1>1, Zenon DEF RetrainRefused, RetrainKMeansFails, RetrainPqFails, Refuse
  <2> QED  BY <2>1 DEF Returns
<1>2. CASE RetrainEmpty
  BY <1>2 DEF RetrainEmpty, Refuse
<1>3. CASE RetrainFitted
  <2> DEFINE n == Len(Snapshot)
  <2>1. /\ live_count # 0 /\ centroids' = KMeans[0, RetrainSet]
        /\ pq' = IF UsePq THEN RetrainSet ELSE pq
        /\ UNCHANGED <<trained, next_seq, n_probes, pq_refine_factor>>
    BY <1>3 DEF RetrainFitted
  <2>2. PutBack(n, centroids', pq')
    <3>1. ~Returns("retrain", "QuantizeError")
      BY DEF Returns
    <3> QED  BY <1>3, <3>1 DEF RetrainFitted
  <2>3. centroids' = centroids /\ pq' = pq
    BY <2>1 DEF Rebuilt
  <2>4. Reencoded(n, pq') = Entries
    BY <2>3, ReencodeIsIdle
  <2>5. /\ inverted_lists' = ListsOf(Entries, centroids)
        /\ id_to_cluster' = MapOf(Entries, centroids)
        /\ live_count' = n
    BY <2>2, <2>3, <2>4 DEF PutBack, Relist
  <2>6. inverted_lists' = inverted_lists /\ id_to_cluster' = id_to_cluster
    BY <2>1, <2>5 DEF Rebuilt
  <2>7. live_count' = live_count
    BY <2>5, SnapshotCounted
  <2> QED  BY <2>1, <2>3, <2>6, <2>7 DEF index
<1> QED  BY <1>1, <1>2, <1>3 DEF Retrain

-----------------------------------------------------------------------------
(* A train after failed ones *)

\* No stamp is used before there is a training: insert is refused until then.
Unstamped == ~trained => next_seq = 0

LEMMA UnstampedKept ==
  ASSUME IndexInv, Unstamped, [Next]_vars
  PROVE  Unstamped'
<1>1. CASE \E sample \in Samples : Train(sample)
  <2>1. PICK sample \in Samples : TrainRefused(sample) \/ TrainFitted(sample)
    BY <1>1 DEF Train
  <2>2. CASE TrainRefused(sample)
    <3>1. trained' = trained /\ next_seq' = next_seq
      BY <2>2 DEF TrainRefused, Refuse, index
    <3> QED  BY <3>1, Zenon DEF Unstamped
  <2>3. CASE TrainFitted(sample)
    <3>1. ~trained /\ next_seq' = next_seq
      BY <2>3 DEF TrainFitted
    <3> QED  BY <3>1, Zenon DEF Unstamped
  <2> QED  BY <2>1, <2>2, <2>3
<1>2. CASE \E id \in Ids, v \in Vectors \cup {WrongDim} : Insert(id, v)
  BY <1>2 DEF Insert, InsertRefused, InsertStamped, Refuse, index, Unstamped
<1>3. CASE \E id \in Ids : Delete(id)
  BY <1>3 DEF Delete, DeleteRefused, DeleteMapped, Refuse, index, Unstamped
<1>4. CASE Retrain
  BY <1>4 DEF Retrain, RetrainRefused, RetrainEmpty, RetrainKMeansFails, RetrainPqFails,
              RetrainFitted, Refuse, index, Unstamped
<1>5. CASE \/ \E n \in 0..(NClusters + 1) : SetNProbes(n)
           \/ \E factor \in RefineFactors : SetPqRefineFactor(factor)
  BY <1>5 DEF SetNProbes, SetPqRefineFactor, Refuse, index, Unstamped
<1>6. CASE UNCHANGED vars
  BY <1>6 DEF vars, index, Unstamped
<1> QED  BY <1>1, <1>2, <1>3, <1>4, <1>5, <1>6 DEF Next

\* A sample that can be trained on is, and nothing is left of what came before.
LEMMA TrainAgain ==
  ASSUME IndexInv, Unstamped, NEW s \in Samples, ~trained, Trainable(s), Train(s)
  PROVE  /\ reply' = [call |-> "train", outcome |-> "Ok"]
         /\ trained' = TRUE
         /\ centroids' = KMeans[IF Len(s) > TrainingSampleSize
                                THEN TrainingSampleSize ELSE 0, Subsample(s)]
         /\ pq' = IF UsePq THEN s ELSE None
         /\ Entries' = {} /\ DOMAIN id_to_cluster' = {}
         /\ live_count' = 0 /\ next_seq' = 0
<1>1. Len(s) \in Nat /\ NClusters \in Nat /\ PqMinSample \in Nat
  BY LenProperties, ConfigAssumption
<1>2. ~TrainRefused(s)
  BY <1>1 DEF TrainRefused, Trainable
<1>3. TrainFitted(s)
  BY <1>2 DEF Train
<1>4. /\ pq' = IF UsePq THEN s ELSE pq
      /\ trained' = TRUE
      /\ Returns("train", "Ok")
  <2>1. ~(UsePq /\ Len(s) < PqMinSample)
    BY <1>1 DEF Trainable
  <2> QED  BY <1>3, <2>1 DEF TrainFitted, TrainOutcome
<1>5. pq = None
  BY DEF IndexInv, PqIffTrained
<1>6. /\ DOMAIN id_to_cluster = {} /\ live_count = 0 /\ next_seq = 0
      /\ \A c \in Clusters : DOMAIN inverted_lists[c] = {}
  <2>1. DOMAIN id_to_cluster = {} /\ DirectoryExact
    BY DEF IndexInv
  <2> QED  BY <2>1, FS_EmptySet DEF DirectoryExact, Unstamped
<1>7. /\ UNCHANGED <<inverted_lists, id_to_cluster, next_seq, live_count>>
      /\ centroids' = KMeans[IF Len(s) > TrainingSampleSize
                             THEN TrainingSampleSize ELSE 0, Subsample(s)]
  BY <1>3 DEF TrainFitted
<1>8. Entries' = {}
  BY <1>6, <1>7 DEF Entries, Range
<1> QED  BY <1>4, <1>5, <1>6, <1>7, <1>8 DEF Returns

-----------------------------------------------------------------------------
(* The index implements VectorStore *)

\* What the store shows of an entry: all of it but its code.
Shown(e) == [id |-> e.id, vector |-> e.vector, seq |-> e.seq]

LEMMA StoredIsShown ==
  StoredVectors = {Shown(e) : e \in Entries}
BY DEF StoredVectors, Shown

\* Re-encoding an entry is not seen from outside.
LEMMA ReencodeIsNotShown ==
  ASSUME NEW e \in Entry, NEW book
  PROVE  Shown(Reencode(e, book)) = Shown(e)
BY DEF Entry, Reencode, Shown

\* A call that leaves the lists alone leaves the store alone.
LEMMA SameListsSameStore ==
  ASSUME UNCHANGED inverted_lists
  PROVE  StoredVectors' = StoredVectors
BY DEF StoredVectors, Entries

\* A refused call maps to Keep.
LEMMA RefusedIsKeep ==
  ASSUME UNCHANGED <<trained, inverted_lists>>,
         NEW call, NEW error, Returns(call, error), error \notin {"Ok", "Duplicate"}
  PROVE  Store!Keep
BY SameListsSameStore DEF Returns, Store!Keep

\* A setter, and a retrain that keeps everything, map to Keep.
LEMMA QuietIsKeep ==
  ASSUME trained' = trained, StoredVectors' = StoredVectors,
         NEW call \in {"retrain", "set_n_probes", "set_pq_refine_factor"},
         NEW outcome, Returns(call, outcome), outcome # "Duplicate"
  PROVE  Store!Keep
BY DEF Returns, Store!Keep

-----------------------------------------------------------------------------

LEMMA InitRefines == Init => Store!Init
<1> SUFFICES ASSUME Init PROVE Store!Init
  OBVIOUS
<1>1. \A c \in Clusters : Range(inverted_lists[c]) = {}
  BY DEF Init, Range
<1>2. Entries = {}
  BY <1>1 DEF Entries
<1>3. StoredVectors = {}
  BY <1>2 DEF StoredVectors
<1> QED  BY <1>3 DEF Init, Store!Init

LEMMA TrainRefines ==
  ASSUME NEW sample \in Samples, Train(sample)
  PROVE  Store!Next
<1>1. CASE TrainRefused(sample)
  <2>1. UNCHANGED <<trained, inverted_lists>>
    BY <1>1 DEF TrainRefused, Refuse, index
  <2>2. Returns("train", "InvalidConfig") \/ Returns("train", "DimensionMismatch")
    BY <1>1 DEF TrainRefused, Refuse
  <2> QED  BY <2>1, <2>2, RefusedIsKeep DEF Store!Next
<1>2. CASE TrainFitted(sample)
  <2>1. ~trained /\ inverted_lists' = inverted_lists
    BY <1>2 DEF TrainFitted
  <2>2. CASE Returns("train", "InvalidConfig") /\ UNCHANGED <<trained, pq>>
    BY <2>1, <2>2, RefusedIsKeep DEF Store!Next
  <2>3. CASE trained' = TRUE /\ Returns("train", "Ok")
    BY <2>1, <2>3, SameListsSameStore DEF Returns, Store!Next, Store!Train, Store!Returns
  <2> QED  BY <1>2, <2>2, <2>3 DEF TrainFitted, TrainOutcome
<1> QED  BY <1>1, <1>2 DEF Train

LEMMA InsertRefines ==
  ASSUME IndexInv, NEW id \in Ids, NEW v \in Vectors \cup {WrongDim}, Insert(id, v)
  PROVE  Store!Next
<1>0. TypeOK
  BY DEF IndexInv
<1>1. CASE InsertRefused(id, v)
  <2>1. UNCHANGED <<trained, inverted_lists>>
    BY <1>1 DEF InsertRefused, Refuse, index
  <2>2. CASE Returns("insert", "InvalidConfig") \/ Returns("insert", "DimensionMismatch")
    BY <2>1, <2>2, RefusedIsKeep DEF Store!Next
  <2>3. CASE id \in DOMAIN id_to_cluster /\ Returns("insert", "Duplicate")
    <3>1. id_to_cluster[id] \in Clusters
      BY <1>0, <2>3 DEF TypeOK
    <3>2. PICK p \in DOMAIN inverted_lists[id_to_cluster[id]] : TRUE
      BY <2>3 DEF IndexInv, DirectoryExact
    <3>3. Entries # {}
      BY <1>0, <3>1, <3>2, ListEntry
    <3>4. StoredVectors # {}
      BY <3>3 DEF StoredVectors
    <3> QED  BY <2>1, <2>3, <3>4, SameListsSameStore DEF Returns, Store!Next, Store!Keep
  <2> QED  BY <1>1, <2>2, <2>3 DEF InsertRefused, Refuse
<1>2. CASE InsertStamped(id, v)
  <2>1. /\ trained /\ trained' = trained
        /\ v \in Vectors /\ id \notin DOMAIN id_to_cluster
        /\ next_seq + 1 <= MaxSeq
    BY <1>2 DEF InsertStamped
  <2>2. CASE Returns("insert", "QuantizeError") /\ UNCHANGED inverted_lists
    BY <2>1, <2>2, RefusedIsKeep DEF Store!Next
  <2>3. CASE ~(Returns("insert", "QuantizeError") /\ UNCHANGED inverted_lists)
    <3> DEFINE k == AssignToCluster(centroids, v)
               entry == NewEntry(id, v)
    <3>1. /\ inverted_lists' = [inverted_lists EXCEPT ![k] = Append(inverted_lists[k], entry)]
          /\ Returns("insert", "Ok")
      BY <1>2, <2>3 DEF InsertStamped
    <3>2. k \in Clusters
      BY <2>1, AssignIsFirstNearest DEF IndexInv
    <3>3. Shown(entry) = [id |-> id, vector |-> v, seq |-> next_seq]
      BY DEF NewEntry, Shown
    <3> HIDE DEF k, entry
    <3>4. Range(inverted_lists'[k]) = Range(inverted_lists[k]) \cup {entry}
      <4>1. /\ inverted_lists[k] \in Seq(Entry)
            /\ inverted_lists'[k] = Append(inverted_lists[k], entry)
            /\ DOMAIN inverted_lists[k] = 1..Len(inverted_lists[k])
            /\ Len(inverted_lists[k]) \in Nat
        BY <1>0, <3>1, <3>2, ListEntry DEF TypeOK
      <4> DEFINE s == inverted_lists[k]
                 t == Append(s, entry)
      <4>2. /\ DOMAIN t = 1..(Len(s) + 1)
            /\ \A p \in 1..Len(s) : t[p] = s[p]
            /\ t[Len(s) + 1] = entry
        BY <4>1
      <4>3. \A x \in Range(t) : x \in Range(s) \cup {entry}
        <5> HIDE DEF t
        <5> QED  BY <4>1, <4>2 DEF Range
      <4>4. \A x \in Range(s) \cup {entry} : x \in Range(t)
        <5>1. Len(s) + 1 \in DOMAIN t /\ \A p \in 1..Len(s) : p \in DOMAIN t
          BY <4>1, <4>2
        <5> HIDE DEF t
        <5> QED  BY <4>1, <4>2, <5>1 DEF Range
      <4> QED  BY <4>1, <4>3, <4>4
    <3>5. \A c \in Clusters : c # k => inverted_lists'[c] = inverted_lists[c]
      BY <1>0, <3>1 DEF TypeOK
    <3>6. Entries' = Entries \cup {entry}
      BY <3>2, <3>4, <3>5 DEF Entries
    <3>7. StoredVectors' = StoredVectors \cup {Shown(entry)}
      BY <3>6, StoredIsShown DEF StoredVectors, Shown
    <3>8. ~Store!Holds(id)
      BY <2>1, EntriesFacts DEF Store!Holds, StoredVectors
    <3>9. \A e \in StoredVectors : e.seq < next_seq
      BY EntriesFacts DEF StoredVectors
    <3>10. next_seq \in Stamps
      BY <1>0, <2>1, ConfigAssumption DEF TypeOK, Stamps
    <3>11. Store!Insert(id, v)
      BY <2>1, <3>1, <3>3, <3>7, <3>8, <3>9, <3>10
         DEF Returns, Store!Insert, Store!Returns
    <3> QED  BY <2>1, <3>11 DEF Store!Next
  <2> QED  BY <2>2, <2>3
<1> QED  BY <1>1, <1>2 DEF Insert

LEMMA DeleteRefines ==
  ASSUME IndexInv, NEW id \in Ids, Delete(id)
  PROVE  Store!Next
<1>0. TypeOK
  BY DEF IndexInv
<1>1. CASE DeleteRefused(id)
  <2>1. UNCHANGED <<trained, inverted_lists>> /\ Returns("delete", "NotFound")
    BY <1>1 DEF DeleteRefused, Refuse, index
  <2> QED  BY <2>1, RefusedIsKeep DEF Store!Next
<1>2. CASE DeleteMapped(id)
  <2> DEFINE k == id_to_cluster[id]
             L == inverted_lists[k]
             positions == {p \in DOMAIN L : L[p].id = id}
             pos == CHOOSE p \in positions : \A q \in positions : p <= q
  <2>1. id \in DOMAIN id_to_cluster /\ trained' = trained
    BY <1>2 DEF DeleteMapped
  <2>2. k \in Clusters /\ L \in Seq(Entry) /\ DOMAIN L = 1..Len(L) /\ Len(L) \in Nat
    BY <1>0, <2>1, ListEntry DEF TypeOK
  <2>3. pos \in positions
    <3>1. \E p \in DOMAIN L : L[p].id = id
      BY <2>1 DEF IndexInv, DirectoryExact
    <3>2. positions \in SUBSET Nat
      BY <2>2, LenProperties
    <3>3. positions # {}
      BY <3>1
    <3> HIDE DEF positions
    <3> QED  BY <3>2, <3>3, LeastNatural
  <2>4. /\ inverted_lists' = [inverted_lists EXCEPT ![k] = SwapRemove(L, pos)]
        /\ Returns("delete", "Ok")
    BY <1>2, <2>3 DEF DeleteMapped
  <2> HIDE DEF pos
  <2>5. pos \in 1..Len(L) /\ L[pos].id = id
    BY <2>2, <2>3
  <2> HIDE DEF positions
  <2>6. L[pos] \in Entries
    BY <1>0, <2>2, <2>5, ListEntry
  <2>7. \A c \in Clusters : c # k => inverted_lists'[c] = inverted_lists[c]
    BY <1>0, <2>4 DEF TypeOK
  <2>8. Range(inverted_lists'[k]) = Range(L) \ {L[pos]}
    <3> DEFINE r == SwapRemove(L, pos)
    <3>1. inverted_lists'[k] = r
      BY <1>0, <2>2, <2>4 DEF TypeOK
    <3>2. \A q \in DOMAIN L : L[q].id = id => q = pos
      BY <2>2, <2>5 DEF IndexInv, DirectoryExact
    <3> HIDE DEF L
    <3>3. /\ \A p \in DOMAIN r : /\ FormerPosition(L, pos, p) \in 1..Len(L)
                                 /\ FormerPosition(L, pos, p) # pos
                                 /\ r[p] = L[FormerPosition(L, pos, p)]
          /\ \A q \in 1..Len(L) : q # pos =>
               \E p \in DOMAIN r : FormerPosition(L, pos, p) = q
      BY <2>2, <2>5, SwapRemoveKeepsTheRest
    <3> HIDE DEF r
    <3>4. \A x \in Range(r) : x \in Range(L) \ {L[pos]}
      BY <2>2, <2>5, <3>2, <3>3 DEF Range
    <3>5. \A x \in Range(L) \ {L[pos]} : x \in Range(r)
      BY <2>2, <3>3 DEF Range
    <3> QED  BY <3>1, <3>4, <3>5
  <2>9. \A c \in Clusters : c # k => L[pos] \notin Range(inverted_lists[c])
    BY <2>2, <2>5 DEF IndexInv, DirectoryExact, Range
  <2>10. Entries' = Entries \ {L[pos]}
    <3> HIDE DEF k, L
    <3>1. \A e \in Entries' : e \in Entries \ {L[pos]}
      BY <2>2, <2>7, <2>8, <2>9 DEF Entries, L
    <3>2. \A e \in Entries \ {L[pos]} : e \in Entries'
      BY <2>2, <2>7, <2>8 DEF Entries, L
    <3> QED  BY <3>1, <3>2
  <2>11. \A e \in Entries : e.id = id <=> e = L[pos]
    BY <2>5, <2>6, EntriesFacts
  <2>12. StoredVectors' = {e \in StoredVectors : e.id # id}
    <3> HIDE DEF L
    <3>1. StoredVectors' = {Shown(e) : e \in Entries \ {L[pos]}}
      BY <2>10 DEF StoredVectors, Shown
    <3>2. \A e : Shown(e).id = e.id
      BY DEF Shown
    <3>3. \A x \in StoredVectors' : x \in StoredVectors /\ x.id # id
      BY <2>11, <3>1, <3>2, StoredIsShown
    <3>4. \A x \in StoredVectors : x.id # id => x \in StoredVectors'
      BY <2>11, <3>1, <3>2, StoredIsShown
    <3> QED  BY <3>3, <3>4
  <2>13. Store!Holds(id)
    <3>1. Shown(L[pos]) \in StoredVectors
      BY <2>6, StoredIsShown
    <3>2. Shown(L[pos]).id = id
      BY <2>5 DEF Shown
    <3> QED  BY <3>1, <3>2 DEF Store!Holds
  <2>14. Store!Delete(id)
    BY <2>1, <2>4, <2>12, <2>13 DEF Returns, Store!Delete, Store!Returns
  <2> QED  BY <2>14 DEF Store!Next
<1> QED  BY <1>1, <1>2 DEF Delete

\* What the store keeps of a retrain that put back the first n entries.
LEMMA PutBackShown ==
  ASSUME IndexInv, NEW n \in 0..Len(Snapshot),
         Entries' = Reencoded(n, pq')
  PROVE  StoredVectors' = {Shown(Snapshot[i]) : i \in 1..n}
<1>1. n \in Nat /\ \A i \in 1..n : i \in 1..Len(Snapshot)
  BY SnapshotFacts
<1>2. \A i \in 1..n : Shown(Reencode(Snapshot[i], pq')) = Shown(Snapshot[i])
  BY <1>1, SnapshotFacts, EntriesFacts, ReencodeIsNotShown
<1>3. StoredVectors' = {Shown(e) : e \in Reencoded(n, pq')}
  BY DEF StoredVectors, Shown
<1>4. Reencoded(n, pq') = {Reencode(Snapshot[i], pq') : i \in 1..n}
  BY DEF Reencoded
<1> QED  BY <1>2, <1>3, <1>4

\* A retrain that puts everything back is not seen; one that stops short keeps
\* what was stamped before the first entry it dropped.
LEMMA PutBackRefines ==
  ASSUME IndexInv, trained, trained' = trained,
         NEW n \in 0..Len(Snapshot),
         Entries' = Reencoded(n, pq'),
         NEW outcome, Returns("retrain", outcome), outcome # "Duplicate",
         n < Len(Snapshot) => outcome # "Ok"
  PROVE  Store!Next
<1>1. /\ Len(Snapshot) \in Nat /\ n \in Nat
      /\ \A i \in 1..n : i \in 1..Len(Snapshot)
  BY SnapshotFacts
<1>2. StoredVectors' = {Shown(Snapshot[i]) : i \in 1..n}
  BY PutBackShown
<1>3. StoredVectors = {Shown(Snapshot[i]) : i \in 1..Len(Snapshot)}
  BY SnapshotFacts, StoredIsShown
<1>4. CASE n = Len(Snapshot)
  <2>1. StoredVectors' = StoredVectors
    BY <1>2, <1>3, <1>4
  <2> QED  BY <2>1, QuietIsKeep DEF Store!Next
<1>5. CASE n < Len(Snapshot)
  <2> DEFINE cut == Snapshot[n + 1].seq
  <2>1. n + 1 \in 1..Len(Snapshot)
    BY <1>1, <1>5
  <2>2. cut \in Stamps
    BY <2>1, SnapshotFacts, EntriesFacts DEF Entry
  <2>3. \A i \in 1..Len(Snapshot) : Snapshot[i].seq < cut <=> i \in 1..n
    <3> SUFFICES ASSUME NEW i \in 1..Len(Snapshot)
                 PROVE  Snapshot[i].seq < cut <=> i \in 1..n
      OBVIOUS
    <3>1. Snapshot[i].seq \in Nat /\ cut \in Nat
      BY <2>1, SnapshotFacts, EntriesFacts
    <3>2. CASE i \in 1..n
      <4>1. i < n + 1
        BY <1>1, <3>2
      <4> QED  BY <2>1, <3>2, <4>1, SnapshotFacts
    <3>3. CASE i = n + 1
      <4>1. i \notin 1..n
        BY <1>1, <3>3
      <4> QED  BY <3>1, <3>3, <4>1
    <3>4. CASE i > n + 1
      <4>1. i \notin 1..n /\ n + 1 < i
        BY <1>1, <3>4
      <4>2. cut < Snapshot[i].seq
        BY <2>1, <4>1, SnapshotFacts
      <4> HIDE DEF cut
      <4> QED  BY <3>1, <4>1, <4>2
    <3> QED  BY <1>1, <3>2, <3>3, <3>4
  <2> HIDE DEF cut
  <2>4. \A e : Shown(e).seq = e.seq
    BY DEF Shown
  <2>5. StoredVectors' = {e \in StoredVectors : e.seq < cut}
    <3>1. \A x \in StoredVectors' : x \in StoredVectors /\ x.seq < cut
      BY <1>1, <1>2, <1>3, <2>3, <2>4
    <3>2. \A x \in StoredVectors : x.seq < cut => x \in StoredVectors'
      BY <1>2, <1>3, <2>3, <2>4
    <3> QED  BY <3>1, <3>2
  <2>6. Store!LoseFrom(cut)
    BY <1>5, <2>5 DEF Returns, Store!LoseFrom
  <2> QED  BY <2>2, <2>6 DEF Store!Next
<1> QED  BY <1>1, <1>4, <1>5

LEMMA RetrainRefines ==
  ASSUME IndexInv, Retrain
  PROVE  Store!Next
<1>0. TypeOK /\ (trained => centroids \in [Clusters -> Points])
  BY DEF IndexInv
<1>1. CASE RetrainRefused
  <2>1. UNCHANGED <<trained, inverted_lists>> /\ Returns("retrain", "InvalidConfig")
    BY <1>1 DEF RetrainRefused, Refuse, index
  <2> QED  BY <2>1, RefusedIsKeep DEF Store!Next
<1>2. CASE RetrainEmpty
  <2>1. UNCHANGED <<trained, inverted_lists>> /\ Returns("retrain", "Ok")
    BY <1>2 DEF RetrainEmpty, Refuse, index
  <2> QED  BY <2>1, SameListsSameStore, QuietIsKeep DEF Store!Next
<1>3. 0 \in 0..Len(Snapshot) /\ Len(Snapshot) \in Nat
  BY SnapshotFacts
<1>4. ASSUME live_count # 0
      PROVE  /\ KMeans[0, RetrainSet] \in [Clusters -> Points]
             /\ RetrainSet # None
             /\ Len(RetrainSet) >= PqMinSample => RetrainSet \in Codebook
  BY <1>4, RetrainSetTrains
\* In the cases left, what the lists hold is the prefix that was put back.
<1>5. ASSUME NEW n \in 0..Len(Snapshot), NEW cents \in [Clusters -> Points],
             NEW book \in {None} \cup Codebook, book = None <=> pq = None,
             PutBack(n, cents, book), next_seq' = next_seq
      PROVE  Entries' = Reencoded(n, book)
  BY <1>5, PutBackRestores
<1>6. CASE RetrainKMeansFails
  <2>1. /\ trained /\ trained' = trained /\ next_seq' = next_seq /\ pq' = pq
        /\ PutBack(0, centroids, pq) /\ Returns("retrain", "InvalidConfig")
    BY <1>6 DEF RetrainKMeansFails
  <2>2. Entries' = Reencoded(0, pq)
    BY <1>0, <1>3, <1>5, <2>1 DEF TypeOK
  <2> QED  BY <1>3, <2>1, <2>2, PutBackRefines
<1>7. CASE RetrainPqFails
  <2>1. /\ trained /\ trained' = trained /\ next_seq' = next_seq /\ pq' = pq
        /\ live_count # 0 /\ Returns("retrain", "InvalidConfig")
        /\ PutBack(0, KMeans[0, RetrainSet], pq)
    BY <1>7 DEF RetrainPqFails
  <2>2. Entries' = Reencoded(0, pq)
    BY <1>0, <1>3, <1>4, <1>5, <2>1 DEF TypeOK
  <2> QED  BY <1>3, <2>1, <2>2, PutBackRefines
<1>8. CASE RetrainFitted
  <2> DEFINE cents == KMeans[0, RetrainSet]
             book == IF UsePq THEN RetrainSet ELSE pq
  <2>1. /\ trained /\ trained' = trained /\ next_seq' = next_seq
        /\ live_count # 0 /\ centroids' = cents /\ pq' = book
        /\ UsePq => Len(RetrainSet) >= PqMinSample
    BY <1>8 DEF RetrainFitted
  <2>2. cents \in [Clusters -> Points]
    BY <1>4, <2>1
  <2>3. book \in {None} \cup Codebook /\ (book = None <=> pq = None)
    <3>1. pq # None <=> UsePq
      BY <2>1 DEF IndexInv, PqIffTrained
    <3>2. CASE UsePq
      BY <1>4, <2>1, <3>1, <3>2
    <3>3. CASE ~UsePq
      BY <1>0, <3>3 DEF TypeOK
    <3> QED  BY <3>2, <3>3
  <2>4. CASE PutBack(Len(Snapshot), cents, book) /\ Returns("retrain", "Ok")
    <3>1. Len(Snapshot) \in 0..Len(Snapshot)
      BY <1>3
    <3> HIDE DEF cents, book
    <3>2. Entries' = Reencoded(Len(Snapshot), pq')
      BY <1>5, <2>1, <2>2, <2>3, <2>4, <3>1
    <3> QED  BY <1>3, <2>1, <2>4, <3>1, <3>2, PutBackRefines
  <2>5. CASE /\ \E n \in 0..(Len(Snapshot) - 1) : PutBack(n, cents, book)
             /\ Returns("retrain", "QuantizeError")
    <3> HIDE DEF cents, book
    <3>1. PICK n \in 0..(Len(Snapshot) - 1) : PutBack(n, cents, book)
      BY <2>5
    <3>2. n \in 0..Len(Snapshot)
      BY <1>3
    <3>3. Entries' = Reencoded(n, pq')
      BY <1>5, <2>1, <2>2, <2>3, <3>1, <3>2
    <3> QED  BY <2>1, <2>5, <3>2, <3>3, PutBackRefines
  <2>6. \/ PutBack(Len(Snapshot), centroids', pq') /\ Returns("retrain", "Ok")
        \/ /\ \E n \in 0..(Len(Snapshot) - 1) : PutBack(n, centroids', pq')
           /\ Returns("retrain", "QuantizeError")
    BY <1>8, Zenon DEF RetrainFitted
  <2> HIDE DEF cents, book
  <2> QED  BY <2>1, <2>4, <2>5, <2>6
<1> QED  BY <1>1, <1>2, <1>6, <1>7, <1>8 DEF Retrain

LEMMA SettersRefine ==
  ASSUME \/ \E n \in 0..(NClusters + 1) : SetNProbes(n)
         \/ \E factor \in RefineFactors : SetPqRefineFactor(factor)
  PROVE  Store!Next
<1>1. UNCHANGED <<trained, inverted_lists>>
  BY DEF SetNProbes, SetPqRefineFactor, Refuse, index
<1>2. \/ Returns("set_n_probes", "InvalidConfig")
      \/ Returns("set_n_probes", "Ok")
      \/ Returns("set_pq_refine_factor", "Ok")
  BY DEF SetNProbes, SetPqRefineFactor, Refuse
<1>3. CASE Returns("set_n_probes", "InvalidConfig")
  BY <1>1, <1>3, RefusedIsKeep DEF Store!Next
<1>4. CASE Returns("set_n_probes", "Ok") \/ Returns("set_pq_refine_factor", "Ok")
  BY <1>1, <1>4, SameListsSameStore, QuietIsKeep DEF Store!Next
<1> QED  BY <1>2, <1>3, <1>4

LEMMA NextRefines ==
  IndexInv /\ [Next]_vars => [Store!Next]_<<trained, StoredVectors, reply>>
<1> SUFFICES ASSUME IndexInv, [Next]_vars
             PROVE  [Store!Next]_<<trained, StoredVectors, reply>>
  OBVIOUS
<1>1. ASSUME NEW sample \in Samples, Train(sample)
      PROVE  Store!Next
  BY <1>1, TrainRefines
<1>2. ASSUME NEW id \in Ids, NEW v \in Vectors \cup {WrongDim}, Insert(id, v)
      PROVE  Store!Next
  BY <1>2, InsertRefines
<1>3. ASSUME NEW id \in Ids, Delete(id)
      PROVE  Store!Next
  BY <1>3, DeleteRefines
<1>4. CASE Retrain
  BY <1>4, RetrainRefines
<1>5. CASE \/ \E n \in 0..(NClusters + 1) : SetNProbes(n)
           \/ \E factor \in RefineFactors : SetPqRefineFactor(factor)
  BY <1>5, SettersRefine
<1>6. CASE UNCHANGED vars
  BY <1>6, SameListsSameStore DEF vars, index
<1> QED  BY <1>1, <1>2, <1>3, <1>4, <1>5, <1>6 DEF Next

-----------------------------------------------------------------------------
(* The theorems *)

\* Every behaviour of the index keeps the inductive invariant.
THEOREM IndexInvariant == Spec => []IndexInv
BY InitHolds, NextKeeps, PTL DEF Spec

\* Every field keeps its type (index.rs, all calls).
THEOREM TypeCorrect == Spec => []TypeOK
<1>1. IndexInv => TypeOK
  BY DEF IndexInv
<1> QED  BY <1>1, IndexInvariant, PTL

\* The id map, the inverted lists and the count agree after every call, whatever
\* failed half-way (index.rs insert_inner, delete_inner, retrain).
THEOREM DirectoryCorrect == Spec => []DirectoryExact
<1>1. IndexInv => DirectoryExact
  BY DEF IndexInv
<1> QED  BY <1>1, IndexInvariant, PTL

\* Live entries never share a stamp (index.rs next_seq).
THEOREM StampsCorrect == Spec => []StampsDistinct
<1>1. IndexInv => StampsDistinct
  BY DEF IndexInv
<1> QED  BY <1>1, IndexInvariant, PTL

\* Every entry is in the list of the first of its nearest centroids (index.rs
\* insert_inner, retrain; assign.rs).
THEOREM PlacementCorrect == Spec => []NearestPlacement
<1>1. IndexInv => NearestPlacement
  BY DEF IndexInv
<1> QED  BY <1>1, IndexInvariant, PTL

\* Every code is current: encoded from its entry's vector through the codebook
\* the index has now (index.rs insert_inner, retrain).
THEOREM CodesCorrect == Spec => []CodesCurrent
<1>1. IndexInv => CodesCurrent
  BY DEF IndexInv
<1> QED  BY <1>1, IndexInvariant, PTL

\* There is a codebook exactly when PQ is on and the index is trained
\* (index.rs train, retrain).
THEOREM PqCorrect == Spec => []PqIffTrained
<1>1. IndexInv => PqIffTrained
  BY DEF IndexInv
<1> QED  BY <1>1, IndexInvariant, PTL

\* A retrain right after a successful one changes no field, however swap_remove
\* and earlier layouts had left the lists (index.rs retrain).
THEOREM RetrainIdempotent == Spec => RetrainIsIdempotent
<1>1. Init => Rebuilt
  BY DEF Init, Rebuilt
<1>2. IndexInv /\ Rebuilt /\ [Next]_vars => Rebuilt'
  BY RebuiltKept
<1>3. IndexInv /\ Rebuilt /\ [Next]_vars
        => [ /\ Retrain
             /\ reply = [call |-> "retrain", outcome |-> "Ok"]
             /\ reply'.outcome = "Ok"
             => UNCHANGED index ]_vars
  BY RetrainAgain
<1> QED  BY <1>1, <1>2, <1>3, IndexInvariant, PTL DEF Spec, RetrainIsIdempotent

\* Training can be tried again, and then leaves the index a first attempt would
\* have made, whatever earlier ones left behind (index.rs train).
THEOREM TrainRepeats == Spec => TrainForgetsFailures
<1>1. Init => Unstamped
  BY DEF Init, Unstamped
<1>2. IndexInv /\ Unstamped /\ [Next]_vars => Unstamped'
  BY UnstampedKept
<1>3. IndexInv /\ Unstamped /\ [Next]_vars
        => [ \A s \in Samples : ~trained /\ Trainable(s) /\ Train(s) =>
               /\ reply' = [call |-> "train", outcome |-> "Ok"]
               /\ trained' = TRUE
               /\ centroids' = KMeans[IF Len(s) > TrainingSampleSize
                                      THEN TrainingSampleSize ELSE 0, Subsample(s)]
               /\ pq' = IF UsePq THEN s ELSE None
               /\ Entries' = {} /\ DOMAIN id_to_cluster' = {}
               /\ live_count' = 0 /\ next_seq' = 0 ]_vars
  BY TrainAgain
<1> QED  BY <1>1, <1>2, <1>3, IndexInvariant, PTL DEF Spec, TrainForgetsFailures

\* Seen from outside, the index is a store of stamped vectors that only insert,
\* delete and a failed retrain change (index.rs, all calls).
THEOREM IndexImplementsStore == Spec => ImplementsVectorStore
BY InitRefines, NextRefines, IndexInvariant, PTL
   DEF Spec, ImplementsVectorStore, Store!Spec, Store!storeVars
=============================================================================
