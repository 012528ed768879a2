----------------------------- MODULE SharedLemmas -----------------------------
(***************************************************************************)
(* What the proofs of several modules need about natural numbers, finite   *)
(* sets, sums over them and the selection of TopK.                         *)
(***************************************************************************)
EXTENDS TopK, Functions, FiniteSetTheorems, SequenceTheorems, TLAPS

\* Every non-empty set of naturals has a least element.
LEMMA LeastNatural ==
  ASSUME NEW T \in SUBSET Nat, T # {}
  PROVE  \E m \in T : \A n \in T : m <= n
<1>1. PICK m \in T : \A n \in T : <<n, m>> \notin OpToRel(<, Nat)
  BY NatLessThanWellFounded, WFMin
<1>2. OpToRel(<, Nat) = {pair \in Nat \X Nat : pair[1] < pair[2]}
  BY Zenon DEF OpToRel
<1>3. \A n \in T : ~(n < m)
  BY <1>1, <1>2, Zenon
<1> QED  BY <1>3

\* Induction up to a bound, the property given as the set of the numbers it
\* holds of.
LEMMA UpTo ==
  ASSUME NEW len \in Nat, NEW good, 0 \in good,
         \A m \in 1..len : m - 1 \in good => m \in good
  PROVE  \A m \in 0..len : m \in good
<1> DEFINE bad == {m \in 0..len : m \notin good}
<1> SUFFICES ASSUME bad # {} PROVE FALSE
  OBVIOUS
<1>1. PICK m \in bad : \A l \in bad : m <= l
  <2>1. bad \in SUBSET Nat
    OBVIOUS
  <2> HIDE DEF bad
  <2> QED  BY <2>1, LeastNatural
<1>2. m \in 1..len /\ m - 1 \in 0..len /\ ~(m <= m - 1) /\ m \notin good
  OBVIOUS
<1>3. m - 1 \notin bad
  <2> HIDE DEF bad
  <2> QED  BY <1>1, <1>2
<1> QED  BY <1>2, <1>3

\* h holds the start and what each of len steps makes of the one before.
Computed(h, D, start, len, step) ==
  /\ h \in [0..len -> D]
  /\ h[0] = start
  /\ \A n \in 1..len : h[n] = step[<<h[n - 1], n>>]

\* What is computed step by step from a start exists after every step.
LEMMA StepByStep ==
  ASSUME NEW D, NEW start \in D, NEW len \in Nat,
         NEW step \in [D \X (1..len) -> D]
  PROVE  \E h : Computed(h, D, start, len, step)
<1> DEFINE run(m, h) == /\ h \in [0..m -> D]
                        /\ h[0] = start
                        /\ \A n \in 1..m : h[n] = step[<<h[n - 1], n>>]
           good == {m \in 0..len : \E h : run(m, h)}
<1>1. 0 \in good
  <2>1. run(0, [n \in 0..0 |-> start])
    OBVIOUS
  <2> HIDE DEF run
  <2> QED  BY <2>1
<1>2. ASSUME NEW m \in 1..len, m - 1 \in good
      PROVE  m \in good
  <2>1. PICK h : run(m - 1, h)
    BY <1>2
  <2> DEFINE g == [n \in 0..m |-> IF n = m THEN step[<<h[m - 1], m>>] ELSE h[n]]
  <2>2. h[m - 1] \in D /\ step[<<h[m - 1], m>>] \in D
    BY <2>1
  <2>3. g \in [0..m -> D] /\ g[0] = start
    BY <2>1, <2>2
  <2>4. ASSUME NEW n \in 1..m
        PROVE  g[n] = step[<<g[n - 1], n>>]
    <3>1. g[n - 1] = h[n - 1] /\ g[n] = IF n = m THEN step[<<h[m - 1], m>>] ELSE h[n]
      OBVIOUS
    <3>2. n # m => h[n] = step[<<h[n - 1], n>>]
      BY <2>1
    <3> HIDE DEF g, run
    <3> QED  BY <3>1, <3>2
  <2>5. run(m, g)
    <3> HIDE DEF g
    <3> QED  BY <2>3, <2>4
  <2> HIDE DEF run
  <2> QED  BY <2>5
<1>3. len \in good
  <2> HIDE DEF good
  <2> QED  BY <1>1, <1>2, UpTo
<1> QED  BY <1>3 DEF Computed

\* Numbering the elements of a finite set up to their number without repetition
\* leaves no number out.
LEMMA InjectionIsOnto ==
  ASSUME NEW S, IsFiniteSet(S), NEW f \in [S -> 1..Cardinality(S)],
         \A x, y \in S : f[x] = f[y] => x = y
  PROVE  \A i \in 1..Cardinality(S) : \E x \in S : f[x] = i
<1>1. Cardinality(S) \in Nat
  BY FS_CardinalityType
<1>2. IsFiniteSet(1..Cardinality(S)) /\ Cardinality(1..Cardinality(S)) = Cardinality(S)
  BY <1>1, FS_Interval
<1>3. f \in Injection(S, 1..Cardinality(S))
  BY DEF Injection, IsInjective
<1>4. f \in Surjection(S, 1..Cardinality(S))
  BY <1>2, <1>3, FS_Injection
<1> QED  BY <1>4 DEF Surjection

\* Sets with a one-to-one map between them are of one size.
LEMMA OneToOneSize ==
  ASSUME NEW S, IsFiniteSet(S), NEW T, NEW f \in [S -> T],
         \A x, y \in S : f[x] = f[y] => x = y,
         \A z \in T : \E x \in S : f[x] = z
  PROVE  IsFiniteSet(T) /\ Cardinality(T) = Cardinality(S)
<1>1. f \in Injection(S, T)
  BY DEF Injection, IsInjective
<1>2. f \in Surjection(S, T)
  BY DEF Surjection
<1> QED  BY <1>1, <1>2, FS_Surjection

-----------------------------------------------------------------------------
(* Candidates and their order *)

Scored(s) == s.dist \in Int /\ s.seq \in Int

\* Finitely many candidates, no two with the same stamp.
Rankable(S) ==
  /\ IsFiniteSet(S)
  /\ \A s \in S : Scored(s)
  /\ \A s, t \in S : s.seq = t.seq => s = t

\* Candidates with different stamps are strictly ordered (topk.rs cmp_key).
LEMMA PrecedesIsTotal ==
  ASSUME NEW s, NEW t, Scored(s), Scored(t)
  PROVE  /\ ~Precedes(s, s)
         /\ ~(Precedes(s, t) /\ Precedes(t, s))
         /\ s.seq # t.seq => Precedes(s, t) \/ Precedes(t, s)
         /\ \A u : Scored(u) /\ Precedes(s, t) /\ Precedes(t, u) => Precedes(s, u)
BY DEF Scored, Precedes

\* In a finite set the candidates before another are fewer (into_sorted_vec).
LEMMA FewerBefore ==
  ASSUME NEW S, Rankable(S), NEW s \in S, NEW t \in S, Precedes(s, t)
  PROVE  LET before(x) == {u \in S : Precedes(u, x)}
         IN  /\ Cardinality(before(s)) \in Nat
             /\ Cardinality(before(t)) \in Nat
             /\ Cardinality(before(s)) < Cardinality(before(t))
<1> DEFINE before(x) == {u \in S : Precedes(u, x)}
<1>0. IsFiniteSet(S) /\ \A u \in S : Scored(u)
  BY DEF Rankable
<1>1. before(s) \in SUBSET before(t)
  BY <1>0, PrecedesIsTotal
<1>2. s \in before(t) /\ s \notin before(s)
  BY <1>0, PrecedesIsTotal
<1>3. IsFiniteSet(before(t)) /\ IsFiniteSet(before(s))
  BY <1>0, FS_Subset
<1>4. Cardinality(before(s)) \in Nat /\ Cardinality(before(t)) \in Nat
  BY <1>3, FS_CardinalityType
<1>5. /\ Cardinality(before(s)) <= Cardinality(before(t))
      /\ Cardinality(before(s)) # Cardinality(before(t))
  <2> HIDE DEF before
  <2> QED  BY <1>1, <1>2, <1>3, FS_Subset
<1> HIDE DEF before
<1>6. QED
  <2>1. Cardinality(before(s)) < Cardinality(before(t))
    BY <1>4, <1>5
  <2> QED  BY <1>4, <2>1 DEF before

\* A heap that holds something has a worst element (topk.rs:90).
LEMMA WorstIsLast ==
  ASSUME NEW S, Rankable(S), S # {}
  PROVE  Worst(S) \in S /\ \A t \in S : t # Worst(S) => Precedes(t, Worst(S))
<1> DEFINE after(x) == {u \in S : Precedes(x, u)}
           ranks == {Cardinality(after(x)) : x \in S}
<1>0. /\ IsFiniteSet(S) /\ \A u \in S : Scored(u)
      /\ \A t, u \in S : t.seq = u.seq => t = u
  BY DEF Rankable
<1>1. \A x \in S : IsFiniteSet(after(x)) /\ Cardinality(after(x)) \in Nat
  <2> TAKE x \in S
  <2>1. IsFiniteSet(after(x))
    BY <1>0, FS_Subset
  <2> QED  BY <2>1, FS_CardinalityType
<1>2. PICK m \in ranks : \A n \in ranks : m <= n
  <2>1. ranks \in SUBSET Nat /\ ranks # {}
    <3> HIDE DEF after
    <3> QED  BY <1>1
  <2> HIDE DEF ranks
  <2> QED  BY <2>1, LeastNatural
<1>3. PICK s \in S : m = Cardinality(after(s))
  OBVIOUS
<1>4. \A t \in S : ~Precedes(s, t)
  <2> SUFFICES ASSUME NEW t \in S, Precedes(s, t)
               PROVE  FALSE
    OBVIOUS
  <2>1. after(t) \in SUBSET after(s)
    BY <1>0, PrecedesIsTotal
  <2>2. t \in after(s) /\ t \notin after(t)
    BY <1>0, PrecedesIsTotal
  <2>3. m <= Cardinality(after(t))
    <3>1. Cardinality(after(t)) \in ranks
      OBVIOUS
    <3> HIDE DEF ranks
    <3> QED  BY <1>2, <3>1
  <2> HIDE DEF after
  <2>4. /\ Cardinality(after(t)) <= Cardinality(after(s))
        /\ Cardinality(after(t)) # Cardinality(after(s))
    BY <1>1, <2>1, <2>2, FS_Subset
  <2> QED  BY <1>1, <1>3, <2>3, <2>4
<1>5. Worst(S) \in S /\ \A t \in S : ~Precedes(Worst(S), t)
  BY <1>4 DEF Worst
<1> QED  BY <1>0, <1>5, PrecedesIsTotal

\* What the selection keeps of the candidates it has seen.
KeepsTheBest(kept, seen) ==
  /\ kept \subseteq seen
  /\ \A c \in kept, other \in seen \ kept : Precedes(c, other)

\* One turn of the loop: with one more candidate seen, the heap again holds the
\* best of them, one more than before unless it was full (topk.rs:86-96).
LEMMA OfferKeepsTheBest ==
  ASSUME NEW seen, NEW entry, entry \notin seen, Rankable(seen \cup {entry}),
         NEW cap \in Nat \ {0},
         NEW kept, KeepsTheBest(kept, seen),
         Cardinality(kept) <= cap,
         Cardinality(kept) < cap => kept = seen,
         NEW next, next = Offer(kept, entry, cap)
  PROVE  /\ KeepsTheBest(next, seen \cup {entry})
         /\ Cardinality(kept) < cap => next = seen \cup {entry}
         /\ Cardinality(next) = IF Cardinality(kept) < cap THEN Cardinality(kept) + 1 ELSE cap
<1>0. /\ IsFiniteSet(seen \cup {entry}) /\ \A u \in seen \cup {entry} : Scored(u)
      /\ \A t, u \in seen \cup {entry} : t.seq = u.seq => t = u
  BY DEF Rankable
<1>1. kept \subseteq seen /\ Rankable(kept) /\ IsFiniteSet(kept) /\ Cardinality(kept) \in Nat
  BY <1>0, FS_Subset, FS_CardinalityType DEF KeepsTheBest, Rankable
<1>2. CASE Cardinality(kept) < cap
  <2>1. Offer(kept, entry, cap) = seen \cup {entry}
    BY <1>2 DEF Offer
  <2>2. Cardinality(seen \cup {entry}) = Cardinality(kept) + 1
    BY <1>1, <1>2, FS_AddElement
  <2> QED  BY <1>1, <1>2, <2>1, <2>2 DEF KeepsTheBest
<1>3. CASE Cardinality(kept) = cap
  <2> DEFINE worst == Worst(kept)
  <2>1. kept # {}
    BY <1>3, FS_EmptySet
  <2>2. worst \in kept /\ \A t \in kept : t # worst => Precedes(t, worst)
    BY <1>1, <2>1, WorstIsLast
  <2> HIDE DEF worst
  <2>3. CASE Precedes(entry, worst)
    <3> DEFINE new == (kept \ {worst}) \cup {entry}
    <3>1. Offer(kept, entry, cap) = new
      BY <1>1, <1>3, <2>3 DEF Offer, worst
    <3>2. Cardinality(new) = cap
      <4>1. IsFiniteSet(kept \ {worst}) /\ Cardinality(kept \ {worst}) = cap - 1
        BY <1>1, <1>3, <2>2, FS_RemoveElement
      <4>2. entry \notin kept \ {worst}
        BY <1>1
      <4>3. Cardinality(new) = Cardinality(kept \ {worst}) + 1
        <5> HIDE DEF worst
        <5> QED  BY <4>1, <4>2, FS_AddElement
      <4> HIDE DEF new
      <4> QED  BY <4>1, <4>3
    <3>3. ASSUME NEW c \in new, NEW other \in (seen \cup {entry}) \ new
          PROVE  Precedes(c, other)
      <4>1. other \in seen /\ (other \notin kept \/ other = worst)
        BY <3>3
      <4>2. c = entry \/ (c \in kept /\ c # worst)
        BY <3>3
      <4>3. Precedes(c, worst)
        BY <2>2, <2>3, <4>2
      <4>4. CASE other = worst
        BY <4>3, <4>4
      <4>5. CASE other \notin kept
        <5>1. Precedes(worst, other)
          BY <2>2, <4>1, <4>5 DEF KeepsTheBest
        <5>2. Scored(c) /\ Scored(worst) /\ Scored(other)
          BY <1>0, <1>1, <2>2, <4>1, <4>2
        <5> QED  BY <4>3, <5>1, <5>2, PrecedesIsTotal
      <4> QED  BY <4>1, <4>4, <4>5
    <3>4. new \subseteq seen \cup {entry}
      BY <1>1
    <3> HIDE DEF new
    <3> QED  BY <1>3, <3>1, <3>2, <3>3, <3>4 DEF KeepsTheBest
  <2>4. CASE ~Precedes(entry, worst)
    <3>1. Offer(kept, entry, cap) = kept
      BY <1>1, <1>3, <2>4 DEF Offer, worst
    <3>2. ASSUME NEW c \in kept
          PROVE  Precedes(c, entry)
      <4>1. Scored(c) /\ Scored(worst) /\ c \in seen /\ worst \in seen
        BY <1>0, <1>1, <2>2, <3>2
      <4>2. worst.seq # entry.seq /\ Scored(entry)
        BY <1>0, <4>1
      <4>3. Precedes(worst, entry)
        BY <2>4, <4>1, <4>2, PrecedesIsTotal
      <4> QED  BY <2>2, <3>2, <4>1, <4>2, <4>3, PrecedesIsTotal
    <3> QED  BY <1>1, <1>3, <3>1, <3>2 DEF KeepsTheBest
  <2> QED  BY <2>3, <2>4
<1> QED  BY <1>1, <1>2, <1>3

\* into_sorted_vec puts each candidate at the rank given by how many others of
\* the heap precede it.
LEMMA IntoSortedVecRanks ==
  ASSUME NEW S, Rankable(S)
  PROVE  /\ Cardinality(S) \in Nat
         /\ Len(IntoSortedVec(S)) = Cardinality(S)
         /\ DOMAIN IntoSortedVec(S) = 1..Cardinality(S)
         /\ \A r \in 1..Cardinality(S) :
              /\ IntoSortedVec(S)[r] \in S
              /\ Cardinality({t \in S : Precedes(t, IntoSortedVec(S)[r])}) = r - 1
<1> DEFINE n == Cardinality(S)
           before(x) == {u \in S : Precedes(u, x)}
           rank == [x \in S |-> Cardinality(before(x)) + 1]
<1>0. /\ IsFiniteSet(S) /\ \A u \in S : Scored(u)
      /\ \A x, y \in S : x.seq = y.seq => x = y
  BY DEF Rankable
<1>1. n \in Nat
  BY <1>0, FS_CardinalityType
<1>2. \A x \in S : Cardinality(before(x)) \in 0..(n - 1)
  <2> TAKE x \in S
  <2>1. before(x) \in SUBSET S /\ x \notin before(x)
    BY <1>0, PrecedesIsTotal
  <2>2. IsFiniteSet(before(x)) /\ Cardinality(before(x)) <= n /\ Cardinality(before(x)) # n
    <3> HIDE DEF before
    <3> QED  BY <1>0, <2>1, FS_Subset
  <2>3. Cardinality(before(x)) \in Nat
    BY <2>2, FS_CardinalityType
  <2> HIDE DEF before, n
  <2> QED  BY <1>1, <2>2, <2>3
<1>3. \A x \in S : rank[x] \in 1..n
  <2> HIDE DEF n, before
  <2> QED  BY <1>1, <1>2
<1>4. \A x, y \in S : rank[x] = rank[y] => x = y
  <2> SUFFICES ASSUME NEW x \in S, NEW y \in S, x # y
               PROVE  Cardinality(before(x)) + 1 # Cardinality(before(y)) + 1
    OBVIOUS
  <2>1. Scored(x) /\ Scored(y) /\ x.seq # y.seq
    BY <1>0
  <2>2. Precedes(x, y) \/ Precedes(y, x)
    BY <2>1, PrecedesIsTotal
  <2>3. CASE Precedes(x, y)
    <3>1. Cardinality(before(x)) < Cardinality(before(y))
      BY <2>3, FewerBefore
    <3> HIDE DEF before, n
    <3> QED  BY <1>1, <1>2, <3>1
  <2>4. CASE Precedes(y, x)
    <3>1. Cardinality(before(y)) < Cardinality(before(x))
      BY <2>4, FewerBefore
    <3> HIDE DEF before, n
    <3> QED  BY <1>1, <1>2, <3>1
  <2> QED  BY <2>2, <2>3, <2>4
<1>5. \A r \in 1..n : \E x \in S : rank[x] = r
  <2>1. rank \in [S -> 1..n]
    BY <1>3
  <2> HIDE DEF rank
  <2> QED  BY <1>0, <1>4, <2>1, InjectionIsOnto
<1>6. \A r \in 1..n : \E x \in S : Cardinality(before(x)) = r - 1
  <2> TAKE r \in 1..n
  <2>1. PICK x \in S : rank[x] = r
    BY <1>5
  <2>2. Cardinality(before(x)) + 1 = r
    BY <2>1
  <2> HIDE DEF before, n
  <2> QED  BY <1>1, <1>2, <2>2
<1>7. \A r \in 1..n : /\ IntoSortedVec(S)[r] \in S
                     /\ Cardinality(before(IntoSortedVec(S)[r])) = r - 1
  BY <1>6 DEF IntoSortedVec
<1>8. DOMAIN IntoSortedVec(S) = 1..n /\ Len(IntoSortedVec(S)) = n
  BY <1>1 DEF IntoSortedVec
<1> QED  BY <1>1, <1>7, <1>8

-----------------------------------------------------------------------------
(* The ranking of a selection *)

\* out lists the n least candidates of S, each at its rank.
RanksLeast(out, S, n) ==
  /\ out \in [1..n -> S]
  /\ \A r \in 1..n : Cardinality({t \in S : Precedes(t, out[r])}) = r - 1

\* A heap that keeps the best of what was seen, sorted, ranks its candidates
\* among all of them: none of those left out comes before one of the heap
\* (topk.rs:97).
LEMMA BestAreRanked ==
  ASSUME NEW S, Rankable(S), NEW kept, KeepsTheBest(kept, S)
  PROVE  RanksLeast(IntoSortedVec(kept), S, Cardinality(kept))
<1> DEFINE before(T, x) == {t \in T : Precedes(t, x)}
           out == IntoSortedVec(kept)
<1>1. /\ IsFiniteSet(S) /\ \A u \in S : Scored(u)
      /\ kept \subseteq S /\ \A c \in kept, other \in S \ kept : Precedes(c, other)
  BY DEF Rankable, KeepsTheBest
<1>2. Rankable(kept)
  BY <1>1, FS_Subset DEF Rankable
<1>3. ASSUME NEW x \in kept
      PROVE  before(S, x) = before(kept, x)
  BY <1>1, PrecedesIsTotal
<1>4. /\ Cardinality(kept) \in Nat
      /\ Len(out) = Cardinality(kept)
      /\ DOMAIN out = 1..Cardinality(kept)
      /\ \A r \in 1..Cardinality(kept) :
           out[r] \in kept /\ Cardinality(before(kept, out[r])) = r - 1
  BY <1>2, IntoSortedVecRanks
<1>5. out \in [1..Cardinality(kept) -> S]
  <2>1. out = [r \in DOMAIN out |-> out[r]]
    BY DEF IntoSortedVec
  <2> HIDE DEF out
  <2> QED  BY <1>1, <1>4, <2>1
<1>6. \A r \in 1..Cardinality(kept) : Cardinality(before(S, out[r])) = r - 1
  <2> HIDE DEF out, before
  <2> QED  BY <1>3, <1>4
<1> QED  BY <1>5, <1>6 DEF RanksLeast

\* A ranking is strictly ascending.
LEMMA RanksAscend ==
  ASSUME NEW S, Rankable(S), NEW n \in Nat, NEW out, RanksLeast(out, S, n),
         NEW r \in 1..n, NEW s \in 1..n, r < s
  PROVE  Precedes(out[r], out[s]) /\ out[r] # out[s]
<1> DEFINE before(x) == {t \in S : Precedes(t, x)}
<1>1. /\ out[r] \in S /\ out[s] \in S
      /\ Cardinality(before(out[r])) = r - 1 /\ Cardinality(before(out[s])) = s - 1
  BY DEF RanksLeast
<1>2. out[r] # out[s]
  BY <1>1
<1>3. CASE Precedes(out[s], out[r])
  <2>1. Cardinality(before(out[s])) < Cardinality(before(out[r]))
    BY <1>1, <1>3, FewerBefore
  <2> HIDE DEF before
  <2> QED  BY <1>1, <2>1
<1> QED  BY <1>1, <1>2, <1>3, PrecedesIsTotal DEF Rankable

\* A ranking leaves out no candidate with fewer than n others before it.
LEMMA RanksComplete ==
  ASSUME NEW S, Rankable(S), NEW n \in Nat, NEW out, RanksLeast(out, S, n),
         NEW c \in S, Cardinality({t \in S : Precedes(t, c)}) < n
  PROVE  /\ Cardinality({t \in S : Precedes(t, c)}) + 1 \in 1..n
         /\ out[Cardinality({t \in S : Precedes(t, c)}) + 1] = c
<1> DEFINE before(x) == {t \in S : Precedes(t, x)}
           r == Cardinality(before(c)) + 1
<1>1. Cardinality(before(c)) \in Nat
  BY FS_Subset, FS_CardinalityType DEF Rankable
<1>2. r \in 1..n
  <2> HIDE DEF before
  <2>1. Cardinality(before(c)) < n
    BY DEF before
  <2> QED  BY <1>1, <2>1
<1>3. out[r] \in S /\ Cardinality(before(out[r])) = r - 1
  <2> HIDE DEF r
  <2> QED  BY <1>2 DEF RanksLeast
<1>4. Cardinality(before(out[r])) = Cardinality(before(c))
  <2> HIDE DEF before
  <2> QED  BY <1>1, <1>3
<1>5. out[r] = c
  <2> HIDE DEF r
  <2>1. ~Precedes(out[r], c) /\ ~Precedes(c, out[r])
    <3> SUFFICES ASSUME Precedes(out[r], c) \/ Precedes(c, out[r]) PROVE FALSE
      OBVIOUS
    <3>1. \/ Cardinality(before(out[r])) < Cardinality(before(c))
          \/ Cardinality(before(c)) < Cardinality(before(out[r]))
      BY <1>3, FewerBefore
    <3> HIDE DEF before
    <3> QED  BY <1>1, <1>4, <3>1
  <2> QED  BY <1>3, <2>1, PrecedesIsTotal DEF Rankable
<1> QED  BY <1>2, <1>5

\* Two rankings of the same candidates agree.
LEMMA RanksUnique ==
  ASSUME NEW S, Rankable(S), NEW n \in Nat, NEW out, RanksLeast(out, S, n),
         NEW other, RanksLeast(other, S, n)
  PROVE  out = other
<1> DEFINE before(x) == {t \in S : Precedes(t, x)}
<1>1. ASSUME NEW r \in 1..n
      PROVE  out[r] = other[r]
  <2>1. out[r] \in S /\ Cardinality(before(out[r])) = r - 1
    BY DEF RanksLeast
  <2>2. Cardinality(before(out[r])) < n /\ Cardinality(before(out[r])) + 1 = r
    <3> HIDE DEF before
    <3> QED  BY <2>1
  <2> QED  BY <2>1, <2>2, RanksComplete
<1> QED  BY <1>1 DEF RanksLeast

\* A shorter ranking of the same candidates is the beginning of a longer one.
LEMMA RanksPrefix ==
  ASSUME NEW S, Rankable(S), NEW m \in Nat, NEW n \in Nat, m <= n,
         NEW few, RanksLeast(few, S, m), NEW many, RanksLeast(many, S, n),
         NEW r \in 1..m
  PROVE  few[r] = many[r]
<1> DEFINE before(x) == {t \in S : Precedes(t, x)}
<1>1. few[r] \in S /\ Cardinality(before(few[r])) = r - 1
  BY DEF RanksLeast
<1>2. Cardinality(before(few[r])) < n /\ Cardinality(before(few[r])) + 1 = r
  <2> HIDE DEF before
  <2> QED  BY <1>1
<1> QED  BY <1>1, <1>2, RanksComplete

\* What comes before a ranked candidate is ranked.
LEMMA RanksClosed ==
  ASSUME NEW S, Rankable(S), NEW n \in Nat, NEW out, RanksLeast(out, S, n),
         NEW r \in 1..n, NEW c \in S, Precedes(c, out[r])
  PROVE  \E s \in 1..n : out[s] = c
<1> DEFINE before(x) == {t \in S : Precedes(t, x)}
<1>1. out[r] \in S /\ Cardinality(before(out[r])) = r - 1
  BY DEF RanksLeast
<1>2. /\ Cardinality(before(c)) \in Nat
      /\ Cardinality(before(c)) < Cardinality(before(out[r]))
  BY <1>1, FewerBefore
<1>3. Cardinality(before(c)) < n
  <2> HIDE DEF before
  <2> QED  BY <1>1, <1>2
<1>4. Cardinality(before(c)) + 1 \in 1..n /\ out[Cardinality(before(c)) + 1] = c
  BY <1>3, RanksComplete
<1> HIDE DEF before
<1> QED  BY <1>4

\* The ranks at which the candidates of T are.
PlacesOf(out, T, n) == {i \in 1..n : out[i] \in T}

\* As many of the places come before a candidate's as candidates of T before it.
SameOrder(out, places, T) ==
  \A c \in T : \E i \in places :
    /\ out[i] = c
    /\ Cardinality({j \in places : j < i}) = Cardinality({t \in T : Precedes(t, c)})

\* In a ranking of all candidates those of a part are in the order of a ranking
\* of the part.
LEMMA RankingOfSome ==
  ASSUME NEW S, Rankable(S), NEW T \in SUBSET S,
         NEW all, RanksLeast(all, S, Cardinality(S)),
         NEW places, places = PlacesOf(all, T, Cardinality(S))
  PROVE  /\ Cardinality(places) = Cardinality(T)
         /\ SameOrder(all, places, T)
<1> DEFINE n == Cardinality(S)
           before(x) == {t \in S : Precedes(t, x)}
           at == [i \in places |-> all[i]]
<1>1. /\ IsFiniteSet(S) /\ n \in Nat /\ \A u \in S : Scored(u)
      /\ \A t, u \in S : t.seq = u.seq => t = u
  BY FS_CardinalityType DEF Rankable
<1>2. /\ places \in SUBSET (1..n) /\ at \in [places -> T]
      /\ \A i \in 1..n : i \in places <=> all[i] \in T
  BY DEF PlacesOf
<1>3. IsFiniteSet(1..n)
  BY <1>1, FS_Interval
<1>4. IsFiniteSet(places)
  BY <1>2, <1>3, FS_Subset
<1>5. ASSUME NEW i \in 1..n, NEW j \in 1..n
      PROVE  /\ all[i] = all[j] => i = j
             /\ i < j <=> Precedes(all[i], all[j])
  <2>1. all[i] \in S /\ all[j] \in S /\ i \in Nat /\ j \in Nat
    BY <1>1 DEF RanksLeast
  <2>2. CASE i < j
    BY <1>1, <2>1, <2>2, RanksAscend
  <2>3. CASE j < i
    <3>1. Precedes(all[j], all[i]) /\ all[j] # all[i]
      BY <1>1, <2>3, RanksAscend
    <3> QED  BY <1>1, <2>1, <2>3, <3>1, PrecedesIsTotal
  <2>4. CASE i = j
    BY <1>1, <2>1, <2>4, PrecedesIsTotal
  <2> QED  BY <2>1, <2>2, <2>3, <2>4
<1>6. ASSUME NEW c \in T
      PROVE  \E i \in places : all[i] = c
  <2>1. c \in S /\ c \notin before(c) /\ before(c) \in SUBSET S
    BY <1>1, PrecedesIsTotal
  <2>2. Cardinality(before(c)) < n
    <3> HIDE DEF before, n
    <3>1. /\ IsFiniteSet(before(c)) /\ Cardinality(before(c)) \in Nat
          /\ Cardinality(before(c)) <= n /\ (n = Cardinality(before(c)) => S = before(c))
      BY <1>1, <2>1, FS_Subset, FS_CardinalityType DEF n
    <3> QED  BY <1>1, <2>1, <3>1
  <2>3. /\ Cardinality(before(c)) + 1 \in 1..n
        /\ all[Cardinality(before(c)) + 1] = c
    BY <1>1, <2>1, <2>2, RanksComplete
  <2> HIDE DEF before, n
  <2> QED  BY <1>2, <2>3
<1>7. Cardinality(places) = Cardinality(T)
  <2>1. \A x, y \in places : at[x] = at[y] => x = y
    BY <1>2, <1>5
  <2>2. \A z \in T : \E x \in places : at[x] = z
    BY <1>6
  <2> HIDE DEF at
  <2> QED  BY <1>2, <1>4, <2>1, <2>2, OneToOneSize
<1>8. ASSUME NEW c \in T
      PROVE  \E i \in places :
               /\ all[i] = c
               /\ Cardinality({j \in places : j < i}) = Cardinality({t \in T : Precedes(t, c)})
  <2>1. PICK i \in places : all[i] = c
    BY <1>6
  <2> DEFINE sooner == {j \in places : j < i}
             nearer == {t \in T : Precedes(t, c)}
             to == [j \in sooner |-> all[j]]
  <2>2. \A j \in sooner : all[j] \in nearer
    BY <1>2, <1>5, <2>1
  <2>3. to \in [sooner -> nearer]
    <3>1. to = [j \in sooner |-> to[j]]
      OBVIOUS
    <3> HIDE DEF sooner, nearer
    <3> QED  BY <2>2
  <2>4. \A x, y \in sooner : to[x] = to[y] => x = y
    BY <1>2, <1>5
  <2>5. ASSUME NEW z \in nearer
        PROVE  \E x \in sooner : to[x] = z
    <3>1. PICK x \in places : all[x] = z
      BY <1>6
    <3>2. x < i
      BY <1>2, <1>5, <2>1, <3>1
    <3> QED  BY <3>1, <3>2
  <2>6. IsFiniteSet(sooner)
    BY <1>4, FS_Subset
  <2>7. Cardinality(nearer) = Cardinality(sooner)
    <3> HIDE DEF sooner, nearer, to
    <3> QED  BY <2>3, <2>4, <2>5, <2>6, OneToOneSize
  <2> QED  BY <2>1, <2>7
<1> QED  BY <1>7, <1>8 DEF SameOrder

\* What is selected from more candidates is rank for rank no later.
LEMMA MoreCandidatesRankNoLater ==
  ASSUME NEW S, Rankable(S), NEW T \in SUBSET S,
         NEW m \in Nat, NEW n \in Nat, NEW r \in 1..m, r \in 1..n,
         NEW few, RanksLeast(few, T, m), NEW many, RanksLeast(many, S, n)
  PROVE  ~Precedes(few[r], many[r])
<1> DEFINE before(U, x) == {t \in U : Precedes(t, x)}
<1>1. /\ few[r] \in T /\ Cardinality(before(T, few[r])) = r - 1
      /\ many[r] \in S /\ Cardinality(before(S, many[r])) = r - 1
  BY DEF RanksLeast
<1>2. IsFiniteSet(S) /\ \A u \in S : Scored(u)
  BY DEF Rankable
<1> SUFFICES ASSUME Precedes(few[r], many[r]) PROVE FALSE
  OBVIOUS
<1>3. before(T, few[r]) \cup {few[r]} \in SUBSET before(S, many[r])
  BY <1>1, <1>2, PrecedesIsTotal
<1>4. few[r] \notin before(T, few[r]) /\ IsFiniteSet(before(T, few[r]))
  BY <1>1, <1>2, FS_Subset, PrecedesIsTotal
<1>5. IsFiniteSet(before(S, many[r]))
  BY <1>2, FS_Subset
<1> HIDE DEF before
<1>6. Cardinality(before(T, few[r]) \cup {few[r]}) = r - 1 + 1
  BY <1>1, <1>4, FS_AddElement
<1>7. Cardinality(before(T, few[r]) \cup {few[r]}) <= r - 1
  BY <1>1, <1>3, <1>5, FS_Subset
<1> QED  BY <1>6, <1>7

-----------------------------------------------------------------------------
(* select_topk_indices *)

Candidates(cands) == {cands[i] : i \in 1..Len(cands)}

\* Candidates in a sequence, no two positions with the same stamp.
Selectable(cands) ==
  /\ Len(cands) \in Nat
  /\ Rankable(Candidates(cands))
  /\ \A i, j \in 1..Len(cands) : cands[i].seq = cands[j].seq => i = j

\* h[n] is the heap after n candidates.
HeapsOver(h, cands, cap) ==
  \A n \in 0..Len(cands) :
    h[n] = IF n = 0 THEN {} ELSE Offer(h[n - 1], cands[n], cap)

\* The heap after each of the candidates: the recursion SelectTopK is written
\* with has a solution.
LEMMA HeapsExist ==
  ASSUME NEW cands, NEW cap, NEW len \in Nat
  PROVE  \E h : /\ h = [n \in 0..len |-> h[n]]
                /\ \A n \in 0..len :
                     h[n] = IF n = 0 THEN {} ELSE Offer(h[n - 1], cands[n], cap)
<1> DEFINE offered == {cands[i] : i \in 1..len}
           step == [x \in (SUBSET offered) \X (1..len) |-> Offer(x[1], cands[x[2]], cap)]
<1>1. ASSUME NEW kept \in SUBSET offered, NEW n \in 1..len
      PROVE  /\ Offer(kept, cands[n], cap) \in SUBSET offered
             /\ step[<<kept, n>>] = Offer(kept, cands[n], cap)
  <2>1. cands[n] \in offered
    OBVIOUS
  <2> HIDE DEF offered
  <2> QED  BY <2>1 DEF Offer
<1>2. step \in [(SUBSET offered) \X (1..len) -> SUBSET offered]
  <2>1. \A x \in (SUBSET offered) \X (1..len) : Offer(x[1], cands[x[2]], cap) \in SUBSET offered
    <3> HIDE DEF offered, step
    <3> QED  BY <1>1
  <2> HIDE DEF offered
  <2> QED  BY <2>1
<1> HIDE DEF step, offered
<1>3. PICK h : /\ h \in [0..len -> SUBSET offered]
               /\ h[0] = {} /\ \A n \in 1..len : h[n] = step[<<h[n - 1], n>>]
  <2>1. {} \in SUBSET offered
    OBVIOUS
  <2>2. \E h : Computed(h, SUBSET offered, {}, len, step)
    BY <1>2, <2>1, StepByStep
  <2> QED  BY <2>2 DEF Computed
<1>4. ASSUME NEW n \in 0..len
      PROVE  h[n] = IF n = 0 THEN {} ELSE Offer(h[n - 1], cands[n], cap)
  <2>1. n # 0 => n \in 1..len /\ h[n - 1] \in SUBSET offered
    BY <1>3
  <2> QED  BY <1>1, <1>3, <2>1
<1>5. h = [n \in 0..len |-> h[n]]
  BY <1>3
<1> QED  BY <1>4, <1>5

\* The heap after n candidates holds the best of them, as many as it may.
LEMMA HeapsKeepTheBest ==
  ASSUME NEW cands, Selectable(cands), NEW cap \in Nat \ {0}, cap <= Len(cands),
         NEW h, HeapsOver(h, cands, cap)
  PROVE  /\ KeepsTheBest(h[Len(cands)], Candidates(cands))
         /\ Cardinality(h[Len(cands)]) = cap
<1> DEFINE len == Len(cands)
           seen(m) == {cands[i] : i \in 1..m}
           good(m) == /\ KeepsTheBest(h[m], seen(m))
                      /\ Cardinality(h[m]) = IF m < cap THEN m ELSE cap
                      /\ m <= cap => h[m] = seen(m)
           reached == {m \in 0..len : good(m)}
<1>1. /\ len \in Nat /\ IsFiniteSet(seen(len)) /\ Rankable(seen(len))
      /\ \A i, j \in 1..len : cands[i].seq = cands[j].seq => i = j
  BY DEF Selectable, Rankable, Candidates
<1>2. ASSUME NEW m \in 1..len
      PROVE  h[m] = Offer(h[m - 1], cands[m], cap)
  <2>1. m \in 0..len /\ m # 0
    BY <1>1
  <2>2. h[m] = IF m = 0 THEN {} ELSE Offer(h[m - 1], cands[m], cap)
    BY <2>1 DEF HeapsOver
  <2> QED  BY <2>1, <2>2
<1>3. h[0] = {}
  BY <1>1 DEF HeapsOver
<1>4. good(0)
  <2>1. seen(0) = {}
    OBVIOUS
  <2> HIDE DEF seen
  <2> QED  BY <1>3, <2>1, FS_EmptySet DEF KeepsTheBest
<1>5. ASSUME NEW m \in 1..len, good(m - 1)
      PROVE  good(m)
  <2> DEFINE entry == cands[m]
             kept == h[m - 1]
  <2>1. m \in Nat /\ m # 0 /\ m - 1 \in 0..len
    BY <1>1
  <2>2. seen(m) = seen(m - 1) \cup {entry}
    BY <2>1
  <2>3. entry \notin seen(m - 1)
    <3> SUFFICES ASSUME NEW j \in 1..(m - 1), cands[j] = cands[m]
                 PROVE  FALSE
      OBVIOUS
    <3>1. j \in 1..Len(cands) /\ m \in 1..Len(cands) /\ j # m
      BY <1>1, <2>1
    <3> QED  BY <1>1, <3>1
  <2>4. Rankable(seen(m))
    <3>1. seen(m) \in SUBSET seen(len)
      BY <1>1, <2>1
    <3>2. IsFiniteSet(seen(m))
      <4> HIDE DEF seen
      <4> QED  BY <1>1, <3>1, FS_Subset
    <3> HIDE DEF seen
    <3> QED  BY <1>1, <3>1, <3>2 DEF Rankable
  <2>5. /\ KeepsTheBest(kept, seen(m - 1))
        /\ Cardinality(kept) = IF m - 1 < cap THEN m - 1 ELSE cap
        /\ m - 1 <= cap => kept = seen(m - 1)
    BY <1>5
  <2>6. h[m] = Offer(kept, entry, cap)
    BY <1>2
  <2> HIDE DEF seen, entry, kept
  <2>7. Cardinality(kept) <= cap /\ (Cardinality(kept) < cap => kept = seen(m - 1))
    BY <2>1, <2>5
  <2>8. Rankable(seen(m - 1) \cup {entry}) /\ KeepsTheBest(kept, seen(m - 1))
    BY <2>2, <2>4, <2>5
  <2>9. /\ KeepsTheBest(h[m], seen(m - 1) \cup {entry})
        /\ Cardinality(kept) < cap => h[m] = seen(m - 1) \cup {entry}
        /\ Cardinality(h[m]) = IF Cardinality(kept) < cap THEN Cardinality(kept) + 1 ELSE cap
    <3> HIDE DEF good, reached
    <3>1. KeepsTheBest(h[m], seen(m - 1) \cup {entry})
      BY <2>3, <2>6, <2>7, <2>8, OfferKeepsTheBest
    <3>2. Cardinality(kept) < cap => h[m] = seen(m - 1) \cup {entry}
      BY <3>1, <2>3, <2>6, <2>7, <2>8, OfferKeepsTheBest
    <3>3. Cardinality(h[m]) = IF Cardinality(kept) < cap THEN Cardinality(kept) + 1 ELSE cap
      BY <3>1, <2>3, <2>6, <2>7, <2>8, OfferKeepsTheBest
    <3> QED  BY <3>1, <3>2, <3>3
  <2> QED  BY <2>1, <2>2, <2>5, <2>9
<1>6. ASSUME NEW m \in 1..len, m - 1 \in reached
      PROVE  m \in reached
  <2>1. good(m - 1) /\ m \in 0..len
    BY <1>1, <1>6
  <2> HIDE DEF good
  <2> QED  BY <1>5, <2>1
<1>7. good(len)
  <2>1. 0 \in reached
    <3> HIDE DEF good
    <3> QED  BY <1>1, <1>4
  <2>2. len \in 0..len
    BY <1>1
  <2>3. len \in reached
    <3> HIDE DEF reached
    <3> QED  BY <1>1, <1>6, <2>1, <2>2, UpTo
  <2> HIDE DEF good
  <2> QED  BY <2>3
<1>8. (IF len < cap THEN len ELSE cap) = cap
  BY <1>1
<1> QED  BY <1>7, <1>8 DEF Candidates

\* select_topk_indices returns the least k candidates, or all when there are
\* fewer, each at its rank among all of them (topk.rs:73-98).
LEMMA SelectTopKRanks ==
  ASSUME NEW cands, Selectable(cands), NEW k \in Nat
  PROVE  /\ Cap(cands, k) \in Nat
         /\ RanksLeast(SelectTopK(cands, k), Candidates(cands), Cap(cands, k))
<1> DEFINE cap == Cap(cands, k)
<1>1. Len(cands) \in Nat /\ Rankable(Candidates(cands))
  BY DEF Selectable
<1>2. cap \in Nat /\ cap <= Len(cands)
  BY <1>1 DEF Cap
<1>3. CASE k = 0
  <2>1. SelectTopK(cands, k) = <<>> /\ cap = 0
    BY <1>1, <1>3 DEF SelectTopK, Cap
  <2>2. RanksLeast(<<>>, Candidates(cands), 0)
    BY DEF RanksLeast
  <2> QED  BY <2>1, <2>2
<1>4. CASE k # 0
  <2> DEFINE turn(g, n) == IF n = 0 THEN {} ELSE Offer(g[n - 1], cands[n], cap)
             h == CHOOSE g : g = [n \in 0..Len(cands) |-> turn(g, n)]
  <2>1. SelectTopK(cands, k) = IntoSortedVec(h[Len(cands)])
    BY <1>4 DEF SelectTopK
  <2>2. \E g : g = [n \in 0..Len(cands) |-> turn(g, n)]
    <3>1. PICK g : /\ g = [n \in 0..Len(cands) |-> g[n]]
                   /\ \A n \in 0..Len(cands) : g[n] = turn(g, n)
      BY <1>1, HeapsExist
    <3> HIDE DEF turn
    <3>2. g = [n \in 0..Len(cands) |-> turn(g, n)]
      BY <3>1
    <3> QED  BY <3>2
  <2>3. h = [n \in 0..Len(cands) |-> turn(h, n)]
    <3> HIDE DEF turn
    <3> QED  BY <2>2, Zenon
  <2> HIDE DEF h
  <2>4. HeapsOver(h, cands, cap)
    <3>1. \A n \in 0..Len(cands) : h[n] = turn(h, n)
      <4> HIDE DEF turn
      <4> QED  BY <2>3
    <3> QED  BY <3>1 DEF HeapsOver
  <2> HIDE DEF turn
  <2>5. CASE cap # 0
    <3> HIDE DEF cap
    <3>1. cap \in Nat \ {0}
      BY <1>2, <2>5
    <3>2. KeepsTheBest(h[Len(cands)], Candidates(cands)) /\ Cardinality(h[Len(cands)]) = cap
      BY <1>2, <2>4, <3>1, HeapsKeepTheBest, Zenon
    <3>3. RanksLeast(IntoSortedVec(h[Len(cands)]), Candidates(cands), cap)
      BY <1>1, <3>2, BestAreRanked
    <3> QED  BY <1>2, <2>1, <3>3 DEF cap
  <2>6. CASE cap = 0
    <3>1. Len(cands) = 0
      BY <1>1, <1>4, <2>6 DEF Cap
    <3>2. h[Len(cands)] = {} /\ Candidates(cands) = {}
      BY <2>3, <3>1 DEF Candidates, turn
    <3>3. KeepsTheBest({}, {}) /\ Rankable({}) /\ Cardinality({}) = 0
      BY FS_EmptySet DEF KeepsTheBest, Rankable
    <3>4. RanksLeast(IntoSortedVec({}), {}, 0)
      BY <3>3, BestAreRanked
    <3> HIDE DEF cap
    <3> QED  BY <2>1, <2>6, <3>2, <3>4 DEF cap
  <2> QED  BY <2>5, <2>6
<1> QED  BY <1>2, <1>3, <1>4

-----------------------------------------------------------------------------
(* Sums over finite sets *)

\* The element a fold takes first.
First(s) == CHOOSE x \in s : TRUE

\* h sums w over the subsets of S, up to n elements, as a fold does.
FoldsUpTo(h, S, w, n) ==
  /\ h \in [SUBSET S -> Int]
  /\ \A s \in SUBSET S : Cardinality(s) <= n =>
       h[s] = IF s = {} THEN 0 ELSE w[First(s)] + h[s \ {First(s)}]

\* h sums w over the subsets of S, in any order.
Sums(h, S, w) ==
  /\ h \in [SUBSET S -> Int]
  /\ h[{}] = 0
  /\ \A s \in SUBSET S : \A x \in s : h[s] = w[x] + h[s \ {x}]

\* A subset, less one of its elements.
LEMMA SmallerSubset ==
  ASSUME NEW S, IsFiniteSet(S), NEW s \in SUBSET S, NEW x \in s
  PROVE  /\ IsFiniteSet(s)
         /\ Cardinality(s) \in Nat /\ 1 <= Cardinality(s)
         /\ Cardinality(s) <= Cardinality(S)
         /\ s \ {x} \in SUBSET S
         /\ Cardinality(s \ {x}) = Cardinality(s) - 1
<1>1. IsFiniteSet(s) /\ Cardinality(s) <= Cardinality(S)
  BY FS_Subset
<1>2. Cardinality(s) \in Nat /\ Cardinality(s) # 0
  BY <1>1, FS_CardinalityType, FS_EmptySet
<1>3. Cardinality(s \ {x}) = Cardinality(s) - 1
  BY <1>1, FS_RemoveElement
<1> QED  BY <1>1, <1>2, <1>3

LEMMA NoElements ==
  ASSUME NEW S, IsFiniteSet(S), NEW s \in SUBSET S, Cardinality(s) <= 0
  PROVE  s = {}
<1>1. IsFiniteSet(s)
  BY FS_Subset
<1> QED  BY <1>1, FS_CardinalityType, FS_EmptySet

LEMMA FirstIsOne ==
  ASSUME NEW s, s # {}
  PROVE  First(s) \in s
BY DEF First

\* A fold is defined on every finite set.
LEMMA FoldsExist ==
  ASSUME NEW S, IsFiniteSet(S), NEW w \in [S -> Int]
  PROVE  \E h : FoldsUpTo(h, S, w, Cardinality(S))
<1> DEFINE reached == {m \in 0..Cardinality(S) : \E h : FoldsUpTo(h, S, w, m)}
<1>1. Cardinality(S) \in Nat
  BY FS_CardinalityType
<1>2. 0 \in reached
  <2> DEFINE z == [s \in SUBSET S |-> 0]
  <2>1. z \in [SUBSET S -> Int]
    OBVIOUS
  <2>2. \A s \in SUBSET S : Cardinality(s) <= 0 => s = {}
    BY NoElements
  <2>3. \A s \in SUBSET S : s = {} => z[s] = 0
    OBVIOUS
  <2>4. FoldsUpTo(z, S, w, 0)
    <3> HIDE DEF z
    <3> QED  BY <2>1, <2>2, <2>3 DEF FoldsUpTo
  <2> HIDE DEF z
  <2> QED  BY <1>1, <2>4
<1>3. ASSUME NEW m \in 1..Cardinality(S), m - 1 \in reached
      PROVE  m \in reached
  <2>1. PICK h : FoldsUpTo(h, S, w, m - 1)
    BY <1>3
  <2>2. h \in [SUBSET S -> Int]
    BY <2>1 DEF FoldsUpTo
  <2> DEFINE g == [s \in SUBSET S |-> IF s = {} THEN 0 ELSE w[First(s)] + h[s \ {First(s)}]]
  <2>3. \A s \in SUBSET S : s # {} => /\ First(s) \in s /\ First(s) \in S
                                      /\ w[First(s)] \in Int
                                      /\ s \ {First(s)} \in SUBSET S
                                      /\ h[s \ {First(s)}] \in Int
    BY <2>2, FirstIsOne
  <2>4. g \in [SUBSET S -> Int]
    <3>1. \A s \in SUBSET S : s # {} => w[First(s)] + h[s \ {First(s)}] \in Int
      <4> SUFFICES ASSUME NEW s \in SUBSET S, s # {}
                   PROVE  w[First(s)] + h[s \ {First(s)}] \in Int
        OBVIOUS
      <4>1. w[First(s)] \in Int /\ h[s \ {First(s)}] \in Int
        BY <2>3
      <4> QED  BY <4>1
    <3> QED  BY <3>1
  <2>5. \A s \in SUBSET S : Cardinality(s) <= m - 1 => g[s] = h[s]
    BY <2>1 DEF FoldsUpTo
  <2>6. ASSUME NEW s \in SUBSET S, Cardinality(s) <= m, s # {}
        PROVE  g[s] = w[First(s)] + g[s \ {First(s)}]
    <3>1. g[s] = w[First(s)] + h[s \ {First(s)}]
      BY <2>6
    <3>2. /\ s \ {First(s)} \in SUBSET S
          /\ Cardinality(s \ {First(s)}) <= m - 1
      <4> DEFINE x == First(s)
      <4>1. x \in s
        BY <2>6, FirstIsOne
      <4> HIDE DEF x
      <4>2. s \ {x} \in SUBSET S /\ Cardinality(s \ {x}) <= m - 1
        BY <2>6, <4>1, SmallerSubset
      <4> QED  BY <4>2 DEF x
    <3> HIDE DEF g
    <3> QED  BY <2>5, <3>1, <3>2
  <2>7. {} \in SUBSET S /\ g[{}] = 0
    OBVIOUS
  <2>8. FoldsUpTo(g, S, w, m)
    <3> HIDE DEF g
    <3> QED  BY <2>4, <2>6, <2>7 DEF FoldsUpTo
  <2> HIDE DEF g
  <2> QED  BY <2>8
<1>4. Cardinality(S) \in reached
  <2> HIDE DEF reached
  <2> QED  BY <1>1, <1>2, <1>3, UpTo
<1> QED  BY <1>4

\* The order of a fold over a sum does not matter.
LEMMA FoldsSum ==
  ASSUME NEW S, IsFiniteSet(S), NEW w \in [S -> Int],
         NEW h, FoldsUpTo(h, S, w, Cardinality(S))
  PROVE  Sums(h, S, w)
<1> DEFINE any(s) == \A x \in s : h[s] = w[x] + h[s \ {x}]
           reached == {m \in 0..Cardinality(S) :
                         \A s \in SUBSET S : Cardinality(s) <= m => any(s)}
<1>0. Cardinality(S) \in Nat
  BY FS_CardinalityType
<1>1. /\ h \in [SUBSET S -> Int]
      /\ \A s \in SUBSET S : Cardinality(s) <= Cardinality(S) =>
           h[s] = IF s = {} THEN 0 ELSE w[First(s)] + h[s \ {First(s)}]
  BY DEF FoldsUpTo
<1>2. \A s \in SUBSET S :
        h[s] = IF s = {} THEN 0 ELSE w[First(s)] + h[s \ {First(s)}]
  BY <1>1, FS_Subset
<1>3. 0 \in reached
  <2>1. \A s \in SUBSET S : Cardinality(s) <= 0 => any(s)
    BY NoElements
  <2> HIDE DEF any
  <2> QED  BY <1>0, <2>1
<1>4. ASSUME NEW m \in 1..Cardinality(S), m - 1 \in reached
      PROVE  m \in reached
  <2> SUFFICES ASSUME NEW s \in SUBSET S, Cardinality(s) <= m, NEW x \in s
               PROVE  h[s] = w[x] + h[s \ {x}]
    OBVIOUS
  <2> DEFINE c == First(s)
  <2>1. c \in s /\ h[s] = w[c] + h[s \ {c}]
    BY <1>2, FirstIsOne
  <2>2. CASE x = c
    BY <2>1, <2>2
  <2>3. CASE x # c
    <3> HIDE DEF c
    <3>1. /\ s \ {c} \in SUBSET S /\ Cardinality(s \ {c}) <= m - 1
          /\ s \ {x} \in SUBSET S /\ Cardinality(s \ {x}) <= m - 1
      BY <2>1, SmallerSubset
    <3>2. any(s \ {c}) /\ any(s \ {x})
      <4> HIDE DEF any
      <4> QED  BY <1>4, <3>1
    <3>3. x \in s \ {c} /\ c \in s \ {x} /\ (s \ {c}) \ {x} = (s \ {x}) \ {c}
      BY <2>1, <2>3
    <3>4. h[s \ {c}] = w[x] + h[(s \ {x}) \ {c}] /\ h[s \ {x}] = w[c] + h[(s \ {x}) \ {c}]
      BY <3>2, <3>3
    <3>5. w[x] \in Int /\ w[c] \in Int /\ h[(s \ {x}) \ {c}] \in Int
      BY <1>1, <2>1
    <3> QED  BY <2>1, <3>4, <3>5
  <2> QED  BY <2>2, <2>3
<1>5. Cardinality(S) \in reached
  <2> HIDE DEF reached
  <2> QED  BY <1>0, <1>3, <1>4, UpTo
<1>6. \A s \in SUBSET S : any(s)
  <2> HIDE DEF any
  <2> QED  BY <1>5, FS_Subset
<1>7. h[{}] = 0
  BY <1>2
<1> QED  BY <1>1, <1>6, <1>7 DEF Sums

\* SumFunctionOnSet is such a sum.
LEMMA SumFunctionSums ==
  ASSUME NEW S, IsFiniteSet(S), NEW w \in [S -> Int], NEW h, Sums(h, S, w),
         NEW T \in SUBSET S
  PROVE  SumFunctionOnSet(w, T) = h[T]
<1> DEFINE body(g, s) == IF s = {} THEN 0
                         ELSE w[CHOOSE x \in s : TRUE] + g[s \ {CHOOSE x \in s : TRUE}]
           p == CHOOSE g : g = [s \in SUBSET T |-> body(g, s)]
<1>0. IsFiniteSet(T) /\ w \in [S -> Int]
  BY FS_Subset
<1>1. SumFunctionOnSet(w, T) = p[T]
  BY DEF SumFunctionOnSet, FoldFunctionOnSet, MapThenFoldSet
<1>2. \E g : g = [s \in SUBSET T |-> body(g, s)]
  <2> DEFINE v == [x \in T |-> w[x]]
  <2>1. v \in [T -> Int]
    OBVIOUS
  <2>2. PICK g : FoldsUpTo(g, T, v, Cardinality(T))
    <3> HIDE DEF v
    <3> QED  BY <1>0, <2>1, FoldsExist
  <2>3. ASSUME NEW s \in SUBSET T
        PROVE  g[s] = body(g, s)
    <3>1. g[s] = IF s = {} THEN 0 ELSE v[First(s)] + g[s \ {First(s)}]
      <4>1. Cardinality(s) <= Cardinality(T)
        BY <1>0, FS_Subset
      <4> HIDE DEF v
      <4> QED  BY <2>2, <4>1 DEF FoldsUpTo
    <3>2. s # {} => First(s) \in T
      BY FirstIsOne
    <3> QED  BY <3>1, <3>2 DEF First
  <2>4. g = [s \in SUBSET T |-> g[s]]
    BY <2>2 DEF FoldsUpTo
  <2> HIDE DEF body
  <2> QED  BY <2>3, <2>4
<1>3. \A s \in SUBSET T : p[s] = body(p, s)
  <2> HIDE DEF body
  <2>1. p = [s \in SUBSET T |-> body(p, s)]
    BY <1>2, Zenon
  <2> HIDE DEF p
  <2> QED  BY <2>1
<1>4. p[T] = h[T]
  <2> HIDE DEF p
  <2> DEFINE reached == {m \in 0..Cardinality(T) :
                           \A s \in SUBSET T : Cardinality(s) <= m => p[s] = h[s]}
  <2>0. Cardinality(T) \in Nat
    BY <1>0, FS_CardinalityType
  <2>1. 0 \in reached
    <3>1. \A s \in SUBSET T : Cardinality(s) <= 0 => s = {}
      BY <1>0, NoElements
    <3>2. p[{}] = 0 /\ h[{}] = 0
      BY <1>3 DEF Sums
    <3> QED  BY <2>0, <3>1, <3>2
  <2>2. ASSUME NEW m \in 1..Cardinality(T), m - 1 \in reached
        PROVE  m \in reached
    <3> SUFFICES ASSUME NEW s \in SUBSET T, Cardinality(s) <= m
                 PROVE  p[s] = h[s]
      OBVIOUS
    <3>1. CASE s = {}
      BY <1>3, <3>1 DEF Sums
    <3>2. CASE s # {}
      <4> DEFINE x == First(s)
      <4>1. x \in s
        BY <3>2, FirstIsOne
      <4>2. p[s] = w[x] + p[s \ {x}]
        BY <1>3, <3>2 DEF First
      <4> HIDE DEF x
      <4>3. h[s] = w[x] + h[s \ {x}]
        BY <4>1 DEF Sums
      <4>4. s \ {x} \in SUBSET T /\ Cardinality(s \ {x}) <= m - 1
        BY <1>0, <4>1, SmallerSubset
      <4> QED  BY <2>2, <4>2, <4>3, <4>4
    <3> QED  BY <3>1, <3>2
  <2>3. Cardinality(T) \in reached
    <3> HIDE DEF reached
    <3> QED  BY <2>0, <2>1, <2>2, UpTo
  <2> QED  BY <2>3
<1> QED  BY <1>1, <1>4

\* A sum over a finite set: an integer, nothing for the empty set, and one term
\* for each element.
LEMMA SumType ==
  ASSUME NEW S, IsFiniteSet(S), NEW w \in [S -> Int], NEW T \in SUBSET S
  PROVE  SumFunctionOnSet(w, T) \in Int
<1>1. PICK h : Sums(h, S, w)
  BY FoldsExist, FoldsSum
<1>2. SumFunctionOnSet(w, T) = h[T]
  BY <1>1, SumFunctionSums
<1> QED  BY <1>1, <1>2 DEF Sums

LEMMA SumEmpty ==
  ASSUME NEW S, IsFiniteSet(S), NEW w \in [S -> Int]
  PROVE  SumFunctionOnSet(w, {}) = 0
<1>1. PICK h : Sums(h, S, w)
  BY FoldsExist, FoldsSum
<1>2. SumFunctionOnSet(w, {}) = h[{}]
  BY <1>1, SumFunctionSums
<1> QED  BY <1>1, <1>2 DEF Sums

LEMMA SumSplit ==
  ASSUME NEW S, IsFiniteSet(S), NEW w \in [S -> Int], NEW T \in SUBSET S, NEW x \in T
  PROVE  /\ SumFunctionOnSet(w, T) = w[x] + SumFunctionOnSet(w, T \ {x})
         /\ SumFunctionOnSet(w, T) \in Int
         /\ SumFunctionOnSet(w, T \ {x}) \in Int
<1>1. PICK h : Sums(h, S, w)
  BY FoldsExist, FoldsSum
<1>2. SumFunctionOnSet(w, T) = h[T] /\ SumFunctionOnSet(w, T \ {x}) = h[T \ {x}]
  BY <1>1, SumFunctionSums
<1> QED  BY <1>1, <1>2 DEF Sums

\* The sum over T is one term and the sum over the rest.
Splits(w, T, x) == SumFunctionOnSet(w, T) = w[x] + SumFunctionOnSet(w, T \ {x})

LEMMA SumSplits ==
  ASSUME NEW S, NEW T, NEW w, NEW x,
         IsFiniteSet(S), w \in [S -> Int], T \in SUBSET S, x \in T
  PROVE  Splits(w, T, x)
BY SumSplit DEF Splits

\* One term more in a sum over the first numbers.
LEMMA SumTerm ==
  ASSUME NEW n \in Nat, NEW w \in [1..n -> Int], NEW i \in 1..n
  PROVE  SumFunctionOnSet(w, 1..i) = w[i] + SumFunctionOnSet(w, 1..(i - 1))
<1>1. IsFiniteSet(1..n)
  BY FS_Interval
<1>2. 1..i \in SUBSET (1..n) /\ i \in 1..i
  OBVIOUS
<1>3. (1..i) \ {i} = 1..(i - 1)
  OBVIOUS
<1>4. Splits(w, 1..i, i)
  BY <1>1, <1>2, SumSplits, Zenon
<1> QED  BY <1>3, <1>4, Zenon DEF Splits

\* A sum of naturals is one, and grows with the set.
LEMMA SumGrows ==
  ASSUME NEW S, IsFiniteSet(S), NEW w \in [S -> Nat],
         NEW U \in SUBSET S, NEW T \in SUBSET U
  PROVE  /\ SumFunctionOnSet(w, T) \in Nat
         /\ SumFunctionOnSet(w, U) \in Nat
         /\ SumFunctionOnSet(w, T) <= SumFunctionOnSet(w, U)
<1> DEFINE sum(X) == SumFunctionOnSet(w, X)
           fine(X) == sum(X) \in Nat /\ \A Y \in SUBSET X : sum(Y) \in Nat /\ sum(Y) <= sum(X)
           reached == {m \in 0..Cardinality(S) :
                         \A X \in SUBSET S : Cardinality(X) <= m => fine(X)}
<1>0. Cardinality(S) \in Nat /\ w \in [S -> Int]
  BY FS_CardinalityType
<1>1. 0 \in reached
  <2>1. \A X \in SUBSET S : Cardinality(X) <= 0 => X = {}
    BY NoElements
  <2>2. sum({}) = 0
    BY <1>0, SumEmpty
  <2>3. fine({})
    BY <2>2
  <2> HIDE DEF fine
  <2> QED  BY <1>0, <2>1, <2>3
<1>2. ASSUME NEW m \in 1..Cardinality(S), m - 1 \in reached
      PROVE  m \in reached
  <2> SUFFICES ASSUME NEW X \in SUBSET S, Cardinality(X) <= m
               PROVE  fine(X)
    OBVIOUS
  <2>1. CASE X = {}
    BY <1>0, <2>1, SumEmpty
  <2>2. CASE X # {}
    <3>1. ASSUME NEW x \in X
          PROVE  /\ sum(X \ {x}) \in Nat /\ sum(X) \in Nat
                 /\ sum(X \ {x}) <= sum(X)
                 /\ \A Y \in SUBSET (X \ {x}) : sum(Y) \in Nat /\ sum(Y) <= sum(X \ {x})
      <4>1. X \ {x} \in SUBSET S /\ Cardinality(X \ {x}) <= m - 1
        BY SmallerSubset
      <4>2. fine(X \ {x})
        <5> HIDE DEF fine
        <5> QED  BY <1>2, <4>1
      <4>3. sum(X) = w[x] + sum(X \ {x}) /\ w[x] \in Nat
        BY <1>0, SumSplit
      <4>4. sum(X \ {x}) \in Nat
        BY <4>2, Zenon
      <4>5. \A Y \in SUBSET (X \ {x}) : sum(Y) \in Nat /\ sum(Y) <= sum(X \ {x})
        BY <4>2, Zenon
      <4>6. sum(X) \in Nat /\ sum(X \ {x}) <= sum(X)
        <5> HIDE DEF sum
        <5> QED  BY <4>3, <4>4
      <4> QED  BY <4>4, <4>5, <4>6, Zenon
    <3> HIDE DEF sum
    <3>2. sum(X) \in Nat
      BY <2>2, <3>1
    <3>3. ASSUME NEW Y \in SUBSET X, Y # X
          PROVE  sum(Y) \in Nat /\ sum(Y) <= sum(X)
      <4>1. PICK x \in X : x \notin Y
        BY <3>3
      <4>2. Y \in SUBSET (X \ {x})
        BY <4>1
      <4>3. sum(Y) \in Nat /\ sum(Y) <= sum(X \ {x})
        BY <3>1, <4>2
      <4>4. sum(X \ {x}) \in Nat /\ sum(X \ {x}) <= sum(X)
        BY <3>1
      <4> QED  BY <3>2, <4>3, <4>4
    <3> QED  BY <3>2, <3>3
  <2> QED  BY <2>1, <2>2
<1>3. Cardinality(S) \in reached
  <2> HIDE DEF reached
  <2> QED  BY <1>0, <1>1, <1>2, UpTo
<1>4. fine(U)
  <2> HIDE DEF fine
  <2> QED  BY <1>3, FS_Subset
<1> QED  BY <1>4

\* A sum lies between its number of terms times bounds on each.
LEMMA SumBounded ==
  ASSUME NEW S, IsFiniteSet(S), NEW w \in [S -> Int], NEW lo \in Int, NEW hi \in Int,
         \A x \in S : lo <= w[x] /\ w[x] <= hi,
         NEW T \in SUBSET S
  PROVE  /\ lo * Cardinality(T) <= SumFunctionOnSet(w, T)
         /\ SumFunctionOnSet(w, T) <= hi * Cardinality(T)
<1> DEFINE sum(X) == SumFunctionOnSet(w, X)
           fine(X) == lo * Cardinality(X) <= sum(X) /\ sum(X) <= hi * Cardinality(X)
           reached == {m \in 0..Cardinality(S) :
                         \A X \in SUBSET S : Cardinality(X) <= m => fine(X)}
<1>0. Cardinality(S) \in Nat
  BY FS_CardinalityType
<1>1. 0 \in reached
  <2>1. \A X \in SUBSET S : Cardinality(X) <= 0 => X = {}
    BY NoElements
  <2>2. sum({}) = 0 /\ Cardinality({}) = 0
    BY SumEmpty, FS_EmptySet
  <2>3. fine({})
    <3> HIDE DEF sum
    <3> QED  BY <2>2
  <2> HIDE DEF fine
  <2> QED  BY <1>0, <2>1, <2>3
<1>2. ASSUME NEW m \in 1..Cardinality(S), m - 1 \in reached
      PROVE  m \in reached
  <2> SUFFICES ASSUME NEW X \in SUBSET S, Cardinality(X) <= m
               PROVE  fine(X)
    OBVIOUS
  <2>1. CASE X = {}
    <3>1. fine({})
      <4>1. 0 <= Cardinality(S)
        BY <1>0
      <4>2. Cardinality({}) = 0 /\ sum({}) = 0
        BY SumEmpty, FS_EmptySet
      <4> HIDE DEF sum
      <4> QED  BY <4>2
    <3> HIDE DEF fine
    <3> QED  BY <2>1, <3>1
  <2>2. CASE X # {}
    <3>1. PICK x : x \in X
      BY <2>2
    <3> DEFINE n == Cardinality(X \ {x})
    <3>2. /\ X \ {x} \in SUBSET S /\ n <= m - 1 /\ n \in Nat
          /\ Cardinality(X) = n + 1
      BY <3>1, SmallerSubset
    <3>3. lo * n <= sum(X \ {x}) /\ sum(X \ {x}) <= hi * n
      BY <1>2, <3>2
    <3>4. sum(X) = w[x] + sum(X \ {x}) /\ sum(X) \in Int /\ sum(X \ {x}) \in Int
      BY <3>1, SumSplit
    <3>5. lo <= w[x] /\ w[x] <= hi /\ w[x] \in Int
      BY <3>1
    <3> HIDE DEF sum, n
    <3>6. lo * (n + 1) = lo * n + lo /\ hi * (n + 1) = hi * n + hi
      BY <3>2
    <3>7. lo * n \in Int /\ hi * n \in Int
      BY <3>2
    <3> QED  BY <3>2, <3>3, <3>4, <3>5, <3>6, <3>7
  <2> QED  BY <2>1, <2>2
<1>3. Cardinality(S) \in reached
  <2> HIDE DEF reached
  <2> QED  BY <1>0, <1>1, <1>2, UpTo
<1>4. fine(T)
  <2>1. Cardinality(T) <= Cardinality(S)
    BY FS_Subset
  <2> HIDE DEF fine
  <2> QED  BY <1>0, <1>3, <2>1
<1> QED  BY <1>4

\* Induction over the subsets of a finite set, one element at a time, the
\* property given as the set of the subsets it holds of.
LEMMA OneByOne ==
  ASSUME NEW S, IsFiniteSet(S), NEW good, {} \in good,
         \A X \in SUBSET S : \A x \in X : X \ {x} \in good => X \in good
  PROVE  \A X \in SUBSET S : X \in good
<1> DEFINE reached == {m \in 0..Cardinality(S) :
                         \A X \in SUBSET S : Cardinality(X) <= m => X \in good}
<1>0. Cardinality(S) \in Nat
  BY FS_CardinalityType
<1>1. 0 \in reached
  <2>1. \A X \in SUBSET S : Cardinality(X) <= 0 => X = {}
    BY NoElements
  <2>2. \A X \in SUBSET S : Cardinality(X) <= 0 => X \in good
    BY <2>1, Zenon
  <2> QED  BY <1>0, <2>2
<1>2. ASSUME NEW m \in 1..Cardinality(S), m - 1 \in reached
      PROVE  m \in reached
  <2> SUFFICES ASSUME NEW X \in SUBSET S, Cardinality(X) <= m
               PROVE  X \in good
    OBVIOUS
  <2>1. CASE X # {}
    <3>1. PICK x : x \in X
      BY <2>1
    <3>2. X \ {x} \in SUBSET S /\ Cardinality(X \ {x}) <= m - 1
      BY <3>1, SmallerSubset
    <3>3. X \ {x} \in good
      BY <1>2, <3>2
    <3> QED  BY <3>1, <3>3
  <2> QED  BY <2>1
<1>3. Cardinality(S) \in reached
  <2> HIDE DEF reached
  <2> QED  BY <1>0, <1>1, <1>2, UpTo
<1> QED  BY <1>3, FS_Subset

\* Terms that are none of them larger have a sum that is not larger.
LEMMA SumMonotone ==
  ASSUME NEW S, IsFiniteSet(S), NEW w \in [S -> Int], NEW v \in [S -> Int],
         NEW T \in SUBSET S, \A x \in T : w[x] <= v[x]
  PROVE  SumFunctionOnSet(w, T) <= SumFunctionOnSet(v, T)
<1> DEFINE fine(X) == SumFunctionOnSet(w, X) <= SumFunctionOnSet(v, X)
           good == {X \in SUBSET T : fine(X)}
<1>1. IsFiniteSet(T)
  BY FS_Subset
<1>2. {} \in good
  <2>1. SumFunctionOnSet(w, {}) = 0 /\ SumFunctionOnSet(v, {}) = 0
    BY SumEmpty
  <2>2. fine({})
    BY <2>1
  <2> QED  BY <2>2
<1>3. ASSUME NEW X \in SUBSET T, NEW x \in X, X \ {x} \in good
      PROVE  X \in good
  <2>1. X \in SUBSET S /\ w[x] \in Int /\ v[x] \in Int /\ w[x] <= v[x]
    OBVIOUS
  <2>2. /\ SumFunctionOnSet(w, X) = w[x] + SumFunctionOnSet(w, X \ {x})
        /\ SumFunctionOnSet(w, X \ {x}) \in Int
    BY <2>1, SumSplit
  <2>3. /\ SumFunctionOnSet(v, X) = v[x] + SumFunctionOnSet(v, X \ {x})
        /\ SumFunctionOnSet(v, X \ {x}) \in Int
    BY <2>1, SumSplit
  <2>4. fine(X)
    BY <1>3, <2>1, <2>2, <2>3
  <2> QED  BY <2>4
<1>4. T \in good
  <2> HIDE DEF good
  <2> QED  BY <1>1, <1>2, <1>3, OneByOne
<1> QED  BY <1>4

\* The sum over two sets without a common element.
Joins(w, A, B) ==
  SumFunctionOnSet(w, A \cup B) = SumFunctionOnSet(w, A) + SumFunctionOnSet(w, B)

LEMMA SumUnion ==
  ASSUME NEW S, NEW w, NEW A, NEW B,
         IsFiniteSet(S), w \in [S -> Int], A \in SUBSET S, B \in SUBSET S, A \cap B = {}
  PROVE  Joins(w, A, B)
<1> DEFINE fine(X) == SumFunctionOnSet(w, A \cup X) = SumFunctionOnSet(w, A) + SumFunctionOnSet(w, X)
           good == {X \in SUBSET B : fine(X)}
<1>1. SumFunctionOnSet(w, A) \in Int
  BY SumType
<1>2. {} \in good
  <2>1. SumFunctionOnSet(w, {}) = 0 /\ A \cup {} = A
    BY SumEmpty
  <2>2. fine({})
    BY <1>1, <2>1
  <2> QED  BY <2>2
<1>3. ASSUME NEW X \in SUBSET B, NEW x \in X, X \ {x} \in good
      PROVE  X \in good
  <2>1. /\ A \cup X \in SUBSET S /\ X \in SUBSET S /\ x \in A \cup X /\ w[x] \in Int
        /\ (A \cup X) \ {x} = A \cup (X \ {x})
    OBVIOUS
  <2>2. /\ SumFunctionOnSet(w, X) = w[x] + SumFunctionOnSet(w, X \ {x})
        /\ SumFunctionOnSet(w, X \ {x}) \in Int
    BY <2>1, SumSplit
  <2>3. SumFunctionOnSet(w, A \cup X) = w[x] + SumFunctionOnSet(w, A \cup (X \ {x}))
    <3>1. Splits(w, A \cup X, x)
      BY <2>1, SumSplits, Zenon
    <3> QED  BY <2>1, <3>1, Zenon DEF Splits
  <2>4. fine(X \ {x})
    BY <1>3
  <2>5. fine(X)
    BY <1>1, <2>1, <2>2, <2>3, <2>4
  <2> QED  BY <2>5
<1>4. B \in good
  <2> HIDE DEF good
  <2>1. \A X \in SUBSET B : \A x \in X : X \ {x} \in good => X \in good
    BY <1>3
  <2>2. IsFiniteSet(B)
    BY FS_Subset
  <2>3. \A X \in SUBSET B : X \in good
    BY <1>2, <2>1, <2>2, OneByOne
  <2> QED  BY <2>3
<1> QED  BY <1>4 DEF Joins

\* The sum of terms h(i) + a + b * x(i).
Combines(g, h, a, b, x, T) ==
  SumFunctionOnSet(g, T) =
    SumFunctionOnSet(h, T) + a * Cardinality(T) + b * SumFunctionOnSet(x, T)

LEMMA SumLinear ==
  ASSUME NEW S, NEW T, NEW g, NEW h, NEW x, NEW a, NEW b, IsFiniteSet(S), T \in SUBSET S,
         g \in [S -> Int], h \in [S -> Int], x \in [S -> Int], a \in Int, b \in Int,
         \A i \in S : g[i] = h[i] + a + b * x[i]
  PROVE  Combines(g, h, a, b, x, T)
<1> DEFINE sum(w, X) == SumFunctionOnSet(w, X)
           fine(X) == sum(g, X) = sum(h, X) + a * Cardinality(X) + b * sum(x, X)
           good == {X \in SUBSET S : fine(X)}
<1>1. {} \in good
  <2>1. sum(g, {}) = 0 /\ sum(h, {}) = 0 /\ sum(x, {}) = 0 /\ Cardinality({}) = 0
    BY SumEmpty, FS_EmptySet
  <2>2. fine({})
    <3> HIDE DEF sum
    <3> QED  BY <2>1
  <2> QED  BY <2>2
<1>2. ASSUME NEW X \in SUBSET S, NEW i \in X, X \ {i} \in good
      PROVE  X \in good
  <2> DEFINE n == Cardinality(X \ {i})
  <2>1. Cardinality(X) = n + 1 /\ n \in Nat
    <3>1. /\ Cardinality(X) \in Nat /\ 1 <= Cardinality(X)
          /\ Cardinality(X \ {i}) = Cardinality(X) - 1
      BY SmallerSubset, Zenon
    <3> QED  BY <3>1
  <2>2. Splits(g, X, i) /\ Splits(h, X, i) /\ Splits(x, X, i)
    BY SumSplits, Zenon
  <2>3. /\ sum(g, X) = g[i] + sum(g, X \ {i})
        /\ sum(h, X) = h[i] + sum(h, X \ {i})
        /\ sum(x, X) = x[i] + sum(x, X \ {i})
    BY <2>2, Zenon DEF Splits
  <2>4. sum(g, X \ {i}) \in Int /\ sum(h, X \ {i}) \in Int /\ sum(x, X \ {i}) \in Int
    <3>1. X \ {i} \in SUBSET S
      OBVIOUS
    <3> QED  BY <3>1, SumType
  <2>5. g[i] = h[i] + a + b * x[i] /\ g[i] \in Int /\ h[i] \in Int /\ x[i] \in Int
    OBVIOUS
  <2>6. sum(g, X \ {i}) = sum(h, X \ {i}) + a * n + b * sum(x, X \ {i})
    BY <1>2
  <2> HIDE DEF sum, n
  <2>7. fine(X)
    <3>1. \A p, q \in Int : b * (p + q) = b * p + b * q
      BY SMT
    <3>2. a * (n + 1) = a * n + a
      BY <2>1, SMT
    <3>3. b * sum(x, X) = b * x[i] + b * sum(x, X \ {i})
      BY <2>3, <2>4, <2>5, <3>1
    <3>4. a * n \in Int /\ b * x[i] \in Int /\ b * sum(x, X \ {i}) \in Int
      BY <2>1, <2>4, <2>5
    <3> QED  BY <2>1, <2>3, <2>4, <2>5, <2>6, <3>2, <3>3, <3>4
  <2> QED  BY <2>7
<1>3. T \in good
  <2> HIDE DEF good
  <2>1. \A X \in SUBSET S : \A i \in X : X \ {i} \in good => X \in good
    BY <1>2
  <2>2. \A X \in SUBSET S : X \in good
    BY <1>1, <2>1, OneByOne
  <2> QED  BY <2>2
<1> QED  BY <1>3 DEF Combines

=============================================================================
