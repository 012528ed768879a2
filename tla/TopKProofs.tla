------------------------------ MODULE TopKProofs ------------------------------
(***************************************************************************)
(* Theorems about the selection loop for candidates of any number, at any  *)
(* distances, in any order.                                                *)
(***************************************************************************)
EXTENDS TopKScan, SharedLemmas

\* The inductive invariant.  That the heap holds everything seen until it is
\* full is what makes each newcomer before then one of the best.
HeapInv ==
  /\ TypeOK
  /\ HeapHoldsTheBest
  /\ idx < k => heap = Seen

\* The inputs: any number of candidates, no two with the same stamp.
LEMMA InputFacts ==
  ASSUME TypeOK
  PROVE  /\ k \in Nat
         /\ Len(cands) \in Nat
         /\ DOMAIN cands = 1..Len(cands)
         /\ \A i \in 1..Len(cands) : Scored(cands[i])
         /\ \A i, j \in 1..Len(cands) : cands[i].seq = cands[j].seq => i = j
<1>1. /\ cands \in Seq(Candidate) /\ k \in Nat
      /\ \A i, j \in DOMAIN cands : cands[i].seq = cands[j].seq => i = j
  BY InputAssumption DEF TypeOK
<1>2. /\ Len(cands) \in Nat /\ DOMAIN cands = 1..Len(cands)
      /\ \A i \in 1..Len(cands) : cands[i] \in Candidate
  BY <1>1, LenProperties, ElementOfSeq
<1>3. \A i \in 1..Len(cands) : Scored(cands[i])
  BY <1>2 DEF Candidate, Scored
<1> QED  BY <1>1, <1>2, <1>3

\* What has been seen after n of them.
LEMMA SeenFacts ==
  ASSUME TypeOK, NEW n \in 0..Len(cands), NEW S, S = {cands[i] : i \in 1..n}
  PROVE  /\ Rankable(S)
         /\ \A i \in 1..Len(cands) : i > n => cands[i] \notin S
<1>1. /\ Len(cands) \in Nat
      /\ \A i \in 1..Len(cands) : Scored(cands[i])
      /\ \A i, j \in 1..Len(cands) : cands[i].seq = cands[j].seq => i = j
  BY InputFacts
<1>2. n \in Nat /\ 1..n \subseteq 1..Len(cands)
  BY <1>1
<1>3. IsFiniteSet(S)
  <2> DEFINE shown == [i \in 1..n |-> cands[i]]
  <2>1. IsFiniteSet(1..n)
    BY <1>2, FS_Interval
  <2>2. shown \in Surjection(1..n, S)
    BY DEF Surjection
  <2> HIDE DEF shown
  <2> QED  BY <2>1, <2>2, FS_Surjection
<1> QED  BY <1>1, <1>2, <1>3 DEF Rankable

LEMMA InitHolds == Init => HeapInv
<1> SUFFICES ASSUME Init PROVE HeapInv
  OBVIOUS
<1>1. /\ k \in Nat /\ Len(cands) \in Nat
  BY InputAssumption, LenProperties DEF Init
<1>2. Seen = {}
  BY DEF Init, Seen
<1> QED  BY <1>1, <1>2, FS_EmptySet DEF Init, HeapInv, TypeOK, HeapHoldsTheBest

LEMMA OfferNextKeeps == HeapInv /\ OfferNext => HeapInv'
<1> SUFFICES ASSUME HeapInv, OfferNext PROVE HeapInv'
  OBVIOUS
<1> DEFINE entry == cands[idx + 1]
           cap == Cap(cands, k)
<1>1. TypeOK /\ k # 0 /\ idx < Len(cands) /\ heap \subseteq Seen /\ idx \in 0..Len(cands)
  BY DEF HeapInv, OfferNext, TypeOK
<1>2. k \in Nat /\ Len(cands) \in Nat /\ idx \in Nat
  BY <1>1, InputFacts
<1>3. idx + 1 \in 0..Len(cands) /\ idx + 1 \in 1..Len(cands) /\ idx + 1 > idx
  BY <1>1, <1>2
<1>4. entry \notin Seen
  BY <1>1, <1>3, SeenFacts DEF Seen
<1>5. {cands[i] : i \in 1..(idx + 1)} = Seen \cup {entry}
  BY <1>2 DEF Seen
<1>6. Rankable(Seen \cup {entry})
  BY <1>1, <1>3, <1>5, SeenFacts
<1>7. Seen' = Seen \cup {entry}
  BY <1>5 DEF OfferNext, Seen
<1>8. /\ cap \in Nat \ {0}
      /\ Cardinality(heap) <= cap
      /\ Cardinality(heap) < cap <=> idx < k
      /\ Cardinality(heap) < cap => Cardinality(heap) = idx
      /\ Cardinality(heap) = cap => cap = k
  BY <1>1, <1>2 DEF HeapInv, HeapHoldsTheBest, Cap
<1>9. KeepsTheBest(heap, Seen) /\ (Cardinality(heap) < cap => heap = Seen)
  BY <1>1, <1>8 DEF HeapInv, HeapHoldsTheBest, KeepsTheBest
<1>10. heap' = Offer(heap, entry, cap) /\ idx' = idx + 1 /\ UNCHANGED <<cands, k>>
  BY DEF OfferNext
<1> HIDE DEF entry, cap
<1>11. /\ KeepsTheBest(heap', Seen')
       /\ Cardinality(heap) < cap => heap' = Seen'
       /\ Cardinality(heap') = IF Cardinality(heap) < cap THEN Cardinality(heap) + 1 ELSE cap
  <2>1. KeepsTheBest(heap', Seen \cup {entry})
    BY <1>4, <1>6, <1>8, <1>9, <1>10, OfferKeepsTheBest
  <2>2. Cardinality(heap) < cap => heap' = Seen \cup {entry}
    BY <2>1, <1>4, <1>6, <1>8, <1>9, <1>10, OfferKeepsTheBest
  <2>3. Cardinality(heap') = IF Cardinality(heap) < cap THEN Cardinality(heap) + 1 ELSE cap
    BY <2>1, <1>4, <1>6, <1>8, <1>9, <1>10, OfferKeepsTheBest
  <2> QED  BY <1>7, <2>1, <2>2, <2>3
<1>12. TypeOK'
  BY <1>1, <1>3, <1>10, <1>11 DEF TypeOK, KeepsTheBest
<1>13. Cardinality(heap') = IF idx' < k' THEN idx' ELSE k'
  <2>1. CASE idx < k
    BY <1>2, <1>8, <1>10, <1>11, <2>1
  <2>2. CASE ~(idx < k)
    <3>1. Cardinality(heap) = k /\ cap = k
      BY <1>2, <1>8, <2>2 DEF HeapInv, HeapHoldsTheBest
    <3> QED  BY <1>2, <1>10, <1>11, <2>2, <3>1
  <2> QED  BY <2>1, <2>2
<1>14. idx' < k' => heap' = Seen'
  BY <1>2, <1>8, <1>10, <1>11
<1> QED  BY <1>11, <1>12, <1>13, <1>14 DEF HeapInv, HeapHoldsTheBest, KeepsTheBest

LEMMA NextKeeps == HeapInv /\ [Next]_vars => HeapInv'
<1> SUFFICES ASSUME HeapInv, [Next]_vars PROVE HeapInv'
  OBVIOUS
<1>1. CASE OfferNext
  BY <1>1, OfferNextKeeps
<1>2. CASE UNCHANGED vars
  BY <1>2 DEF vars, HeapInv, TypeOK, HeapHoldsTheBest, Seen
<1> QED  BY <1>1, <1>2 DEF Next

\* The heap invariant holds in every reachable state: after any number of
\* candidates the heap is the best of them, as many as it may hold
\* (topk.rs:84-96).
THEOREM HeapInvariant == Spec => []HeapInv
<1> QED  BY InitHolds, NextKeeps, PTL DEF Spec

\* The loop never reads past the candidates and its heap holds only candidates
\* it was offered (topk.rs:86-96).
THEOREM TypeCorrect == Spec => []TypeOK
<1>1. HeapInv => TypeOK
  BY DEF HeapInv
<1> QED  BY <1>1, HeapInvariant, PTL

\* No candidate the heap turned away or gave up comes before one it kept
\* (topk.rs:89-96).
THEOREM BestCorrect == Spec => []HeapHoldsTheBest
<1>1. HeapInv => HeapHoldsTheBest
  BY DEF HeapInv
<1> QED  BY <1>1, HeapInvariant, PTL

\* At the end the sorted heap ranks the best of all the candidates, as the
\* operator of the searches does (topk.rs:97).
LEMMA AnswerRanks ==
  ASSUME HeapInv, k = 0 \/ idx = Len(cands)
  PROVE  /\ Selectable(cands) /\ k \in Nat
         /\ Candidates(cands) = Range(cands)
         /\ RanksLeast(Answer, Candidates(cands), Cap(cands, k))
<1>1. TypeOK /\ idx \in 0..Len(cands) /\ heap \subseteq Seen
  BY DEF HeapInv, TypeOK
<1>2. k \in Nat /\ Len(cands) \in Nat /\ DOMAIN cands = 1..Len(cands)
  BY <1>1, InputFacts
<1>3. Rankable(Candidates(cands))
  <2>1. Len(cands) \in 0..Len(cands)
    BY <1>2
  <2>2. Candidates(cands) = {cands[i] : i \in 1..Len(cands)}
    BY DEF Candidates
  <2> QED  BY <1>1, <2>1, <2>2, SeenFacts
<1>4. \A i, j \in 1..Len(cands) : cands[i].seq = cands[j].seq => i = j
  BY <1>1, InputFacts
<1>5. Candidates(cands) = Range(cands)
  BY <1>2 DEF Candidates, Range
<1>6. CASE k = 0
  <2>1. Answer = <<>> /\ Cap(cands, k) = 0
    BY <1>2, <1>6 DEF Answer, Cap
  <2>2. RanksLeast(<<>>, Candidates(cands), 0)
    BY DEF RanksLeast
  <2> QED  BY <1>2, <1>3, <1>4, <1>5, <2>1, <2>2 DEF Selectable
<1>7. CASE k # 0
  <2>1. Candidates(cands) = Seen
    BY <1>2, <1>7 DEF Seen, Candidates
  <2>2. KeepsTheBest(heap, Seen)
    BY <1>1 DEF HeapInv, HeapHoldsTheBest, KeepsTheBest
  <2>3. Cardinality(heap) = Cap(cands, k)
    BY <1>2, <1>7 DEF HeapInv, HeapHoldsTheBest, Cap
  <2>4. RanksLeast(IntoSortedVec(heap), Candidates(cands), Cardinality(heap))
    BY <1>3, <2>1, <2>2, BestAreRanked
  <2> QED  BY <1>2, <1>3, <1>4, <1>5, <1>7, <2>3, <2>4 DEF Selectable, Answer
<1> QED  BY <1>6, <1>7

\* Of the answer, the candidate at rank r follows exactly r - 1 of all the
\* candidates, in whatever order they were scanned (topk.rs:73-98).
THEOREM AnswerCorrect == Spec => []AnswerIsRanked
<1>1. HeapInv => AnswerIsRanked
  <2> SUFFICES ASSUME HeapInv, k = 0 \/ idx = Len(cands)
               PROVE  /\ Len(Answer) = Cap(cands, k)
                      /\ \A r \in DOMAIN Answer :
                           /\ Answer[r] \in Range(cands)
                           /\ Cardinality({c \in Range(cands) : Precedes(c, Answer[r])}) = r - 1
    BY DEF AnswerIsRanked
  <2>1. /\ RanksLeast(Answer, Range(cands), Cap(cands, k))
        /\ Cap(cands, k) \in Nat
    BY AnswerRanks DEF Cap, Selectable
  <2>2. Answer \in [1..Cap(cands, k) -> Range(cands)]
    BY <2>1 DEF RanksLeast
  <2>3. Len(Answer) = Cap(cands, k)
    <3>1. Answer \in Seq(Range(cands))
      BY <2>1, <2>2, SeqDef
    <3> QED  BY <2>1, <2>2, <3>1, LenProperties
  <2> QED  BY <2>1, <2>2, <2>3 DEF RanksLeast
<1> QED  BY <1>1, HeapInvariant, PTL

\* The operator the searches rank their candidates with is this loop, so what is
\* proved of the one holds of the other (topk.rs:81-98).
LEMMA ScanIsSelectTopK ==
  Spec => [](k = 0 \/ idx = Len(cands) => Answer = SelectTopK(cands, k))
<1>1. HeapInv => (k = 0 \/ idx = Len(cands) => Answer = SelectTopK(cands, k))
  <2> SUFFICES ASSUME HeapInv, k = 0 \/ idx = Len(cands)
               PROVE  Answer = SelectTopK(cands, k)
    OBVIOUS
  <2>1. /\ Selectable(cands) /\ k \in Nat
        /\ RanksLeast(Answer, Candidates(cands), Cap(cands, k))
    BY AnswerRanks
  <2>2. /\ Cap(cands, k) \in Nat
        /\ RanksLeast(SelectTopK(cands, k), Candidates(cands), Cap(cands, k))
    BY <2>1, SelectTopKRanks
  <2>3. Rankable(Candidates(cands))
    BY <2>1 DEF Selectable
  <2> QED  BY <2>1, <2>2, <2>3, RanksUnique
<1> QED  BY <1>1, HeapInvariant, PTL
=============================================================================
