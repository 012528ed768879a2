------------------------------- MODULE TopKScan -------------------------------
(***************************************************************************)
(* The loop of select_topk_indices (src/src/topk.rs) as a state machine,   *)
(* one candidate a step, for any candidates with distinct stamps: what its *)
(* heap holds half-way, and what is left at the end.                       *)
(***************************************************************************)
EXTENDS TopK, Functions

CONSTANTS
  Inputs,  \* the sequences of candidates considered
  Limits   \* the values of k considered

Candidate == [dist : Int, seq : Nat]

\* Stamps are distinct: the index gives each of its entries one of its own.
ASSUME InputAssumption ==
  /\ Limits \subseteq Nat
  /\ \A cands \in Inputs :
       /\ cands \in Seq(Candidate)
       /\ \A i, j \in DOMAIN cands : cands[i].seq = cands[j].seq => i = j

VARIABLES
  cands,  \* the candidates, in the order the lists are scanned
  k,      \* how many are asked for
  heap,   \* the bounded heap
  idx     \* how many candidates the heap has been offered

vars == <<cands, k, heap, idx>>

Init ==
  /\ cands \in Inputs
  /\ k \in Limits
  /\ heap = {}
  /\ idx = 0

\* Mutant of OfferNext: the loop takes candidates in pairs.
OfferPair ==
  /\ k # 0
  /\ idx < Len(cands)
  /\ heap' = Offer(heap, cands[idx + 1], Cap(cands, k))
  /\ idx' = idx + 2
  /\ UNCHANGED <<cands, k>>

OfferNext ==
  /\ k # 0
  /\ idx < Len(cands)
  /\ heap' = Offer(heap, cands[idx + 1], Cap(cands, k))
  /\ idx' = idx + 1
  /\ UNCHANGED <<cands, k>>

Next == OfferNext

Spec == Init /\ [][Next]_vars

-----------------------------------------------------------------------------

Seen == {cands[i] : i \in 1..idx}

TypeOK ==
  /\ cands \in Inputs
  /\ k \in Limits
  /\ idx \in 0..Len(cands)
  /\ heap \subseteq Seen

\* After any number of candidates the heap holds the best of them and as many
\* as it may, whatever came in between: everything it turned away or gave up
\* comes after everything it kept (topk.rs:84-96).
HeapHoldsTheBest ==
  /\ Cardinality(heap) = IF idx < k THEN idx ELSE k
  /\ \A kept \in heap, other \in Seen \ heap : Precedes(kept, other)

Answer == IF k = 0 THEN <<>> ELSE IntoSortedVec(heap)

\* The answer: the least k candidates, or all of them when there are fewer, in
\* ascending order of distance and then stamp.  The one at rank r follows
\* exactly r - 1 of all candidates, whatever order they were scanned in
\* (topk.rs:73-80).
AnswerIsRanked ==
  k = 0 \/ idx = Len(cands) =>
    /\ Len(Answer) = Cap(cands, k)
    /\ \A r \in DOMAIN Answer :
         /\ Answer[r] \in Range(cands)
         /\ Cardinality({c \in Range(cands) : Precedes(c, Answer[r])}) = r - 1
=============================================================================
