--------------------------------- MODULE TopK ---------------------------------
(***************************************************************************)
(* The bounded-heap selection of src/src/topk.rs.                          *)
(*                                                                         *)
(* A candidate is a record with a distance `dist` and a stamp `seq`; what  *)
(* else it carries is its address.  A distance stands for its place in     *)
(* f32::total_cmp's order, where NaN is one more value at either end.  The *)
(* heap is the set of candidates it holds.                                 *)
(***************************************************************************)
EXTENDS Integers, Sequences, FiniteSets

\* Scored::cmp_key: the nearer candidate comes first, of equals the older.
Precedes(s, t) ==
  \/ s.dist < t.dist
  \/ s.dist = t.dist /\ s.seq < t.seq

\* BinaryHeap::peek: the candidate no other of the heap comes after.
Worst(heap) == CHOOSE s \in heap : \A t \in heap : ~Precedes(s, t)

\* Mutant of Offer: a full heap takes every newcomer.
OfferAlwaysEvicts(heap, entry, cap) ==
  (IF Cardinality(heap) < cap THEN heap ELSE heap \ {Worst(heap)}) \cup {entry}

\* One turn of the loop: a full heap gives up its worst for a better candidate.
Offer(heap, entry, cap) ==
  IF Cardinality(heap) < cap
  THEN heap \cup {entry}
  ELSE IF Precedes(entry, Worst(heap))
       THEN (heap \ {Worst(heap)}) \cup {entry}
       ELSE heap

\* Mutant of IntoSortedVec: the heap emptied by popping its worst.
PoppedInTurn(heap) ==
  [r \in 1..Cardinality(heap) |->
     CHOOSE s \in heap : Cardinality({t \in heap : Precedes(s, t)}) = r - 1]

\* BinaryHeap::into_sorted_vec: at position r the candidate that follows r - 1
\* others.
IntoSortedVec(heap) ==
  [r \in 1..Cardinality(heap) |->
     CHOOSE s \in heap : Cardinality({t \in heap : Precedes(t, s)}) = r - 1]

Cap(cands, k) == IF k < Len(cands) THEN k ELSE Len(cands)

\* select_topk_indices, with the candidates themselves for their indices.
SelectTopK(cands, k) ==
  LET heap[n \in 0..Len(cands)] ==
        IF n = 0 THEN {} ELSE Offer(heap[n - 1], cands[n], Cap(cands, k))
  IN  IF k = 0 THEN <<>> ELSE IntoSortedVec(heap[Len(cands)])
=============================================================================
