----------------------------- MODULE VectorStore -----------------------------
(***************************************************************************)
(* What an IVF index promises about the vectors it holds, with every       *)
(* centroid, inverted list and code left out: a store of stamped vectors.  *)
(*                                                                         *)
(* - An id is held at most once, and a new vector is stamped later than    *)
(*   everything held (the stamp breaks ties between equal distances).      *)
(* - Nothing but insert, delete and a retrain that fails changes the store.*)
(* - A retrain that fails keeps the vectors stamped before some point and  *)
(*   forgets the others.  The documentation promises more (no loss at all);*)
(*   this is the promise the code keeps.                                   *)
(***************************************************************************)
EXTENDS Naturals

CONSTANTS
  Ids,      \* the ids a caller can use
  Vectors,  \* the vectors a caller can insert
  Stamps    \* the stamps a stored vector can carry, a set of naturals

VARIABLES
  ready,    \* has the index been trained
  store,    \* the set of stored vectors, each with its id and its stamp
  reply     \* the last call and what it returned

storeVars == <<ready, store, reply>>

StoredVector == [id : Ids, vector : Vectors, seq : Stamps]

Holds(id) == \E e \in store : e.id = id

Returns(call, outcome) == reply' = [call |-> call, outcome |-> outcome]

Init ==
  /\ ready = FALSE
  /\ store = {}
  /\ reply = [call |-> "new", outcome |-> "Ok"]

\* A successful training opens the store for good.
Train ==
  /\ ~ready
  /\ ready' = TRUE
  /\ Returns("train", "Ok")
  /\ UNCHANGED store

Insert(id, v) ==
  /\ ready
  /\ ~Holds(id)
  /\ \E seq \in Stamps :
       /\ \A e \in store : e.seq < seq
       /\ store' = store \cup {[id |-> id, vector |-> v, seq |-> seq]}
  /\ Returns("insert", "Ok")
  /\ UNCHANGED ready

Delete(id) ==
  /\ Holds(id)
  /\ store' = {e \in store : e.id # id}
  /\ Returns("delete", "Ok")
  /\ UNCHANGED ready

\* A retrain that fails keeps exactly what was stamped before `cut`.
LoseFrom(cut) ==
  /\ ready
  /\ store' = {e \in store : e.seq < cut}
  /\ reply'.call = "retrain"
  /\ reply'.outcome # "Ok"
  /\ UNCHANGED ready

\* Every other call: a successful retrain or setter, and any refusal.
Keep ==
  /\ \/ reply'.call \in {"retrain", "set_n_probes", "set_pq_refine_factor"}
     \/ reply'.outcome # "Ok"
  /\ reply'.outcome = "Duplicate" => store # {}
  /\ UNCHANGED <<ready, store>>

Next ==
  \/ Train
  \/ \E id \in Ids, v \in Vectors : Insert(id, v)
  \/ \E id \in Ids : Delete(id)
  \/ \E cut \in Stamps : LoseFrom(cut)
  \/ Keep

Spec == Init /\ [][Next]_storeVars
=============================================================================
