-------------------------------- MODULE Assign --------------------------------
(***************************************************************************)
(* The one kernel that training, insert, retrain and search share: which   *)
(* centroid a vector belongs to (src/src/assign.rs).                       *)
(***************************************************************************)
EXTENDS Integers

CONSTANTS
  NClusters,  \* cfg.n_clusters
  SquaredL2   \* squared_l2: the distance of a centroid and a vector

Clusters == 1..NClusters

\* The nearest centroid; among equals the lowest index.
AssignToCluster(cents, v) ==
  CHOOSE c \in Clusters :
    \A d \in Clusters :
      /\ SquaredL2[cents[c], v] <= SquaredL2[cents[d], v]
      /\ d < c => SquaredL2[cents[c], v] < SquaredL2[cents[d], v]
=============================================================================
