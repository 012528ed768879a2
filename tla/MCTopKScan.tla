------------------------------ MODULE MCTopKScan ------------------------------
(***************************************************************************)
(* Every sequence of up to four candidates at three distances (ties        *)
(* between two, three or all of them) with their stamps in every order.    *)
(* TLC keeps the value of InputSet, but would not keep that of a           *)
(* definition a constant is replaced by.                                   *)
(***************************************************************************)
EXTENDS TopKScan

MCStampOrders(n) == {f \in [1..n -> 1..n] : IsInjective(f)}

InputSet ==
  UNION {{[i \in 1..n |-> [dist |-> dists[i], seq |-> seqs[i]]] :
            dists \in [1..n -> 0..2], seqs \in MCStampOrders(n)} : n \in 0..4}
MCInputs == InputSet
=============================================================================
