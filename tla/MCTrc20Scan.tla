----------------------------- MODULE MCTrc20Scan -----------------------------
(***************************************************************************)
(* Trc20Scan on small instances.                                           *)
(***************************************************************************)
EXTENDS Trc20Scan, TLC

\* Replicas are interchangeable: nothing orders or names them.
ReplicaSymmetry == Permutations(Replica)

=============================================================================
