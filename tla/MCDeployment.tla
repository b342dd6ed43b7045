---------------------------- MODULE MCDeployment ----------------------------
(* TLC instances of Deployment. *)
EXTENDS Deployment, TLC

Symmetry == Permutations(Releases) \cup Permutations(Processes)
=============================================================================
