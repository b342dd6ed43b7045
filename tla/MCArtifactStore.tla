--------------------------- MODULE MCArtifactStore ---------------------------
(* Instances of ArtifactStore for TLC. *)
EXTENDS ArtifactStore, TLC

AllFaults == [kill |-> 1, error |-> 1, power |-> 1]
PowerOnly == [kill |-> 0, error |-> 0, power |-> 1]

Symmetry == Permutations(Publishers)
=============================================================================
