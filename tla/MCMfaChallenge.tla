--------------------------- MODULE MCMfaChallenge ---------------------------
(* TLC instances of MfaChallenge. *)
EXTENDS MfaChallenge, TLC

Symmetry == Permutations(Requests)
=============================================================================
