------------------------- MODULE MCRefreshSessions -------------------------
(* TLC instances of RefreshSessions. *)
EXTENDS RefreshSessions, TLC

Symmetry == Permutations(Requests)
=============================================================================
