------------------------------ MODULE MCOsaQue ------------------------------
(* Three or four threads that may each put or get, on a ring of two.       *)
EXTENDS OsaQue, TLC

Symmetry == Permutations(Threads) \cup Permutations(Values)
=============================================================================
