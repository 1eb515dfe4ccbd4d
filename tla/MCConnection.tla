---------------------------- MODULE MCConnection ----------------------------
(* The goroutines of a few connections. *)
EXTENDS Connection, TLC

Symmetry == Permutations(Client)
=============================================================================
