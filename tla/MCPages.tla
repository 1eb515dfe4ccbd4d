------------------------------- MODULE MCPages -------------------------------
(* A few pages in one room. *)
EXTENDS Pages, TLC

PagesSymmetry == Permutations(Client)
=============================================================================
