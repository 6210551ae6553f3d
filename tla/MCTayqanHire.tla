---------------------------- MODULE MCTayqanHire ----------------------------
(* TayqanHire for TLC: neither desks nor months are told apart.             *)
EXTENDS TayqanHire, TLC

Symmetry == Permutations(Desk) \cup Permutations(Monthly)
=============================================================================
