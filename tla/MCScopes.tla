------------------------------ MODULE MCScopes ------------------------------
(* Scopes with interchangeable names. *)
EXTENDS Scopes, TLC
NameSymmetry == Permutations(Names)
=============================================================================
