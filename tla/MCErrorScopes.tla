---------------------------- MODULE MCErrorScopes ----------------------------
(* ErrorScopes with a few errors, scopes and listeners.                      *)
EXTENDS ErrorScopes

Symmetry == Permutations(Errors) \cup Permutations(Pops)
=============================================================================
