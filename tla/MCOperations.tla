---------------------------- MODULE MCOperations ----------------------------
(* Model values and symmetry for checking Operations.                      *)
EXTENDS Operations, TLC

Symmetry == Permutations(Accounts)

=============================================================================
