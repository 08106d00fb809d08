--------------------------- MODULE MCTaskRecovery ---------------------------
(* Model values, symmetry and scenarios for checking TaskRecovery.         *)
EXTENDS TaskRecovery, TLC

Symmetry == Permutations(Tasks) \union Permutations(Accounts)

=============================================================================
