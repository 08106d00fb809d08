---------------------------- MODULE MCResetCredit ---------------------------
(* Instances of ResetCredit for TLC.  The accounts are interchangeable.    *)
EXTENDS ResetCredit, TLC

Symmetry == Permutations(Accounts)

=============================================================================
