--------------------------- MODULE MCRegistration ---------------------------
(* Model values and symmetry for checking Registration.                    *)
EXTENDS Registration, TLC

Symmetry == Permutations(Accounts)

=============================================================================
