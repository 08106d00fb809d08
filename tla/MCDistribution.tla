--------------------------- MODULE MCDistribution ---------------------------
(* Instances of Distribution for TLC.  The accounts are interchangeable.   *)
EXTENDS Distribution, TLC

Symmetry == Permutations(Accounts)

=============================================================================
