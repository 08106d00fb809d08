--------------------------- MODULE MCDirectSwitch ---------------------------
(* Instances of DirectSwitch for TLC.  The accounts are interchangeable.   *)
EXTENDS DirectSwitch, TLC

Symmetry == Permutations(Accounts)

=============================================================================
