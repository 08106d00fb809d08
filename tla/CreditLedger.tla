---------------------------- MODULE CreditLedger ----------------------------
(***************************************************************************)
(* What the reset paths promise about credits, without files, processes or *)
(* locks: at most one request per account is in doubt at any time, no key  *)
(* is ever used for a second request, and the service spends a credit only *)
(* for a request that is in doubt.  A request whose answer is known can no *)
(* longer cost anything.                                                   *)
(***************************************************************************)
EXTENDS Naturals

CONSTANTS Accounts, MaxKey

VARIABLES
    doubt,      \* the key in doubt for each account, 0 if none is
    asked,      \* keys a request was ever made with
    spent       \* keys that cost a credit

ledgerVars == <<doubt, asked, spent>>

Init == doubt = [a \in Accounts |-> 0] /\ asked = {} /\ spent = {}

Ask(a, k) ==
    /\ doubt[a] = 0 /\ k \notin asked
    /\ doubt' = [doubt EXCEPT ![a] = k]
    /\ asked' = asked \union {k}
    /\ UNCHANGED spent

Spend(a) ==
    /\ doubt[a] # 0 /\ doubt[a] \notin spent
    /\ spent' = spent \union {doubt[a]}
    /\ UNCHANGED <<doubt, asked>>

Answer(a) ==
    /\ doubt[a] # 0
    /\ doubt' = [doubt EXCEPT ![a] = 0]
    /\ UNCHANGED <<asked, spent>>

Next == \E a \in Accounts : Spend(a) \/ Answer(a) \/ \E k \in 1..MaxKey : Ask(a, k)

Spec == Init /\ [][Next]_ledgerVars

=============================================================================
