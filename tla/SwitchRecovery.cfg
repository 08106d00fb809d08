SPECIFICATION FairSpec
CONSTANTS
    a = a
    b = b
    c = c
    Accounts = {a, b, c}
    None = None
    MaxVersion = 1
    Logins = FALSE
    Interference = FALSE
    Race = TRUE
INVARIANTS
    TypeOK
    IntentRecoverable
    IntentCoversDivergence
PROPERTIES
    PendingIntentResolves
