SPECIFICATION Spec
CONSTANTS
    a = a
    b = b
    Accounts = {a, b}
    None = None
    MaxVersion = 2
    Logins = FALSE
    Interference = TRUE
    Race = FALSE
    HandoffRace = TRUE
INVARIANTS
    CredentialCustody
