SPECIFICATION Spec
CONSTANTS
    a = a
    b = b
    Accounts = {a, b}
    None = None
    MaxVersion = 2
    Logins = TRUE
    Interference = TRUE
    Race = FALSE
    HandoffRace = FALSE
SYMMETRY Symmetry
INVARIANTS
    CredentialCustody
    DivergenceExplained
    ClosedDesktopRecorded
    DesktopAgrees
    SessionTruth
