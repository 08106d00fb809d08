SPECIFICATION FairSpec
CONSTANTS
    a = a
    b = b
    Accounts = {a, b}
    None = None
    MaxVersion = 2
    Logins = FALSE
    Interference = TRUE
    Race = FALSE
    HandoffRace = FALSE
INVARIANTS
    TypeOK
    CredentialCustody
    JournalCoversDivergence
    ClosedDesktopRecorded
    DesktopAgrees
    MarkerTruth
PROPERTIES
    InitializedJournalResolves
