SPECIFICATION FairSpec
CONSTANTS
    a = a
    Accounts = {a}
    None = None
    MaxKey = 1
    MaxWindow = 2
    MaxCredits = 2
    Skips = TRUE
    Faults = {"rename", "sync", "load"}
    PowerLoss = TRUE
INVARIANTS
    CreditsNotLost
    ManualSurvives
PROPERTIES
    FirstRequestRecorded
    LockReleased
