SPECIFICATION FairSpec
CONSTANTS
    a = a
    b = b
    Accounts = {a, b}
    None = None
    Profiles <- MCProfiles
    Settings <- MCSettings
    Readings <- MCReadings
    Threshold = 1
    Failures = {"window"}
    BaseDelay = 1
    MaxDelay = 2
    StreakReset = 3
    MaxFailures = 3
    MaxTries = 4
INVARIANTS
    TypeOK
    NeedIsMet
    QuietAfterSwitch
    NeverDominated
    RetriesBounded
PROPERTIES
    RetriedForEver
