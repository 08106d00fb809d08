SPECIFICATION Spec
CONSTANTS
    a = a
    b = b
    Accounts = {a, b}
    None = None
    MaxKey = 2
    MaxWindow = 1
    MaxCredits = 1
    Skips = TRUE
    Faults = {"rename", "sync", "load"}
    PowerLoss = FALSE
SYMMETRY Symmetry
INVARIANTS
    TypeOK
    InDoubtRecorded
    SettledTruth
PROPERTIES
    RotationHeld
    KeepsLedger
