SPECIFICATION Spec
CONSTANTS
    t1 = t1
    a = a
    b = b
    Tasks = {t1}
    Accounts = {a, b}
    None = None
    MaxLog = 3
    MaxRevision = 2
    Commands = {"resume", "discover"}
    Unreadable = {"journal", "rollout"}
    Race = FALSE
SYMMETRY Symmetry
INVARIANTS
    TypeOK
    RequestConsumesCheckpoint
    InterruptedRecorded
    BoundDispatch
    NoTakeover
    VerifiedTruth
CHECK_DEADLOCK FALSE
