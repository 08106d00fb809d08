SPECIFICATION Spec
CONSTANTS
    Tasks = {t1}
    Accounts = {a}
    None = None
    t1 = t1
    a = a
    MaxLog = 3
    MaxRevision = 0
    Commands = {"discover"}
    Unreadable = {}
    Race = FALSE
INVARIANTS
    ResumedLeftAlone
CHECK_DEADLOCK FALSE
