SPECIFICATION Spec
CONSTANTS
    a = a
    b = b
    Accounts = {a, b}
    None = None
    MaxKey = 1
    MaxWindow = 1
    MaxCredits = 1
    Skips = FALSE
    Faults = {}
    PowerLoss = FALSE
PROPERTIES
    SuppressedWhileUnresolved
