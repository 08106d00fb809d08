SPECIFICATION Spec
CONSTANTS
    a = a
    b = b
    Accounts = {a, b}
    None = None
    MaxVersion = 3
    Logins = TRUE
    Interference = TRUE
    Race = FALSE
SYMMETRY Symmetry
INVARIANTS
    TypeOK
    CredentialCustody
PROPERTY ReloginGivesWay
