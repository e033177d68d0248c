SPECIFICATION FairSpec
CONSTANTS
    Runs = 2
    Funcs = 2
    Submission = 1
INVARIANTS
    TypeOK
    CreditIsDeserved
    MissesAreOwn
PROPERTIES
    DriverEnds
CHECK_DEADLOCK TRUE
