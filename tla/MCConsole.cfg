SPECIFICATION FairSpec
CONSTANTS
    MaxFiles = 3
    MaxLines = 3
    ErrorLimits = {0, 2, 3}
    MaxTime = 1
INVARIANTS
    TypeOK
    ReleasedOnce
    SuccessIsClean
PROPERTIES
    QuitIsFinal
    EndsUnlessChained
CHECK_DEADLOCK TRUE
