SPECIFICATION Spec
CONSTANTS
    Runs = 2
    Funcs = 2
    Submission = 1
INVARIANTS
    CrashIsNotCorrect
CHECK_DEADLOCK TRUE
