SPECIFICATION FairTesterSpec
CONSTANTS
    n1 = n1
    n2 = n2
    n3 = n3
    t1 = t1
    t2 = t2
    t3 = t3
    h1 = h1
    a = a
    b = b
    NULL = NULL
    FILL = FILL
    Header = {h1}
    Node = {n1, n2}
    Str = {t1, t2}
    Char = {a, b}
    Text <- MCText
    BufSizes = {0, 1, 3}
    FailProbabilities = {0, 50}
    Checks <- MCChecks
    Reps = {2}
    SizeReps = {0, 1}
    Lengths <- MCLengths
    FailLimits = {0, 2}
    VerbLevels <- MCVerbLevels
    LogFiles = {"none"}
    MaxFailCount = 2
INVARIANTS
    TesterTypeOK
    CountAgrees
    HarnessReleased
    FatalOnlyWhenFull
PROPERTIES
    TimedCalls
    ErrorsAreDeserved
    MismatchIsReported
    CommandsReturn
CHECK_DEADLOCK TRUE
