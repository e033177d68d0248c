SPECIFICATION FairSpec
CONSTANTS
    test_set <- MCTestSet
    TestRange <- MCTestRange
    MaxTestVals = 52
    LongBits = 8
    Ulp = 4
    RandMax = 2
    Fraction = 3
    Exponent = 3
    Ratings = {0, 3}
    GivenArgs = {5}
    NULL = NULL
INVARIANTS
    TypeOK
    ValuesCoverRange
    ReferenceAnswers
    HandoutEarnsNothing
PROPERTIES
    PointsAreEarned
    TesterEnds
CHECK_DEADLOCK TRUE
