SPECIFICATION FairSpec
CONSTANTS
    n1 = n1
    n2 = n2
    n3 = n3
    t1 = t1
    t2 = t2
    t3 = t3
    h1 = h1
    a = a
    b = b
    NULL = NULL
    FILL = FILL
    Header = {h1}
    Node = {n1, n2, n3}
    Str = {t1, t2, t3}
    Char = {a, b}
    Text <- MCText
    BufSizes = {0, 2, 3}
    FailProbabilities <- MCFailProbabilities
INVARIANTS
    TypeOK
    ListWellFormed
    ReverseKeepsNodes
    FreeKeepsRest
    Balanced
PROPERTIES
    ImplementsSequence
    LoopsReturn
CHECK_DEADLOCK TRUE
