SPECIFICATION ReplaySpec
CONSTANTS
    Invocations <- MCInvocations
    Scored <- MCScored
    S = 32
    E = 1
    BlockBytes = 32
    Half = 1048576
    Address <- MCAddress
    MaxAccesses = 20000
    Leftover <- FreshMemory
INVARIANTS
    TypeOK
    InBounds
    AllValid
    MissesInBudget
PROPERTIES
    PlacedStays
CHECK_DEADLOCK TRUE
