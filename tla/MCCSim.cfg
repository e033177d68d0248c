SPECIFICATION Spec
CONSTANTS
    S = 2
    E = 2
    B = 2
    Half = 128
    Address <- MCAddress
    MaxAccesses = 6
    Leftover <- FreshMemory
INVARIANTS
    TypeOK
    TotalsAddUp
    StampsOrderUses
PROPERTIES
    StoreOfModifyHits
    ImplementsLRU
CHECK_DEADLOCK FALSE
