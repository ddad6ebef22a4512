SPECIFICATION Spec
CONSTANTS
    Keys = {k1, k2, k3}
    Responses = {r1, r2}
    MaxEntries = 2
    MinTtl = 1
    MaxTtl = 3
    Generations = {1, 2}
    Ttls = {0, 2, 9}
    MaxTime = 3
SYMMETRY ValueSymmetry
INVARIANTS
    TypeOK
    LruMirrorsTable
    CapacityBound
    LruIsRecency
PROPERTIES
    HitIsLatestInsert
    ErasesOnlyStale
    EvictsOnlyLeastRecentlyUsed
