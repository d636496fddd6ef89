\* Two callers, no symmetry; either probe may hang for ever.
CONSTANTS
    Callers = {c1, c2}
    NoCaller = nobody
    TTL = 2
    MaxNow = 3
SPECIFICATION HFairSpec
INVARIANTS
    TypeOK
    MutexDiscipline
    RecordedInOrder
    FlapNeedsOverlap
PROPERTIES
    LookupIsExact
    LastOKMonotone
    ImplementsContract
    CacheNeverBlocks
