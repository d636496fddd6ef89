\* Two calls of Init, under every pair of typical configurations.
\* Every Obs may be down and every span sent: the process may stop.
CONSTANTS
    Inits = {i1, i2}
    NoInit = none
    Configs <- TypicalConfigs
SPECIFICATION Spec
SYMMETRY InitSymmetry
CHECK_DEADLOCK FALSE
INVARIANTS
    TypeOK
    FailedInitHoldsNothing
    StoppedByOwn
    SpansReachOwnOrNewer
