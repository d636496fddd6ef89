\* Three services: the least with one in between that cuts the chain.
CONSTANTS
    N = 3
    Configs <- ChainConfigs
    MaxCalls = 2
SPECIFICATION Spec
INVARIANTS
    TypeOK
    WholeTrace
    LinesJoin
    StateCapped
    CommandsTraced
