\* Two services: a caller that has decided, and a callee.
CONSTANTS
    N = 2
    Configs <- SamplerConfigs
    MaxCalls = 1
SPECIFICATION Spec
INVARIANTS
    ParentRespected
