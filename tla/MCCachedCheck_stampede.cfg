\* Three calls miss together; the clock never reaches the TTL.
CONSTANTS
    Callers = {c1, c2, c3}
    NoCaller = nobody
    TTL = 2
    MaxNow = 1
SPECIFICATION HSpec
SYMMETRY CallerSymmetry
INVARIANTS
    AtMostTwoProbes
