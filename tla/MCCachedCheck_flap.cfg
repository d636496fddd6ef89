\* Two overlapping calls: a success is recorded across a newer failure.
CONSTANTS
    Callers = {c1, c2}
    NoCaller = nobody
    TTL = 2
    MaxNow = 3
SPECIFICATION HSpec
SYMMETRY CallerSymmetry
INVARIANTS
    FailureDetected
