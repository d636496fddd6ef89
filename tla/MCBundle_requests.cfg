\* Two requests at once, each handler doing up to two things to its writer.
CONSTANTS
    Requests = {r1, r2}
    Codes = {103, 503}
    Patterns = {"/items/{id}"}
    MaxOps = 2
SPECIFICATION Spec
SYMMETRY RequestSymmetry
INVARIANTS
    TypeOK
    GaugeExact
    CountedOnce
    ScrapeConsistent
    StatusFaithful
    RouteRecorded
