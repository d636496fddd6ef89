\* One request whose handler sends 103 Early Hints before its reply.
CONSTANTS
    Requests = {r1}
    Codes = {103, 503}
    Patterns = {"/items/{id}"}
    MaxOps = 2
SPECIFICATION Spec
INVARIANTS
    StatusAsWritten
