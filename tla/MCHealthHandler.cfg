\* Deadlines of a check below, above and at the Checker's, or none at all; a
\* Checker whose timeout has passed before it starts.
CONSTANTS
    Names = {heeds, deaf}
    Timeouts = {0, 2}
    CheckTimeouts = {0, 1, 5}
    Honouring = {heeds}
    NoCheck = nobody
    MaxElapsed = 3
SPECIFICATION FairSpec
INVARIANTS
    TypeOK
    JoinsAll
    NoContextOutlivesTimeout
PROPERTIES
    ImplementsReport
    Answered
