\* Two events, so that one follows a failed write.
CONSTANTS
    Lines <- SomeLines
    CustomLists <- SomeLists
    MaxEvents = 2
SPECIFICATION Spec
INVARIANTS
    TypeOK
    NoDeniedValueWritten
    OthersKept
    WriteHonest
