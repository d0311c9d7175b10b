\* Two processes and two documents of two chunks; any one fault. No symmetry, since
\* two of the properties are liveness properties.
SPECIFICATION FairSpec
CONSTANTS
    Docs = {d1, d2}
    Workers = {w1, w2}
    NoDoc = NoDoc
    Pieces = {p1, p2}
    MaxAttempts = 2
    MaxFaults = 1
INVARIANTS
    TypeOK
    OneGeneration
    NeverUnsearchable
    StatusIsHonest
    CompletedIsProcessed
PROPERTIES
    ImplementsLifecycle
    EveryJobEnds
    DocumentOrJobSettles
\* Once every document is uploaded and every job has ended, nothing is left to do.
CHECK_DEADLOCK FALSE
