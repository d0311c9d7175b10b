\* The same promise with one process death.
SPECIFICATION FairSpec
CONSTANTS
    Docs = {d1}
    Workers = {w1}
    NoDoc = NoDoc
    Pieces = {p1}
    MaxAttempts = 2
    MaxFaults = 1
PROPERTY DocumentSettles
CHECK_DEADLOCK FALSE
