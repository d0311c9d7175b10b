\* One document, one process, no process death: one failed attempt is enough.
SPECIFICATION Spec
CONSTANTS
    Docs = {d1}
    Workers = {w1}
    NoDoc = NoDoc
    Pieces = {p1}
    MaxAttempts = 2
    MaxFaults = 0
INVARIANT RetryConverges
CHECK_DEADLOCK FALSE
