\* One backend process, as render-start.sh starts it; an attempt
\* may last for as long as the clock runs.
SPECIFICATION OrderSpec
CONSTANTS
    Jobs = {j1, j2}
    Workers = {w1}
    NoJob = NoJob
    MaxAttempts = 3
    Lease = 2
    BackoffBase = 1
    BackoffCap = 2
    RunBound = 6
    MaxFaults = 2
    Horizon = 6
INVARIANTS
    BoundedOvertaking
    ClaimIsCurrent
