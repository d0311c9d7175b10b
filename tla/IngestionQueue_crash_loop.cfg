\* One job whose process dies each time it is processed.
SPECIFICATION Spec
CONSTANTS
    Jobs = {j1}
    Workers = {w1}
    NoJob = NoJob
    MaxAttempts = 2
    Lease = 1
    BackoffBase = 1
    BackoffCap = 2
    RunBound = 1
    MaxFaults = 3
    Horizon = 8
INVARIANT CrashLoopBounded
