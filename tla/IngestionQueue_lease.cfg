\* Two backend processes at once (a deploy overlap), attempts shorter than the lease.
SPECIFICATION Spec
CONSTANTS
    Jobs = {j1, j2}
    Workers = {w1, w2}
    NoJob = NoJob
    MaxAttempts = 2
    Lease = 1
    BackoffBase = 1
    BackoffCap = 2
    RunBound = 1
    MaxFaults = 2
    Horizon = 4
SYMMETRY Symmetry
INVARIANTS
    TypeOK
    ClaimIsCurrent
    ExclusiveClaim
    AttemptsAccounted
PROPERTIES
    OutcomeIsFinal
    ImplementsLifecycle
