\* One run at a time; no store fails and no process dies.
SPECIFICATION Spec
CONSTANTS
    Tools = {t1}
    Files = {f1}
    Docs = {d1, u1}
    Uploads = {u1}
    Pieces = {p1}
    NoDoc = NoDoc
    NoFile = NoFile
    NoRow = NoRow
    MaxRuns = 2
    MaxFaults = 0
INVARIANT ForgetForgets
CHECK_DEADLOCK FALSE
