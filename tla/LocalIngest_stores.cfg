\* Two runs of the tool at a time, four in all, over one file, the two ids it may be
\* given and one upload; one death or failed --forget.
SPECIFICATION Spec
CONSTANTS
    Tools = {t1, t2}
    Files = {f1}
    Docs = {d1, d2, u1}
    Uploads = {u1}
    Pieces = {p1, p2}
    NoDoc = NoDoc
    NoFile = NoFile
    NoRow = NoRow
    MaxRuns = 4
    MaxFaults = 1
SYMMETRY Symmetry
INVARIANTS
    TypeOK
    AlwaysAnswerable
    OneGeneration
    NoUnreachableVectors
    StoredObjectExists
\* Once every command has been given, nothing is left to do.
CHECK_DEADLOCK FALSE
