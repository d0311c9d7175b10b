\* One timeout in the middle of a stream is enough.
SPECIFICATION Spec
CONSTANTS
    Docs = {d1}
    MaxHits = 1
    Tokens <- MCTokens
    MaxTries = 2
    MaxFragments = 1
INVARIANT RetriedBeforeText
CHECK_DEADLOCK FALSE
