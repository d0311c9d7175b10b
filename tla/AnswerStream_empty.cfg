\* One empty text, and nothing after it, is enough.
SPECIFICATION FairSpec
CONSTANTS
    Docs = {d1}
    MaxHits = 1
    Tokens <- MCTokens
    MaxTries = 2
    MaxFragments = 1
PROPERTY KeepsContract
CHECK_DEADLOCK FALSE
