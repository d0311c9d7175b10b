\* One question, up to two chunks of two documents, two connections of up to
\* two fragments each.
SPECIFICATION FairSpec
CONSTANTS
    Docs = {d1, d2}
    MaxHits = 2
    Tokens <- MCTokens
    MaxTries = 2
    MaxFragments = 2
INVARIANTS
    TypeOK
    AnswerIsEvidenced
    SourcesWereAnnounced
    RecordedOnce
    RecordAgrees
PROPERTIES
    ImplementsContract
    AnswerEnds
\* The generator is used up.
CHECK_DEADLOCK FALSE
