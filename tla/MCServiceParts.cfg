\* Two requests over a pool of two, two processes over one collection, three runs of
\* create_admin, two clients of the login, three chunks, two threads that answer, two
\* questions in two conversations.
SPECIFICATION PartsSpec
CONSTANTS
    Requests = {r1, r2}
    PoolSize = 2
    MaxSessionFaults = 1
    Processes = {p1, p2}
    Vectors = {v1, v2}
    OldDim = old
    NewDim = new
    NoCollection = NoCollection
    Operators = {o1, o2, o3}
    NoAccount = NoAccount
    Clients = {c1, c2}
    Addresses = {a1, a2}
    HomeOf <- MCHomeOf
    ServiceKey = key
    OtherKeys = {k1}
    NoKey = NoKey
    MaxLogins = 2
    MaxRestarts = 1
    Chunks = {b1, b2, b3}
    K = 2
    Fetch = 3
    Candidates = 2
    TopK = 1
    RelevanceScores <- MCScores
    Threads = {h1, h2}
    MaxAnswers = 2
    Replies = {m1, m2}
    Chats = {ch1, ch2}
    NoChat = NoChat
INVARIANTS
    PartsTypeOK
    OutcomeIsAccounted
    AccountIsAsReported
    UnverifiedAreLimited
    FusionIsFair
    RerankAligned
    RatesAreShares
    UnfinishedIsRead
PROPERTIES
    EveryRequestEnds
    FittingCollectionIsKept
    TheCollectionSettles
    StoppedStays
\* Most parts come to an end: every request is answered, the runs are over.
CHECK_DEADLOCK FALSE
