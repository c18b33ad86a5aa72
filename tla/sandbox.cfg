CONSTANTS
    c1 = c1
    c2 = c2
    x1 = x1
    x2 = x2
    k1 = k1
    git = git
    Callers = {c1, c2}
    Executors = {x1, x2}
    Uses <- OwnExecutors
    Caches = {k1}
    Authority = {git}
    Requests <- AllRequests
    Files = {1, 2}
    First = 1
    MaxRuns = 2
    Turns <- SomeOrders
    MaxEvents = 1
SPECIFICATION FairSpec
INVARIANTS
    TypeOK
    CacheExclusive
    NothingLeftBehind
    ServerIsPinned
PROPERTIES
    SuccessIsComplete
    ForeignUntouched
    ImplementsCredentialChain
    CallsEnd
CHECK_DEADLOCK FALSE
