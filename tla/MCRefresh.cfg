SPECIFICATION MCSpec
CONSTANTS
    m1 = m1
    m2 = m2
    t1 = t1
    t2 = t2
    r1 = r1
    r2 = r2
    pr1 = pr1
    pr2 = pr2
    pr3 = pr3
    None = None
    Methods <- MCMethods
    Tokens <- MCTokens
    Listed <- MCListed
    Repository <- MCRepository
    Together <- MCTogether
    Worlds <- MCWorlds
    Callers = {cli, web}
    NoRun = NoRun
    Intervals = {2, 3}
    Default = 3
    MaxWait = 1
    MaxManual = 1
    MaxFailures = 1
    ChunkSize = 2
    MaxFaults = 1
    Tasks = {x1, x2}
    NoTask = NoTask
    PullRequests = {pr1, pr2}
    Refreshers = {cli, web}
    MaxEvents = 3
INVARIANTS
    EveryOutcome
    CacheWorks
    ErrorsNeedAttention
PROPERTIES
    NoOvertakenResult
    GrantsSpaced
    HolderRecords
    GrantsResume
    Converges
CHECK_DEADLOCK FALSE
