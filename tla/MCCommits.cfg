SPECIFICATION MCSpec
CONSTANTS
    MaxProjects = 5
    MaxFeatures = 5
    MaxTasks = 6
    MaxDocuments = 5
    b1 = b1
    b2 = b2
    pr1 = pr1
    pr2 = pr2
    c1 = c1
    c2 = c2
    Bodies <- MCBodies
    PullRequests <- MCPullRequests
    Connections = {c1, c2}
    Operations <- MCOperations
    MaxOperations = 3
    Tabs = {tab1}
    Width = 3
    MaxCommits = 2
    MaxWrites = 1
    MaxFailures = 2
INVARIANTS
    ValidateClean
    CascadesSucceed
    NothingPublishedIsLost
PROPERTIES
    TransactionsAreAtomic
    IdsNeverReused
    ChangesArrive
    StallReported
CHECK_DEADLOCK FALSE
