SPECIFICATION MCSpec
CONSTANTS
    MaxProjects = 3
    MaxFeatures = 3
    MaxTasks = 3
    MaxDocuments = 2
    Unset = Unset
    Default = Default
    t1 = t1
    t2 = t2
    pr1 = pr1
    Texts <- MCTexts
    Bodies <- MCBodies
    PullRequests <- MCPullRequests
    Clients = {cli}
    Servers = {server}
    Commands <- MCCommands
    Messages <- MCMessages
    MaxRequests = 2
    MaxSessions = 3
    MaxLive = 2
    MaxStreams = 2
    MaxChangesMade = 1
    Graphs = {3}
    MaxDrags = 1
    MaxMishaps = 1
PROPERTY ArchivedOnlyByRequest
CHECK_DEADLOCK FALSE
