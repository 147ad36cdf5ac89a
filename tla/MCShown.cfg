SPECIFICATION MCSpec
CONSTANTS
    MaxProjects = 1
    MaxFeatures = 2
    MaxTasks = 4
    MaxDocuments = 1
    Bodies <- MCBodies
    Statuses <- MCStatuses
    PullRequests <- MCPullRequests
    FeatureStatuses = {"auto", "completed"}
    MaxCommits = 2
    Reviewers = {1, 2}
    ReviewsPage = 1
    RunsPage = 2
    Verdicts <- MCVerdicts
    CheckResults <- MCCheckResults
    Nullable = {"checks", "requests"}
    MaxEvents = 3
    MaxFetches = 2
    Hosts = {"github.com", "ghe"}
    MaxChanges = 3
    Keys <- MCKeys
    Stable <- MCStable
    Texts <- MCTexts
    Colors = {"red"}
    MaxUpdates = 2
INVARIANT LabelsMeanWhatTheyShow
PROPERTIES
    ShownWasSo
    BatchesAreClosed
    TabsConverge
    RoutesAgree
    ChangeRequestsStand
    ReportTellsTheTruth
CONSTRAINT OneReads
CHECK_DEADLOCK FALSE
