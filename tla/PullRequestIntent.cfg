CHECK_DEADLOCK FALSE
SPECIFICATION PullRequestSyncSpec
CONSTANTS
    Tasks = {t1, t2}
    NoTask = NoTask
    PullRequests = {pr1, pr2}
    Refreshers = {cli, web}
    MaxEvents = 1
PROPERTY RefreshKeepsIntent
