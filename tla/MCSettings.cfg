SPECIFICATION MCSpec
CONSTANTS
    server = server
    cli = cli
    github = github
    ghe = ghe
    m1 = m1
    m2 = m2
    design = design
    batch = batch
    mine = mine
    ready = ready
    red = red
    token = token
    v1 = v1
    p1 = p1
    Blank = Blank
    BadText = BadText
    AutoPort = AutoPort
    GitHubCom = github
    Kinds <- MCKinds
    Texts <- MCTexts
    Labels <- MCLabels
    MinimumInterval = 1
    DefaultInterval = 2
    Processes <- MCProcesses
    Server = server
    Locale <- MCLocale
    Requests <- MCRequests
    Files <- MCFiles
    Edits <- MCEdits
    MaxRequests = 2
    MaxEdits = 1
    MaxCrashes = 1
    Written <- MCWritten
    MaxPromptEdits = 2
    MaxPrompts = 1
INVARIANT PromptsAreWhatStood
PROPERTIES
    UpdatesAreAtomic
    ImplicitStaysOff
    DefaultsFollowLanguage
    RequestsEnd
CHECK_DEADLOCK FALSE
