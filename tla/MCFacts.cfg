SPECIFICATION FactsSpec
CONSTANTS
    Reviewers = {1, 2}
    ReviewsPage = 1
    RunsPage = 2
    Verdicts <- MCVerdicts
    CheckResults <- MCCheckResults
    Nullable = {"checks"}
    MaxEvents = 3
    MaxFetches = 2
PROPERTY WhatFailsIsKept
CHECK_DEADLOCK FALSE
