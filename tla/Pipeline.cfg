SPECIFICATION FairSpec
CONSTANTS
    NoDark = NoDark
    Darks <- MCDarks
    Sessions <- MCSessions
    Requests <- MCRequests
    Hosts <- MCHosts
    MaxLines = 2
    MaxLost = 1
INVARIANT PromisedDarkIsApplied
INVARIANT OutcomeWaitsForTool
PROPERTY BarNeverRewinds
PROPERTY CancelEnds
CHECK_DEADLOCK FALSE
