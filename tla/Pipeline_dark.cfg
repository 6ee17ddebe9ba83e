SPECIFICATION Spec
CONSTANTS
    NoDark = NoDark
    Darks <- MCDarks
    Sessions <- MCSessions
    Requests <- MCRequests
    Hosts <- MCHosts
    MaxLines = 0
    MaxLost = 0
INVARIANT OnlyMatchingDarks
CHECK_DEADLOCK FALSE
