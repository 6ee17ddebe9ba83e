SPECIFICATION Spec
CONSTANTS
    NumFrames = 3
    ClusterEvery = 2
    MaxTroubles = 1
    MinFrames = 2
INVARIANT ScanIsComplete
PROPERTY GrowthKeepsSessions
PROPERTY ScansCatchUp
CHECK_DEADLOCK FALSE
