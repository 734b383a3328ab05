SPECIFICATION FairSpec
CONSTANTS
    Phases <- OnePhase
    Lands = {"l1"}
    Tests = {"t1"}
    MaxPushes = 0
    MaxFaults = 1
    MaxMisreads = 1
PROPERTIES
    MergedAfterRetest
    LandReleases
CHECK_DEADLOCK FALSE
