SPECIFICATION PodFairSpec
CONSTANTS
    Messages = {"m1"}
    MaxPodOps = 1
    MaxPodFaults = 1
INVARIANT
    PodTypeOK
PROPERTIES
    MonitorSparesWorkers
    LostIsReconciled
CHECK_DEADLOCK FALSE
