SPECIFICATION FairSpec
CONSTANTS
    a1 = a1
    a2 = a2
    a3 = a3
    Agents = {a1, a2}
    MaxConcurrent = 1
    TopSize = 2
    MaxOps = 2
    MaxInputs = 0
    MaxFaults = 1
INVARIANTS
    DispatchBound
    FlowsTracked
PROPERTIES
    
    QueuedIsServed
CHECK_DEADLOCK FALSE
