CONSTANTS
    Agents = {"a1", "a2"}
    Symbols = {"apply"}
    CallersOf <- MCCallersOf
    ForkOf <- MCForkOf
    Modes = {"enforce", "advisory"}
    LeasePeriod = 1
    MaxCompute = 1
    Cutoff = 2
    Ttl = 3
    MaxEdits = 2
    MaxStrikes = 1
    MaxFaults = 1
SPECIFICATION Spec
INVARIANTS TypeOK ContestIsReported
PROPERTIES FrozenIsRefused  DeadLeasesFreed
CHECK_DEADLOCK FALSE
