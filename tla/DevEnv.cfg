CONSTANTS
    Envs = {1, 2}
    Starters = {"s1"}
    MaxOps = 1
    MaxFaults = 1
SPECIFICATION Spec
INVARIANTS TypeOK NoLeakedDeployment
PROPERTY EnvReclaimed
CHECK_DEADLOCK FALSE
