CONSTANTS
    Reviewers = {"r1", "r2"}
    Callers = {"c1", "c2"}
    MaxRounds = 2
    MaxOps = 3
    MaxFaults = 1
SPECIFICATION Spec
INVARIANT TypeOK
PROPERTIES LateOutputIgnored ResumedVerdictLands 
CHECK_DEADLOCK FALSE
