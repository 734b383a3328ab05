CONSTANTS
    Changes = {1, 2}
    Deploys = {1, 2}
    Tests = {"t1"}
    Clicks = {"k1"}
    DeployPhases = {TRUE, FALSE}
    MaxGateFaults = 1
SPECIFICATION GateSpec
INVARIANT GateTypeOK
PROPERTIES DecidedStaysDecided 
CHECK_DEADLOCK FALSE
