CONSTANTS
    BossCycles = {"manual"}
    Requests = {1}
    Threshold = 1
    MaxActions = 2
    MaxEvents = 1
    Policy = "auto"
    Priority = "medium"
    ToolOf <- MCToolOf
SPECIFICATION Spec
INVARIANTS TypeOK AllowedWasApproved
PROPERTY StaleIsJudged
CHECK_DEADLOCK FALSE
