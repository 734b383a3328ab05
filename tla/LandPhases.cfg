SPECIFICATION Spec
CONSTANTS
    Phases <- TwoPhases
    Lands = {"l1"}
    Tests = {}
    MaxPushes = 1
    MaxFaults = 2
    MaxMisreads = 0
INVARIANTS
    TypeOK
    OneActPerLand
PROPERTY
    ReadyAfterTests
CHECK_DEADLOCK FALSE
