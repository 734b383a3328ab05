CONSTANTS
    Kinds = {"task", "review", "scripted"}
    Steers = {1, 2}
    Drains = {"d1", "d2"}
    MaxPods = 2
    MaxFaults = 1
SPECIFICATION Spec
INVARIANTS TypeOK WorkAccounted ResumesWithTranscript
PROPERTY SteersInterrupt
CHECK_DEADLOCK FALSE
