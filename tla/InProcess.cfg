CONSTANTS
    Agents = {"a"}
    Messages = {"m1", "m2"}
    Tasks = {"t"}
    Slots = {1, 2, 3}
    Cap = 1
    MaxOps = 1
    MaxFaults = 1
SPECIFICATION Spec
INVARIANTS TypeOK TakenOnce DrainingTracked
 
CHECK_DEADLOCK FALSE
