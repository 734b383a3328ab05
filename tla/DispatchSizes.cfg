SPECIFICATION Spec
CONSTANTS
    a1 = a1
    a2 = a2
    a3 = a3
    Agents = {a1, a2}
    MaxConcurrent = 2
    TopSize = 4
    MaxOps = 1
    MaxInputs = 1
    MaxFaults = 1
SYMMETRY MCSymmetry
INVARIANTS
    TypeOK
    BumpsPaid
CHECK_DEADLOCK FALSE
