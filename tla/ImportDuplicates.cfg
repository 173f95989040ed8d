CONSTANTS
    Jobs = {j1}
    Workers = {w1, w2}
    None = None
    MaxFaults = 2
    MaxCopies = 3
    MaxRetries = 1
SPECIFICATION Spec
SYMMETRY Symmetry
INVARIANTS AppliedAtMostOnce NoJobLost
CHECK_DEADLOCK FALSE
