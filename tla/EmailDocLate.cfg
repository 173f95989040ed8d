SPECIFICATION Spec
CONSTANTS
    Jobs = {e1}
    Workers = {w1}
    None = None
    MaxCopies = 1
    MaxRetries = 2
    DirectRetries = 2
    MaxFaults = 1
INVARIANT LateCopyIsSkipped
CHECK_DEADLOCK FALSE
