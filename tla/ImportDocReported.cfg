CONSTANTS
    Jobs = {j1}
    Workers = {w1}
    None = None
    MaxFaults = 3
    MaxCopies = 2
    MaxRetries = 1
SPECIFICATION Spec
PROPERTY ReportedSuccessStays
CHECK_DEADLOCK FALSE
