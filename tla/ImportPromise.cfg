SPECIFICATION FairSpec
CONSTANTS
    Jobs = {j1}
    Workers = {w1}
    None = None
    MaxFaults = 2
    MaxCopies = 3
    MaxRetries = 1
INVARIANT SuccessIsTrue
PROPERTIES JournalSettles PromiseKept
CHECK_DEADLOCK FALSE
