CONSTANTS
    Tabs = {t1, t2}
    Requests = {r1, r2}
    None = None
    WebLocks = FALSE
    MaxTokens = 4
    MaxAttempts = 3
    MaxFaults = 0
SPECIFICATION Spec
INVARIANT KeptByConcurrentTabs
CHECK_DEADLOCK FALSE
