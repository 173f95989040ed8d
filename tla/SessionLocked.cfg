SPECIFICATION BrowserSpec
CONSTANTS
    Tabs = {t1, t2}
    Requests = {r1, r2, r3}
    None = None
    Members = {m1, m2}
    MaxLogins = 1
    WebLocks = TRUE
    MaxTokens = 4
    MaxAttempts = 3
    MaxFaults = 2
INVARIANTS KeptByLockedTabs OneSession
PROPERTIES CurrentIsDemoted EndIsFinal EveryTabRefreshes LoadsSettle
CHECK_DEADLOCK FALSE
