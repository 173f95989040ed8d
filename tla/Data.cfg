SPECIFICATION DataSpec
CONSTANTS
    None = None
    Requests = {r1, r2}
    Users = {a1, a2}
    Emails = {b1, b2}
    MaxLinks = 2
    MaxResets = 1
    MaxSecrets = 2
    MaxSessions = 1
    MaxChanges = 1
    Packages = {a1, a2, p3}
    Legacy = {a1, a2}
    Details = {b1, b2, d3}
    MaxEntries = 1
    MaxDay = 4
    MaxRuns = 3
    Retention = 2
    Tables = {t1, t2}
    MaxRestores = 1
    PageSize = 1
    Total = 2
    MaxActivities = 3
    MaxSeconds = 2
    MaxFaults = 1
SYMMETRY Symmetry
INVARIANTS NothingOutlivesReset LinksWorkOnce VerifiedIsProven
    StreakIsEarned LastBackupIsKept JournalIsWhole
PROPERTIES OthersKeepTheirWords 
CHECK_DEADLOCK FALSE
