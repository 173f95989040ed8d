SPECIFICATION SiteSpec
CONSTANTS
    None = None
    Streams = {s1, s2}
    MaxStreams = 1
    MaxRetries = 1
    MaxReports = 1
    MaxRuns = 2
    MaxReloads = 1
    Changes = {c1}
    Sent = Sent
    Spoken = {w1, w2}
    MaxTurns = 2
    MaxListens = 1
    Cards = {w1, w2}
    Words = {w1}
    MaxPending = 2
    MaxMoves = 4
    MaxDraws = 4
    Targets = {t1, t2}
    MaxVersions = 3
    MaxWords = 2
    MaxTries = 2
    MaxRounds = 2
    WordsPerGame = 2
    MinPronounced = 1
    HintCost = 2
    GridSize = 2
    MaxStart = 1
    MinWords = 1
    MinChoices = 2
    Completions = {r1, r2, r3}
    Games = {g1, g2}
    MaxSheet = 4
    MaxImportRows = 3
    GeminiBatch = 2
    QueueThreshold = 2
    DeadlockRetries = 1
    JobRetries = 1
    Spellings = {p1}
    Languages = {l1, l2, l3}
    Voiced = {l1, l2}
    MaxShown = 2
    MaxClicks = 3
    Replicas = {n1, n2}
    Shas = {v1, v2}
    MaxCopies = 3
    MaxReads = 2
    MaxFaults = 1
INVARIANTS PageFollowsJob StaleIsExcused ScoredWordWasRecorded
    MarksStayOnWords QuickSavesKeep EveryRoundCounts FullLevelIsSeen
    RowsAreKept HeardIsShown CommitIsEverywhere
PROPERTIES FinalStatusStays PromotionIsPaid EditsAreKept
CHECK_DEADLOCK FALSE
