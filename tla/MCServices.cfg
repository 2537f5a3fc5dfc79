SPECIFICATION ServicesSpec
CONSTANTS
    Names = {"a", "b"}
    MaxDrops = 2
    Unreadable = {2}
    MaxAttempts = 2
    MaxMishaps = 2
    MaxStops = 1
    Shelf = {1, 2}
    BATCH = 1
    MAX_ATTEMPTS = 2
    MaxEvents = 2
    Arxiv = {"x", "y"}
    Feeds <- MCFeeds
    IncludeCross = TRUE
    MaxPapers = 1
    RetentionDays = 0
    LastDay = 2
    MaxRuns = 3
    MaxBreaks = 1
    Embedded = {"v1", "v2"}
    Seqs <- MCSeqs
    NoEdition = NoEdition
    MaxHappenings = 3
INVARIANTS ServicesTypeOK WatchAccounts WorkRecorded DailyAccounts
PROPERTY EveryoneServed
CHECK_DEADLOCK FALSE
