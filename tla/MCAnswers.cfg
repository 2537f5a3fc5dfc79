SPECIFICATION AnswersSpec
CONSTANTS
    i1 = i1
    i2 = i2
    r1 = r1
    r2 = r2
    Corpus = {1, 2, 3}
    Doc <- MCDoc
    Byline <- MCByline
    Asked <- MCAsked
    Ranks <- MCRanks
    Nearest <- MCNearest
    KEYWORD_LIMIT = 2
    SEMANTIC_LIMIT = 2
    RRF_K = 60
    Whole = 3782
    Pages <- MCPages
    Hints <- MCHints
    Titles <- MCTitles
    Spelled <- MCSpelled
    Similarity <- MCSimilarity
    Replies <- MCReplies
    MATCH_THRESHOLD = 85
    MAX_CANDIDATES = 3
    Cards = {"p1", "p2"}
    TagNames = {"ml", "nlp"}
    Child <- MCChild
    ProjectNames = {"x"}
    MaxTags = 2
    MaxProjects = 1
    MaxChanges = 2
    Imports = {i1, i2}
    Inputs <- MCInputs
    MAX_HOPS = 2
    MaxElsewhere = 1
    Looks = {1, 2}
    MAX_CONCURRENT_RENDERS = 1
    MaxSlips = 1
    Readers = {r1, r2}
    Bibs <- MCBibs
    MaxReleases = 1
    Texts <- MCTexts
    TARGET_CHARS = 8
    OVERLAP_CHARS = 2
    BATCH = 2
    RetryPolicy <- MCRetryPolicy
    Timeout <- MCTimeout
    RetryAfters = {0, 3, 600}
    Ids = {"p1", "p2"}
    Selectors <- MCSelectors
    Paths = {"x", "y"}
    Lists <- MCLists
    MaxMeddling = 2
    MaxSnags = 2
    MaxCommands = 2
    Listed = {"p1", "p2"}
    Favourites = {"p1"}
    MaxGestures = 3
    MaxClicks = 5
    ChatPapers = {"p1", "p2"}
    MaxTexts = 2
    MaxSends = 2
    MaxMoves = 3
INVARIANTS AnswersTypeOK SearchHolds MetadataHolds LibraryHolds OutsideHolds ScreenHolds
PROPERTY KeepsTheBetter
CHECK_DEADLOCK FALSE
