SPECIFICATION IndexSpec
CONSTANTS
    Papers = {p1}
    Versions = 2
    Gone = Gone
    NoRow = NoRow
    NoDoc = NoDoc
    NoMeta = NoMeta
    NoPaper = NoPaper
    Semantic = TRUE
    Rare = {"open"}
    MaxEdits = 0
    MaxFailures = 0
    MaxDeaths = 2
INVARIANT FtsFresh
CHECK_DEADLOCK FALSE
