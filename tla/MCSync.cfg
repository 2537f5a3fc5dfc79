SPECIFICATION SyncSpec
CONSTANTS
    own = own
    baked = baked
    amber = amber
    rose = rose
    Marks = {own, baked}
    Baked = {baked}
    Contents = {amber, rose}
    None = None
    NoRequest = NoRequest
    MaxOpens = 2
    MaxActions = 3
    MaxLost = 1
    p1 = p1
    Papers = {p1}
    Versions = 2
    Gone = Gone
    NoRow = NoRow
    NoDoc = NoDoc
    NoMeta = NoMeta
    NoPaper = NoPaper
    Semantic = TRUE
    Rare = {}
    MaxEdits = 3
    MaxFailures = 2
    MaxDeaths = 1
INVARIANTS AnnotTypeOK Converged NeverAdopted IndexTypeOK FtsFresh VectorsFresh
PROPERTY InStep
CHECK_DEADLOCK FALSE
