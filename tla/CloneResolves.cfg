SPECIFICATION CloneSpec
CONSTANTS
    a1 = a1
    a2 = a2
    c1 = c1
    ServerJobs = {a1, a2}
    CliJobs = {c1}
    NoJob = NoJob
    NoRow = NoRow
    Nothing = Nothing
    MaxCrashes = 2
    MaxDetaches = 0
PROPERTY Resolves
CHECK_DEADLOCK FALSE
