SPECIFICATION TurnsSpec
CONSTANTS
    t1 = t1
    t2 = t2
    Turns = {t1, t2}
    MaxFaults = 1
INVARIANTS TurnsTypeOK TextTrusted ThreadHolds NothingRunsOn
PROPERTY TurnEnds
CHECK_DEADLOCK FALSE
