SPECIFICATION MCSpec
CONSTANTS
    Scripts = {m, a}
    m = m
    a = a
    ReadOnly = {a}
    Intact = {m}
    MaxConcurrency = 1
    MaxCalls = 3
    MaxInFlight = 2
    MaxStreams = 1
    Conns <- OneEach
INVARIANTS NoStuckCall StreamsReachable
PROPERTY Released
CHECK_DEADLOCK FALSE
