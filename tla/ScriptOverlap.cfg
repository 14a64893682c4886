SPECIFICATION Spec
CONSTANTS
    Scripts = {m}
    m = m
    ReadOnly = {m}
    Intact = {}
    MaxConcurrency = 1
    MaxCalls = 3
    MaxInFlight = 2
    MaxStreams = 1
    Conns <- OneEach
PROPERTY EveryCallEnds
CHECK_DEADLOCK FALSE
