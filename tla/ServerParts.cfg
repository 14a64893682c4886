SPECIFICATION Spec
CONSTANTS
    Clients = {c1, c2}
    Authorizations = {r1, r2}
    MaxPending = 1
    MaxTokens = 2
    MaxDownloads = 1
    MaxGrants = 2
    Branches = {main, dev}
    Callers = {p, q}
    MaxEntries = 1
    MaxRevisions = 3
    MaxCommits = 1
    Files = 3
    Limit = 2
    MaxRecords = 10
    Cookies = {k1, k2, k3}
    Lifetime = 2
    MaxSessions = 2
    MaxAccess = 2
    MaxWebTokens = 4
    MaxRoot = 2
    MaxClock = 4
    Identities = {1, 2}
    DefinitionRefs = {1, 2}
    Moves = FALSE
    Repositories <- SmallRepositories
    MaxPage = 2
    MinHistory = 4
    MaxHistory = 5
INVARIANTS
    TypeOK
    GrantsTrace
    OrderCovers
    ViewIsOneMoment
    NewestKept
    MemoryIsFile
    RecentTokensWork
    DiffTellsAll
    PagesAreOneAnswer
PROPERTY DeadStaysDead
\* A history ends with its last page, a refused request with the refusal.
CHECK_DEADLOCK FALSE
