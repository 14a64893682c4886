SPECIFICATION Spec
CONSTANTS
    Identities = {1, 2}
    DefinitionRefs = {1, 2}
    Moves = TRUE
    Repositories <- Small
    MaxPage = 2
    MinCommits = 4
    MaxCommits = 5
INVARIANTS
    DiffTellsAll
\* A history ends with its last page, a refused request with the refusal.
CHECK_DEADLOCK FALSE
