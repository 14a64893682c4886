SPECIFICATION Spec
CONSTANTS
    Chained = TRUE
INVARIANTS
    UntouchedFollows
CHECK_DEADLOCK FALSE
