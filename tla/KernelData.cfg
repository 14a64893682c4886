SPECIFICATION Spec
CONSTANTS
    Chained = FALSE
    Names = {A, B, C}
    Base = {A, B}
    Aliases = {n1}
    NoName = none
    MaxEntries = 3
    MaxRefs = 2
INVARIANTS
    
    
    FollowsDefinitions
    ChecksNeverFire
    MovesAreReported
    FollowsWhenFresh
    LookupFollows
    RenamedStayReferenced
    KeepsBaseObjects
\* A resolved conflict and a patch, committed or refused, are at their end.
CHECK_DEADLOCK FALSE
