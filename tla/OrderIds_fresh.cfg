\* Intervals of half a second to a second and a half.
SPECIFICATION IdsSpec
CONSTANTS
    Second = 2
    Intervals = {1, 2, 3}
    MaxAttempts = 3
    MaxTime = 6
INVARIANTS
    IdsTypeOK
    FreshIds
\* The bounds end every behaviour.
CHECK_DEADLOCK FALSE
