\* CloseOrders finds no worker within its timeout.
SPECIFICATION Spec
CONSTANTS
    MaxRuns = 1
    MaxAttempts = 1
    MaxOrders = 1
    MaxClock = 1
    CloseDelay = 1
    PromptStarts = TRUE
INVARIANTS
    StoppedMeansClosed
\* The bounds end every behaviour.
CHECK_DEADLOCK FALSE
