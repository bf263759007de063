\* An attempt may freeze between its check and its start.
SPECIFICATION Spec
CONSTANTS
    MaxRuns = 1
    MaxAttempts = 1
    MaxOrders = 1
    MaxClock = 2
    CloseDelay = 1
    PromptStarts = FALSE
INVARIANTS
    SparedBelongToNewer
\* The bounds end every behaviour.
CHECK_DEADLOCK FALSE
