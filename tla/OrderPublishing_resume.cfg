\* Two runs: a resume at any point of the first one's life.
SPECIFICATION Spec
CONSTANTS
    MaxRuns = 2
    MaxAttempts = 1
    MaxOrders = 1
    MaxClock = 2
    CloseDelay = 1
    PromptStarts = TRUE
INVARIANTS
    NeverClosesNewer
    SparedBelongToNewer
    NoneLeftOpen
PROPERTIES
    ResumeKeepsOrders
    ShownRuns
\* The bounds end every behaviour.
CHECK_DEADLOCK FALSE
