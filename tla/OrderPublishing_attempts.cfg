\* One run, two attempts that may freeze and overlap, and what must happen in the end.
SPECIFICATION FairSpec
CONSTANTS
    MaxRuns = 1
    MaxAttempts = 2
    MaxOrders = 2
    MaxClock = 1
    CloseDelay = 1
    PromptStarts = TRUE
INVARIANTS
    TypeOK
    AtMostOneLateOrder
    MarkTruthful
    MarkedInTheSameTask
PROPERTIES
    PauseStops
    ClosingEnds
    PublishingEnds
\* The bounds end every behaviour.
CHECK_DEADLOCK FALSE
