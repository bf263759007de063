\* Two backends with a failed call or a restart, and a call that arrives late.
SPECIFICATION SwitchFairSpec
CONSTANTS
    MaxRuns = 5
    Backends = {b1, b2}
    MaxOps = 2
    MaxFaults = 1
    MaxStrays = 1
INVARIANTS
    SwitchTypeOK
    OneLiveRun
    PausedReadsPaused
    ResumedReadsOpen
PROPERTIES
    PauseMissesOnlyNewer
    CacheConverges
\* The bounds end every behaviour.
CHECK_DEADLOCK FALSE
