\* Two builds, and a request that runs beside the bootstrap loop.
SPECIFICATION RolloutFairSpec
CONSTANTS
    MaxBuilds = 2
    Requests = {q1}
    MaxFaults = 1
INVARIANTS
    RolloutTypeOK
    BootstrapLeavesACurrent
    LabelledTargetsRight
    TrafficAddsUp
    ModalKeepsRouting
PROPERTIES
    BootstrapTargetsV1
    BootstrapCompletes
\* The bounds end every behaviour.
CHECK_DEADLOCK FALSE
