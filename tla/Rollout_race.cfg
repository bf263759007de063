\* A promote of the operator beside the bootstrap loop.
SPECIFICATION RolloutSpec
CONSTANTS
    MaxBuilds = 2
    Requests = {q1}
    MaxFaults = 0
PROPERTIES
    BootstrapOnlyWithoutCurrent
\* The bounds end every behaviour.
CHECK_DEADLOCK FALSE
