\* Three builds, some with a label.
SPECIFICATION RolloutSpec
CONSTANTS
    MaxBuilds = 3
    Requests = {q1}
    MaxFaults = 0
INVARIANTS
    MetadataFirst
\* The bounds end every behaviour.
CHECK_DEADLOCK FALSE
