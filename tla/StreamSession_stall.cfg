\* Upstream falls silent after its first output.
SPECIFICATION Spec
CONSTANTS
    Attempts = 1
    Capacity = 1
    MaxEvents = 1
PROPERTIES StreamEnds
CHECK_DEADLOCK FALSE
