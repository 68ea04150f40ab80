\* Two attempts, a channel smaller than what upstream sends.
SPECIFICATION Spec
CONSTANTS
    Attempts = 2
    Capacity = 1
    MaxEvents = 2
INVARIANTS TypeOK DeliveredInOrder NothingLost OneConnection
PROPERTIES OpenSettles NothingOutlivesTheRequest
CHECK_DEADLOCK FALSE
