SPECIFICATION Spec
CONSTANTS
    Surfaces = {"openai", "anthropic"}
    Limits = {0, 3}
    Events <- MCEvents
    MaxEvents = 4
INVARIANTS
    TypeOK
    WellFormedStream
    StreamedIsCollected
    CeilingMet
    CallsAreWhole
\* An answered request is over.
CHECK_DEADLOCK FALSE
