\* A file source; two access tokens beyond the first, one rotation, one crash.
SPECIFICATION Spec
CONSTANTS
    Callers = {a, b}
    Calls = {k1, k2}
    NoCall = NoCall
    Writable = TRUE
    MaxToken = 3
    MaxGrant = 2
    MaxCrash = 1
SYMMETRY Symmetry
INVARIANTS TypeOK SingleFlight SavedPairIsCurrent GrantNotDropped
PROPERTIES ImplementsRegister
