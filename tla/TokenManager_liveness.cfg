\* Liveness: no symmetry, one access token beyond the first, no crash.
SPECIFICATION Spec
CONSTANTS
    Callers = {a, b}
    Calls = {k1, k2}
    NoCall = NoCall
    Writable = FALSE
    MaxToken = 2
    MaxGrant = 2
    MaxCrash = 0
PROPERTIES WaitersAreReleased
