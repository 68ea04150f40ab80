\* A refresh fails while the rejected token has not expired yet.
SPECIFICATION Spec
CONSTANTS
    Callers = {a, b}
    Calls = {k1, k2}
    NoCall = NoCall
    Writable = TRUE
    MaxToken = 3
    MaxGrant = 2
    MaxCrash = 1


PROPERTIES ForcedTokenIsNew
