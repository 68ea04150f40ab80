\* maxAttempts as in the code, and two sessions per shape of the request.
SPECIFICATION GatewaySpec
CONSTANTS
    MaxAttempts = 3
    Attempts = 2
INVARIANTS TypeOK ConnectionsReleased RejectedMeansAllForbidden KeptResponseIsNewest SendsBounded HoldsOneConnection
PROPERTIES RequestSettles
CHECK_DEADLOCK FALSE
