SPECIFICATION Spec
CONSTANTS
    h1 = h1
    h2 = h2
    Handlers <- MCHandlers
    MaxRequests = 5
    MaxResponses = 2
INVARIANT TypeOK
INVARIANT PendingIsPaired
INVARIANT ExpiryOfToken
PROPERTY ClearedAsDecided
PROPERTY EditsStay
CHECK_DEADLOCK FALSE
