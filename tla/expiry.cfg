\* A record that is written by the request and by two runs.
SPECIFICATION ExpirySpec
CONSTANTS
    TTL = 4
    Limit = 2
    Runs = {r1, r2}
    Api = Api
INVARIANTS
    PendingHasPayload
    RunningIsVisible
    ResultLastsWithStatus
PROPERTY
    Collected
CHECK_DEADLOCK FALSE
