CONSTANTS
    NoHandler = NoHandler
    Requests <- AllRequests
    MaxRequests = 3
    MaxPushes = 1
    CorsEnabled = TRUE
    WebSocketEnabled = TRUE
    RateLimitEnabled = TRUE
SPECIFICATION Spec
INVARIANT EveryRequestAnswered
