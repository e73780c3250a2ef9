CONSTANTS
    NoHandler = NoHandler
    Requests <- AllRequests
    MaxRequests = 3
    MaxPushes = 2
    CorsEnabled = TRUE
    WebSocketEnabled = TRUE
    RateLimitEnabled = TRUE
SPECIFICATION Spec
INVARIANTS
    SseReplied
