CONSTANTS
    NoHandler = NoHandler
    Requests <- AllRequests
    MaxRequests = 3
    MaxPushes = 2
    CorsEnabled = TRUE
    WebSocketEnabled = TRUE
    RateLimitEnabled = TRUE
SPECIFICATION FairSpec
INVARIANTS
    TypeOK
    WireIsSound
    HandledWithinLimit
PROPERTIES
    AnsweredOnce
    PermitReturned
    McpReplied
