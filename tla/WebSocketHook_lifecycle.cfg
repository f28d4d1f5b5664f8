CONSTANTS
    t1 = t1
    t2 = t2
    Tokens <- MCTokens
    NoToken = NoToken
    WS_RECONNECT_DELAY = 1000
    WS_MAX_RECONNECT_ATTEMPTS = 2
    WS_RECONNECT_BACKOFF_FACTOR = 2
    WS_MAX_RECONNECT_DELAY = 30000
    RESET_DELAY = 100
    StrictMode = TRUE
    MaxFaults = 2
    MaxUserOps = 1
SPECIFICATION Spec
INVARIANT TypeOK ConnectingSound IndicatorSound
PROPERTY Settles
\* The page idles once the bounded faults and user operations are spent.
CHECK_DEADLOCK FALSE
