CONSTANTS
    t1 = t1
    t2 = t2
    Tokens <- MCOneToken
    NoToken = NoToken
    WS_RECONNECT_DELAY = 1000
    WS_MAX_RECONNECT_ATTEMPTS = 5
    WS_RECONNECT_BACKOFF_FACTOR = 2
    WS_MAX_RECONNECT_DELAY = 30000
    RESET_DELAY = 100
    StrictMode = FALSE
    MaxFaults = 6
    MaxUserOps = 0
SPECIFICATION Spec
INVARIANT RetrySchedule
 
\* The page idles once the bounded faults and user operations are spent.
CHECK_DEADLOCK FALSE
