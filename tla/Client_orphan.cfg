\* Sign-ins, renewals and sign-outs drive the token; no network faults,
\* so every close comes from the hook itself.
CONSTANTS
    NoToken = NoToken
    Public = Public
    MaxRequests = 2
    WS_RECONNECT_DELAY = 1000
    WS_MAX_RECONNECT_ATTEMPTS = 5
    WS_RECONNECT_BACKOFF_FACTOR = 2
    WS_MAX_RECONNECT_DELAY = 30000
    RESET_DELAY = 100
    StrictMode = FALSE
    MaxFaults = 0
    MaxUserOps = 0
SPECIFICATION Spec
INVARIANT OnlyCurrentSocket
CHECK_DEADLOCK FALSE
