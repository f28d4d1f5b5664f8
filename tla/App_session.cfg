\* Reloads, cache expiry, failing fetches, sign-ins, sign-outs and renewals in any order.
CONSTANTS
    Server <- MCServer
    Old <- MCOld
    NoConfig = NoConfig
    Corrupt = Corrupt
    NoCache = NoCache
    MaxLoads = 2
    MaxExpiries = 1
    NoToken = NoToken
    Public = Public
    MaxRequests = 3
SPECIFICATION Spec
INVARIANT StorageMatchesState NoDefaultsAfterLoad
PROPERTY PageSettles
\* The page idles once the bounded reloads, hours and requests are spent.
CHECK_DEADLOCK FALSE
