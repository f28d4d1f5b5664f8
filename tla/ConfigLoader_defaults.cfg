CONSTANTS
    Server <- MCServer
    Old <- MCOld
    NoConfig = NoConfig
    Corrupt = Corrupt
    NoCache = NoCache
    MaxLoads = 3
    MaxExpiries = 2
SPECIFICATION Spec
CHECK_DEADLOCK FALSE
INVARIANT DefaultsMeanUnreachable
