CONSTANTS
    Handlers = {h1, h2}
    Ids = {i1}
    MaxSessions = 1
    Servers = {TRUE}
    Asks = TRUE

SPECIFICATION FairSpec

PROPERTY NobodyWaits
CHECK_DEADLOCK FALSE
