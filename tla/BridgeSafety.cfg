CONSTANTS
    Handlers = {h1, h2}
    Ids = {i1, i2}
    MaxSessions = 2
    Servers = {TRUE, FALSE}
    Asks = FALSE

SPECIFICATION Spec
SYMMETRY Symmetry

INVARIANT OwnResponse
INVARIANT NoneStranded
INVARIANT NoStrayServer
CHECK_DEADLOCK FALSE
