SPECIFICATION Spec
CONSTANTS
    d1 = d1
    d2 = d2
    c1 = c1
    c2 = c2
    c3 = c3
    Dirs = {d1, d2}
    Callers = {c1, c2, c3}
    Session = session
    Plans <- MCPlans
    CliLines = {"talk", "meta", "side"}
    Windows <- MCWindows
    Orders <- MCOrders
    MaxWrites = 2
    MaxFiles = 3
SYMMETRY Symmetry

INVARIANT DeletedStaysDeleted
INVARIANT ReadersFaithful
CHECK_DEADLOCK FALSE
