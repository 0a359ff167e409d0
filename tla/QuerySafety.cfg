CONSTANTS
    r1 = r1
    r2 = r2
    q1 = q1
    t1 = t1
    t2 = t2
    Requesters = {r1, r2}
    FromConsumer = {r2}
    Incoming = {q1}
    Tasks = {t1, t2}
    Setups <- SafetySetups
SPECIFICATION Spec

INVARIANT TypeOK
INVARIANT TablesMatch
INVARIANT StreamConserved
INVARIANT MirrorAhead
INVARIANT InputKept
PROPERTY ErrorsFaithful
CHECK_DEADLOCK FALSE
