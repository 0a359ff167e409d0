CONSTANTS
    r1 = r1
    r2 = r2
    q1 = q1
    t1 = t1
    t2 = t2
    Requesters = {r1, r2}
    FromConsumer = {r2}
    Incoming = {q1}
    Tasks = {t1, t2}
    Setups <- LiveSetups
SPECIFICATION FairSpec

PROPERTY EverybodyReturns
CHECK_DEADLOCK FALSE
