CONSTANTS
    s1 = s1
    s2 = s2
    a = a
    c1 = c1
    c2 = c2
    Callers = {c1, c2}
    KeyOrder <- InBucket
    NoSubpath = "None"
    Agent <- AgentOf
    Setups <- AllSetups
    MaxMade = 5
    MaxCalls = 5
    Sessions = {s1, s2}
    Subpaths = {a}
    Workloads <- AllWorkloads
    MaxEntries = 4
    MaxTime = 4
    HeadLen = 4
    TailLen = 4
    Project = "project"

SPECIFICATION StoresSpec

INVARIANT SidecarExact
INVARIANT PagesAgree
INVARIANT ListingTrue
INVARIANT ReadsTrue
INVARIANT DeletesTrue
INVARIANT ListsTrue
PROPERTY ImplementsContract
CHECK_DEADLOCK FALSE
