CONSTANTS
    a = a
    b = b
    x = x
    Paths = {a, x}
    Mapped = {a}
    FrameKinds <- OneFile
    Callers = {reader}
    EagerTasks = {eager1, eager2, eager3}
    MaxPendingEntries = 0
    MaxPendingBytes = 2
    MaxAttempts = 1
    MaxFrames = 4

SPECIFICATION FairSpec

INVARIANT MemoryFlat
