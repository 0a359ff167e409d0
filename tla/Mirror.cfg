CONSTANTS
    a = a
    b = b
    x = x
    Paths = {a, b, x}
    Mapped = {a, b}
    FrameKinds <- AllFrames
    Callers = {reader, closer}
    EagerTasks = {eager}
    MaxPendingEntries = 1
    MaxPendingBytes = 2
    MaxAttempts = 2
    MaxFrames = 2

SPECIFICATION FairSpec

INVARIANT FramesAccounted
INVARIANT FlushBarrier
PROPERTY NoCopyAfterAck
PROPERTY ImplementsContract
PROPERTY DrainsEnd
