SPECIFICATION Spec
CONSTANTS
    Owner = owner
    Other = other
    Tasks = {owner, other}
    Setups <- JustConverting
    Streams <- AllStreams
    Retries = 2
    MaxConnects = 1
INVARIANT SpawnedIsClosed
CHECK_DEADLOCK FALSE
