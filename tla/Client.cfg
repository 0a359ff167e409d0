SPECIFICATION FairSpec
CONSTANTS
    Owner = owner
    Other = other
    Tasks = {owner, other}
    Setups <- AllSetups
    Streams <- AllStreams
    Retries = 2
    MaxConnects = 2

INVARIANT DirOutlivesProcess
INVARIANT EndReleases
INVARIANT ResponsesWhole
INVARIANT TypedMessages
PROPERTY CallsEnd
CHECK_DEADLOCK FALSE
