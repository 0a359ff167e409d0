SPECIFICATION CopiesSpec
CONSTANTS
    Setups <- AllSetups
    BatchSize = 2
    MaxEntries = 4
    Plans <- AllPlans
    NoSubpath = main

INVARIANT NewestShown
INVARIANT ForkFaithful
INVARIANT CopiesReadAlike
INVARIANT ResumesNewest
INVARIANT ResumeFaithful
CHECK_DEADLOCK FALSE
