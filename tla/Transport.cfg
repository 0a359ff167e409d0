CONSTANTS
    Writers = {w1, w2}
    RawCancels = TRUE
    Outputs <- AllOutputs

SPECIFICATION CliSpec

INVARIANT StdinSound
INVARIANT ChildTracked
INVARIANT CloseOrderly
INVARIANT OutputExact
PROPERTY CloseReleases
CHECK_DEADLOCK FALSE
