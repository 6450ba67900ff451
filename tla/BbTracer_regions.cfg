\* Two regions of interest of one process among others, a warmup window, a
\* checkpoint restored.
CONSTANTS
    Addrs <- Pair
    SimpointSize = 3
    WarmupSize = 2
    StartInterval = 0
    MaxIntervals = 2
    UmodeOnly = TRUE
    Checkpoints = TRUE
    MaxStarts = 2
    MaxExecuted = 5
SPECIFICATION BbSpec
INVARIANTS
    BbvConserves
    TracksExact
