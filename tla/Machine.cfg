\* Slices of four instructions; interactive mode grants one at a time.
CONSTANTS
    NProcs = 2
    Harts <- TwoHarts
    HalfBits = 2
    Sstc = TRUE
    Virtual = TRUE
    Interleave = 4
    Configs <- ThreeConfigs
    Delay = 1
    Signals = TRUE
SPECIFICATION Spec
INVARIANTS TimersExact LrScAtomic HtifInOrder OwnReply NotEarly
PROPERTY Completes
