\* Tracing by count, by macro and both, of all code or of one process.
CONSTANTS
    Prog <- ProgAll
    Handler = 9
    Configs <- CommandLines
    MaxInsns = 26
SPECIFICATION Spec
INVARIANTS
    PcReconstructed
    TraceExact
CHECK_DEADLOCK FALSE
