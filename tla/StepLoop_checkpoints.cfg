\* Checkpoints asked for in any way, and a restored run.
CONSTANTS
    Interleave = 3
    Paths = {"slow", "fast"}
    Options <- Checkpoints
SPECIFICATION Spec
INVARIANTS
    RequestsServed
    IntervalsSavedOnce
    ResumePoint
    SliceExact
