\* Two contexts, two sources; the last enable word reaches past num_ids.
CONSTANTS
    NDev = 2
    NCtx = 2
    WordBits = 2
    MaxPrio = 1
SPECIFICATION PlicSpec
INVARIANTS
    LevelTriggeredUnshared
    ScanFindsBest
    MipMirrorsPending
