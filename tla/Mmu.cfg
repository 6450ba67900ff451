\* A hart's port to memory under several programs.
CONSTANTS
    NPmp = 2
    NPages = 4
    PgSectors = 2
    AddrBits = 3
    TlbEntries = 2
    Ram = {0, 1, 2}
    PtSector = 1
    None = None
    Options <- Programs
SPECIFICATION Spec
INVARIANTS
    AccessAllowed
    AccessObserved
    ScAtomic
PROPERTIES
    LockedFixed
    LockdownHolds
