\* Two idle cycles needed, none granted at first; one lost connection.
CONSTANTS
    RequiredRti = 2
    AbstractRti = 1
    MaxDelay = 2
    MaxDisconnects = 1
SPECIFICATION Spec
INVARIANTS
    ExactlyOnce
    ResultExact
    RanOnce
PROPERTIES
    SessionEnds
    ImplementsDebugModule
