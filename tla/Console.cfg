\* A queue of two bytes, four bytes typed at any time.
CONSTANTS
    QueueSize = 2
    MaxBackoff = 2
    MaxTyped = 4
    MaxProbes = 3
    MaxToggles = 2
SPECIFICATION Spec
INVARIANT
    NoMissedWakeup
PROPERTY
    ImplementsPipe
