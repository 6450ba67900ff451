\* Three delegation settings, up to three contexts that wait.
CONSTANTS
    Configs <- Settings
    MaxDepth = 3
SPECIFICATION Spec
INVARIANTS
    DoubleTrapBits
    InterruptToOwner
PROPERTIES
    CriticalOnlyInM
    ReturnsExact
    GuestContained
