\* Everything the debugger can do with two harts.
CONSTANTS
    Harts = {0, 1}
    AbstractRti = 1
    Groups = {0, 1}
    Availability = {{0, 1}, {0}}
    Kinds = {"exec", "custom", "badtype", "badregister"}
    MaxResets = 1
SPECIFICATION Spec
INVARIANTS
    HaltedExact
    CommandRanOnce
    ExceptionReported
