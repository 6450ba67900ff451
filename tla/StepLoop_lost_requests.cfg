\* A signal or the no-op comes between the requests.
CONSTANTS
    Interleave = 3
    Paths = {"slow", "fast"}
    Options <- LostRequests
SPECIFICATION Spec
INVARIANTS
    RequestsServed
