CONSTANTS
    Capacity = 3
    IndexRange = 2
    GenRange = 3
    MaxTimeout = 2
    Contexts = {c1, c2, c3}
    NoContext = NoContext
    NoHandle = NoHandle
SPECIFICATION Spec
INVARIANTS
    LiveTimerReachable
