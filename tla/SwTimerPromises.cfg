\* As many generations as timers: no counter wraps around.
CONSTANTS
    Capacity = 2
    IndexRange = 2
    GenRange = 3
    MaxTimeout = 2
    Contexts = {c1, c2, c3}
    NoContext = NoContext
    NoHandle = NoHandle
SPECIFICATION FairSpec
PROPERTIES
    ImplementsTimerService
    TickReturns
    CountdownEnds
