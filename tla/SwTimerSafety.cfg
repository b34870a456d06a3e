\* Two slots, three timers: slots are deleted and reused, and a generation
\* counter can wrap around.
CONSTANTS
    Capacity = 2
    IndexRange = 2
    GenRange = 2
    MaxTimeout = 2
    Contexts = {c1, c2, c3}
    NoContext = NoContext
    NoHandle = NoHandle
SYMMETRY ContextSymmetry
SPECIFICATION Spec
INVARIANTS
    TypeOK
    RunningCountdown
    TickAccounting
    HandleNamesItsTimer
    LiveTimerReachable
    CallbackKnowsItsTimer
PROPERTIES
    FiresOnTime
    TickNeverRearms
